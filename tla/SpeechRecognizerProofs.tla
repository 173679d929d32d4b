------------------------ MODULE SpeechRecognizerProofs ------------------------
(***************************************************************************)
(* Proofs about SpeechRecognizer, for every set of timeouts, sample rate,  *)
(* buffer size, width of an int and number of sessions, and wherever the   *)
(* main thread is interrupted: what is left to be delivered belongs to the *)
(* session that is on or to one whose join was interrupted, recorder and   *)
(* decoder are closed while no thread is there, and a timeout follows      *)
(* silence.                                                                *)
(***************************************************************************)
EXTENDS SpeechRecognizer, TLAPS

Kinds == {"begin", "end", "partial", "result", "timeout", "error"}
OfSpeech == {"begin", "end", "partial"}

\* What of run() may find the recorder on, has the utterance open, or leaves events of speech.
Recording == {"check", "utt", "loop", "read", "stop"}
Open == {"loop", "read", "stop", "end"}
Speaking == Open \cup {"clear"}

Places == {"none", "start", "busy", "signal", "dead"} \cup Recording \cup Speaking

Events == [kind : Kinds, session : Sessions, utt : Nat]

TypeOK ==
  /\ main \in {"looper", "stop", "cancel"}
  /\ mainInterrupted \in BOOLEAN /\ hasThread \in BOOLEAN /\ alive \in BOOLEAN
  /\ session \in Nat /\ abandoned \subseteq Sessions
  /\ thread \in [Sessions -> Places] /\ interrupted \in [Sessions -> BOOLEAN]
  /\ inSpeech \in [Sessions -> BOOLEAN]
  /\ uttOpen \in BOOLEAN /\ recording \in BOOLEAN /\ utt \in Nat
  /\ queue \in Seq(Events)

ClockTypeOK ==
  /\ timeout \in [Sessions -> Nat \cup {NoTimeout}]
  /\ timeoutSamples \in [Sessions -> Int] /\ remainingSamples \in [Sessions -> Int]
  /\ silence \in [Sessions -> Nat]

(* Who may be where: the main thread waits only for a thread it has, any   *)
(* other thread in run() was abandoned, and recorder and utterance are     *)
(* open only inside a thread.                                              *)
Phases ==
  /\ main # "looper" => hasThread
  /\ hasThread => session \in Sessions
  /\ \A s \in abandoned : s <= session
  /\ \A s \in Sessions : Live(s) => (hasThread /\ s = session) \/ s \in abandoned
  /\ recording => \E s \in Sessions : thread[s] \in Recording
  /\ uttOpen => \E s \in Sessions : thread[s] \in Open

TimeHasPassed(s) ==
  timeout[s] * SampleRate >= IntLimit \/ s \in wrapped \/ silence[s] >= Asked(s)

(* An event is of this session or of an earlier one; one of speech is of a *)
(* session whose thread has not removed what is pending yet; and a timeout *)
(* is the last thing a thread does.                                        *)
InPlace(event) ==
  /\ event.session <= session
  /\ event.kind \in OfSpeech => thread[event.session] \in Speaking
  /\ event.kind = "timeout" => thread[event.session] = "dead" /\ TimeHasPassed(event.session)

Pending == \A i \in 1 .. Len(queue) : InPlace(queue[i])

(* The time that remains and the silence make up the timeout, or more when *)
(* reads have failed.                                                      *)
Countdown(s) ==
  /\ timeout[s] = NoTimeout => timeoutSamples[s] = NoTimeout
  /\ timeout[s] # NoTimeout /\ timeout[s] * SampleRate < IntLimit =>
       /\ timeoutSamples[s] = Asked(s)
       /\ \/ s \in wrapped
          \/ silence[s] >= Asked(s)
          \/ remainingSamples[s] + silence[s] >= Asked(s)

Clock == ClockTypeOK /\ \A s \in Sessions : Countdown(s)

IInv == TypeOK /\ Phases /\ Pending /\ Clock
-----------------------------------------------------------------------------
(* Arithmetic. *)

LEMMA QuotientIsNat ==
  ASSUME NEW n \in Nat, NEW d \in Nat \ {0}
  PROVE  n \div d \in Nat
  OBVIOUS

LEMMA ProductIsNat ==
  ASSUME NEW m \in Nat, NEW n \in Nat
  PROVE  m * n \in Nat
  OBVIOUS

LEMMA Int32IsInt ==
  ASSUME NEW n \in Int
  PROVE  Int32(n) \in Int
  <1>1. 2 * IntLimit \in Nat \ {0} /\ n + IntLimit \in Int
    BY RecognizerAssumption
  <1> DEFINE w == 2 * IntLimit
             m == n + IntLimit
  <1>2. m % w \in Int
    <2> HIDE DEF w, m
    <2>1. QED
      BY <1>1 DEF w, m
  <1>3. QED
    BY <1>2, RecognizerAssumption DEF Int32

(* What fits an int is its own value. *)
LEMMA Int32Fits ==
  ASSUME NEW n \in Nat, n < IntLimit
  PROVE  Int32(n) = n
  <1>1. \A l \in Nat, m \in Nat : m < l => (m + l) % (2 * l) = m + l
    OBVIOUS
  <1>2. QED
    BY <1>1, RecognizerAssumption DEF Int32

LEMMA QuotientIsInt ==
  ASSUME NEW n \in Int
  PROVE  Quotient(n, PerSecond) \in Int
  <1>1. PerSecond \in Nat \ {0}
    BY RecognizerAssumption
  <1>2. CASE n < 0
    <2>1. -n \in Nat
      BY <1>2
    <2>2. (-n) \div PerSecond \in Nat
      BY <1>1, <2>1, QuotientIsNat
    <2>3. QED
      BY <1>2, <2>2 DEF Quotient
  <1>3. CASE ~(n < 0)
    BY <1>1, <1>3, QuotientIsNat DEF Quotient
  <1>4. QED
    BY <1>2, <1>3

(* The samples of a timeout are those asked for, unless they overflow. *)
LEMMA TimeoutInSamples ==
  ASSUME NEW t \in Nat \cup {NoTimeout}
  PROVE  /\ TimeoutSamples(t) \in Int
         /\ t # NoTimeout /\ t * SampleRate < IntLimit =>
              TimeoutSamples(t) = (t * SampleRate) \div PerSecond
  <1>1. CASE t = NoTimeout
    BY <1>1 DEF TimeoutSamples, NoTimeout
  <1>2. CASE t # NoTimeout
    <2> DEFINE n == t * SampleRate
    <2>1. n \in Nat
      BY <1>2, ProductIsNat, RecognizerAssumption DEF NoTimeout
    <2>2. TimeoutSamples(t) = Quotient(Int32(n), PerSecond)
      BY <1>2 DEF TimeoutSamples
    <2> HIDE DEF n
    <2>3. TimeoutSamples(t) \in Int
      BY <2>1, <2>2, Int32IsInt, QuotientIsInt
    <2>4. n < IntLimit => TimeoutSamples(t) = n \div PerSecond
      BY <2>1, <2>2, Int32Fits DEF Quotient
    <2>5. QED
      BY <2>3, <2>4 DEF n
  <1>3. QED
    BY <1>1, <1>2

LEMMA AskedIsNat ==
  ASSUME NEW s \in Sessions, ClockTypeOK, timeout[s] # NoTimeout
  PROVE  Asked(s) \in Nat /\ timeout[s] * SampleRate \in Nat
  <1>1. timeout[s] \in Nat
    BY DEF ClockTypeOK
  <1>2. timeout[s] * SampleRate \in Nat
    BY <1>1, ProductIsNat, RecognizerAssumption
  <1>3. QED
    BY <1>2, QuotientIsNat, RecognizerAssumption DEF Asked
-----------------------------------------------------------------------------
(* What a step leaves alone. *)

LEMMA InitIInv == Init => IInv
  <1> SUFFICES ASSUME Init PROVE IInv
    OBVIOUS
  <1>1. TypeOK
    <2>1. queue \in Seq(Events) /\ "none" \in Places
      BY DEF Init, Places
    <2>2. thread \in [Sessions -> Places]
      BY <2>1 DEF Init
    <2>3. QED
      BY <2>1, <2>2 DEF Init, TypeOK
  <1>2. Clock
    BY DEF Init, Clock, ClockTypeOK, Countdown, NoTimeout
  <1>3. Phases /\ Pending
    BY DEF Init, Phases, Pending, Live
  <1>4. QED
    BY <1>1, <1>2, <1>3 DEF IInv

(* An action that leaves the clock alone leaves what it tells. *)
LEMMA ClockStays ==
  ASSUME Clock, UNCHANGED clock
  PROVE  Clock' /\ \A s \in Sessions : TimeHasPassed(s)' = TimeHasPassed(s)
  BY DEF Clock, ClockTypeOK, Countdown, TimeHasPassed, Asked, clock

(* Events that are left stay in place, while threads that have told of     *)
(* speech have not removed it and those that are over remain so.           *)
LEMMA PendingStays ==
  ASSUME IInv, queue' \in Seq(Events), session' \in Nat, session <= session',
         \A s \in Sessions : s <= session =>
            /\ thread[s] \in Speaking => thread'[s] \in Speaking
            /\ thread[s] = "dead" => thread'[s] = "dead"
            /\ thread[s] = "dead" /\ TimeHasPassed(s) => TimeHasPassed(s)',
         \A i \in 1 .. Len(queue') :
            \/ \E j \in 1 .. Len(queue) : queue'[i] = queue[j]
            \/ InPlace(queue[i])'
  PROVE  Pending'
  <1> SUFFICES ASSUME NEW i \in 1 .. Len(queue')
               PROVE  InPlace(queue[i])'
    BY DEF Pending
  <1>1. CASE \E j \in 1 .. Len(queue) : queue'[i] = queue[j]
    <2>1. PICK j \in 1 .. Len(queue) : queue'[i] = queue[j]
      BY <1>1
    <2>2. InPlace(queue[j]) /\ queue[j] \in Events /\ session \in Nat
      BY DEF IInv, Pending, TypeOK
    <2>3. PICK e \in Events : e = queue[j]
      BY <2>2
    <2>4. e.session \in Sessions /\ e.session \in Nat
      BY RecognizerAssumption DEF Events, Sessions
    <2>5. queue'[i] = e /\ InPlace(e)
      BY <2>1, <2>2, <2>3
    <2>6. QED
      BY <2>2, <2>4, <2>5 DEF InPlace
  <1>2. QED
    BY <1>1

(* A step of run() in a thread leaves the others where they are, and needs *)
(* to leave the recorder and the utterance only as open as it is itself.   *)
LEMMA PhasesStay ==
  ASSUME IInv, NEW s \in Sessions, NEW from \in Places \ {"none", "dead"}, NEW to \in Places,
         Goes(s, from, to),
         recording' => to \in Recording \/ (recording /\ from \notin Recording),
         uttOpen' => to \in Open \/ (uttOpen /\ from \notin Open)
  PROVE  /\ Phases'
         /\ thread' \in [Sessions -> Places]
         /\ \A o \in Sessions : thread'[o] = IF o = s THEN to ELSE thread[o]
  <1>1. /\ thread \in [Sessions -> Places] /\ thread[s] = from
        /\ thread' = [thread EXCEPT ![s] = to]
        /\ main' = main /\ hasThread' = hasThread /\ session' = session
        /\ abandoned' = abandoned
    BY DEF IInv, TypeOK, Goes, client
  <1>2. \A o \in Sessions : thread'[o] = IF o = s THEN to ELSE thread[o]
    BY <1>1
  <1>3. thread' \in [Sessions -> Places]
    BY <1>1
  <1>4. \A o \in Sessions : Live(o)' => Live(o)
    BY <1>1, <1>2 DEF Live
  <1>5. recording' => \E o \in Sessions : thread'[o] \in Recording
    BY <1>1, <1>2 DEF IInv, Phases
  <1>6. uttOpen' => \E o \in Sessions : thread'[o] \in Open
    BY <1>1, <1>2 DEF IInv, Phases
  <1>7. Phases'
    BY <1>1, <1>4, <1>5, <1>6 DEF IInv, Phases
  <1>8. QED
    BY <1>2, <1>3, <1>7
-----------------------------------------------------------------------------
(* The main thread, an action at a time. *)

LEMMA StartListeningStep ==
  ASSUME IInv, StartListening
  PROVE  IInv'
  <1>0. /\ session + 1 \in Sessions /\ session \in Nat /\ session' = session + 1
    BY RecognizerAssumption DEF StartListening, IInv, TypeOK, Sessions
  <1>n. PICK n \in Sessions : n = session + 1
    BY <1>0
  <1>1. /\ TypeOK /\ ClockTypeOK /\ session \in Nat /\ session' = n
        /\ hasThread = FALSE /\ main = "looper"
        /\ hasThread' = TRUE /\ thread' = [thread EXCEPT ![n] = "start"]
        /\ UNCHANGED <<main, mainInterrupted, abandoned, interrupted, inSpeech, silence, wrapped,
                       utt, uttOpen, recording, queue, alive>>
    BY <1>0, <1>n DEF StartListening, IInv, Clock, decoder
  <1>2. PICK t \in Timeouts :
          /\ timeout' = [timeout EXCEPT ![n] = t]
          /\ timeoutSamples' = [timeoutSamples EXCEPT ![n] = TimeoutSamples(t)]
          /\ remainingSamples' = [remainingSamples EXCEPT ![n] = TimeoutSamples(t)]
    BY <1>0, <1>n DEF StartListening
  <1>3. t \in Nat \cup {NoTimeout} /\ TimeoutSamples(t) \in Int
    BY TimeoutInSamples, RecognizerAssumption
  <1>4. TypeOK'
    <2>1. "start" \in Places /\ n \in Nat
      BY <1>1, <1>n DEF Places
    <2>2. thread' \in [Sessions -> Places]
      BY <1>1, <2>1 DEF TypeOK
    <2>3. QED
      BY <1>1, <2>1, <2>2 DEF TypeOK
  <1>5. Clock'
    <2>1. ClockTypeOK'
      BY <1>1, <1>2, <1>3 DEF ClockTypeOK
    <2>2. ASSUME NEW s \in Sessions, s # n
          PROVE  Countdown(s)'
      <3>1. Countdown(s)
        BY DEF IInv, Clock
      <3>2. /\ timeout'[s] = timeout[s] /\ timeoutSamples'[s] = timeoutSamples[s]
            /\ remainingSamples'[s] = remainingSamples[s]
        BY <1>1, <1>2, <2>2 DEF ClockTypeOK
      <3>3. QED
        BY <1>1, <3>1, <3>2 DEF Countdown, Asked
    <2>3. Countdown(n)'
      <3>1. /\ timeout'[n] = t /\ timeoutSamples'[n] = TimeoutSamples(t)
            /\ remainingSamples'[n] = TimeoutSamples(t) /\ silence'[n] \in Nat
        BY <1>1, <1>2 DEF ClockTypeOK
      <3>2. t = NoTimeout => TimeoutSamples(t) = NoTimeout
        BY DEF TimeoutSamples
      <3>3. ASSUME t # NoTimeout, t * SampleRate < IntLimit
            PROVE  /\ timeoutSamples'[n] = Asked(n)'
                   /\ remainingSamples'[n] + silence'[n] >= Asked(n)'
        <4> DEFINE asked == (t * SampleRate) \div PerSecond
        <4>1. asked = TimeoutSamples(t)
          BY <1>3, <3>3, TimeoutInSamples
        <4>2. Asked(n)' = asked
          BY <3>1 DEF Asked
        <4> HIDE DEF asked
        <4>3. QED
          BY <1>3, <3>1, <4>1, <4>2
      <3>4. QED
        BY <3>1, <3>2, <3>3 DEF Countdown
    <2>4. QED
      BY <1>1, <2>1, <2>2, <2>3 DEF Clock
  <1>6. \A s \in Sessions : s # n => thread'[s] = thread[s]
    BY <1>1 DEF TypeOK
  <1>7. Phases'
    <2>1. \A s \in Sessions : Live(s) => s \in abandoned
      BY <1>1 DEF IInv, Phases
    <2>2. \A s \in Sessions : Live(s) => s # n
      BY <1>1, <1>n, <2>1 DEF IInv, Phases
    <2>3. \A s \in Sessions : Live(s)' => s = n \/ s \in abandoned
      BY <1>6, <2>1 DEF Live
    <2>4. recording => \E s \in Sessions : thread'[s] \in Recording
      <3>1. \A s \in Sessions : thread[s] \in Recording => Live(s)
        BY DEF Recording, Live
      <3>2. QED
        BY <1>6, <2>2, <3>1 DEF IInv, Phases
    <2>5. uttOpen => \E s \in Sessions : thread'[s] \in Open
      <3>1. \A s \in Sessions : thread[s] \in Open => Live(s)
        BY DEF Open, Live
      <3>2. QED
        BY <1>6, <2>2, <3>1 DEF IInv, Phases
    <2>6. \A s \in abandoned : s <= session'
      BY <1>1, <1>n DEF IInv, TypeOK, Phases, Sessions
    <2>7. QED
      BY <1>1, <2>3, <2>4, <2>5, <2>6 DEF Phases
  <1>8. Pending'
    <2>1. \A s \in Sessions : s <= session => s # n
      BY <1>1, <1>n DEF Sessions
    <2>2. \A s \in Sessions : s # n => TimeHasPassed(s)' = TimeHasPassed(s)
      BY <1>1, <1>2 DEF TimeHasPassed, Asked, ClockTypeOK
    <2>3. queue' \in Seq(Events) /\ session' \in Nat /\ session <= session'
      BY <1>1, <1>n DEF TypeOK, Sessions
    <2>4. QED
      BY <1>1, <1>6, <2>1, <2>2, <2>3, PendingStays
  <1>9. QED
    BY <1>4, <1>5, <1>7, <1>8 DEF IInv

(* stop() and cancel() before the join, and what interrupts the main thread. *)
LEMMA InterruptStep ==
  ASSUME IInv, Stop \/ Cancel \/ InterruptMain
  PROVE  IInv'
  <1>1. /\ UNCHANGED <<hasThread, session, abandoned, thread, clock, inSpeech, utt, uttOpen,
                       recording, queue, alive>>
        /\ TypeOK /\ Phases
    BY DEF Stop, Cancel, InterruptMain, Interrupt, decoder, IInv
  <1>2. /\ main' \in {"looper", "stop", "cancel"}
        /\ main' # "looper" => hasThread
        /\ mainInterrupted' \in BOOLEAN /\ interrupted' \in [Sessions -> BOOLEAN]
    <2>1. CASE Stop \/ Cancel
      <3>1. interrupted' \in [Sessions -> BOOLEAN]
        <4>1. \A s \in Sessions : (interrupted[s] \/ thread[s] # "dead") \in BOOLEAN
          BY DEF IInv, TypeOK
        <4>2. QED
          BY <2>1, <4>1 DEF Stop, Cancel, Interrupt, IInv, TypeOK
      <3>2. QED
        BY <2>1, <3>1, <1>1 DEF Stop, Cancel, Interrupt, TypeOK
    <2>2. CASE InterruptMain
      BY <1>1, <2>2 DEF InterruptMain, TypeOK, Phases
    <2>3. QED
      BY <2>1, <2>2
  <1>3. TypeOK'
    BY <1>1, <1>2 DEF TypeOK
  <1>4. Phases'
    BY <1>1, <1>2 DEF Phases, Live
  <1>5. Clock' /\ \A s \in Sessions : TimeHasPassed(s)' = TimeHasPassed(s)
    BY <1>1, ClockStays DEF IInv
  <1>6. Pending'
    BY <1>1, <1>3, <1>5, PendingStays DEF TypeOK
  <1>7. QED
    BY <1>3, <1>4, <1>5, <1>6 DEF IInv

(* The join returns, of a thread that is over or of one that is abandoned, *)
(* or the looper delivers an event.                                        *)
LEMMA MainStep ==
  ASSUME IInv, Main
  PROVE  IInv'
  <1>1. /\ UNCHANGED <<mainInterrupted, session, thread, interrupted, clock, inSpeech, utt,
                       uttOpen, recording, alive>>
        /\ TypeOK /\ Phases /\ session \in Nat /\ queue \in Seq(Events)
    BY DEF Main, StopReturns, CancelReturns, JoinEnds, Deliver, client, decoder, IInv, TypeOK
  <1>2. \/ UNCHANGED <<main, hasThread, abandoned>>
        \/ /\ session \in Sessions /\ main' = "looper" /\ hasThread' = FALSE
           /\ \/ thread[session] = "dead" /\ abandoned' = abandoned
              \/ abandoned' = abandoned \cup {session}
    <2>1. ASSUME NEW call \in {"stop", "cancel"}, JoinEnds(call)
          PROVE  /\ session \in Sessions /\ main' = "looper" /\ hasThread' = FALSE
                 /\ \/ thread[session] = "dead" /\ abandoned' = abandoned
                    \/ abandoned' = abandoned \cup {session}
      BY <1>1, <2>1 DEF JoinEnds, Joined, Phases
    <2>2. QED
      BY <2>1 DEF Main, StopReturns, CancelReturns, Deliver, client
  <1>3. /\ queue' \in Seq(Events)
        /\ \A i \in 1 .. Len(queue') :
              \/ \E j \in 1 .. Len(queue) : queue'[i] = queue[j]
              \/ InPlace(queue[i])'
    <2>1. CASE CancelReturns
      BY <1>1, <2>1 DEF CancelReturns
    <2>2. CASE StopReturns
      <3> DEFINE result == [kind |-> "result", session |-> session, utt |-> utt]
      <3>1. queue' = Append(queue, result)
        BY <2>2 DEF StopReturns
      <3>2. session \in Sessions
        BY <1>1, <2>2 DEF StopReturns, JoinEnds, Phases
      <3>3. result \in Events /\ result.session = session /\ result.kind = "result"
        BY <1>1, <3>2 DEF TypeOK, Events, Kinds
      <3> HIDE DEF result
      <3>4. /\ queue' \in Seq(Events)
            /\ \A i \in 1 .. Len(queue') :
                  \/ \E j \in 1 .. Len(queue) : queue'[i] = queue[j]
                  \/ queue'[i] = result
        BY <1>1, <3>1, <3>3
      <3>5. \A i \in 1 .. Len(queue') : queue'[i] = result => InPlace(queue[i])'
        BY <1>1, <3>3 DEF InPlace, OfSpeech
      <3>6. QED
        BY <3>4, <3>5
    <2>3. CASE Deliver
      BY <1>1, <2>3 DEF Deliver
    <2>4. QED
      BY <2>1, <2>2, <2>3 DEF Main
  <1>4. TypeOK'
    BY <1>1, <1>2, <1>3 DEF TypeOK
  <1>5. Phases'
    <2>1. \A s \in Sessions : Live(s)' = Live(s)
      BY <1>1 DEF Live
    <2>2. CASE UNCHANGED <<main, hasThread, abandoned>>
      BY <1>1, <2>1, <2>2 DEF Phases
    <2>3. CASE /\ session \in Sessions /\ main' = "looper" /\ hasThread' = FALSE
               /\ \/ thread[session] = "dead" /\ abandoned' = abandoned
                  \/ abandoned' = abandoned \cup {session}
      <3>1. \A s \in Sessions : Live(s) => s \in abandoned'
        BY <1>1, <2>3 DEF Phases, Live
      <3>2. \A s \in abandoned' : s <= session
        BY <1>1, <2>3 DEF Phases
      <3>3. QED
        BY <1>1, <2>1, <2>3, <3>1, <3>2 DEF Phases
    <2>4. QED
      BY <1>2, <2>2, <2>3
  <1>6. Clock' /\ \A s \in Sessions : TimeHasPassed(s)' = TimeHasPassed(s)
    BY <1>1, ClockStays DEF IInv
  <1>7. Pending'
    BY <1>1, <1>3, <1>6, PendingStays
  <1>8. QED
    BY <1>4, <1>5, <1>6, <1>7 DEF IInv
-----------------------------------------------------------------------------
(* run(), an action at a time. *)

(* The steps that neither read nor remove what is pending. *)
LEMMA RunStep ==
  ASSUME IInv, NEW s \in Sessions,
         \/ StartRecorder(s) \/ CheckRecorder(s) \/ StartFails(s) \/ StartUtt(s)
         \/ LeaveLoop(s) \/ EnterLoop(s) \/ StopRecorder(s) \/ EndUtt(s)
  PROVE  IInv'
  <1>1. /\ UNCHANGED <<client, clock, alive>>
        /\ TypeOK /\ session \in Nat /\ queue \in Seq(Events)
    BY DEF StartRecorder, CheckRecorder, StartFails, StartUtt, LeaveLoop, EnterLoop,
           StopRecorder, EndUtt, Goes, IInv, TypeOK
  <1>2. PICK from \in Places \ {"none", "dead"}, to \in Places :
          /\ Goes(s, from, to)
          /\ recording' => to \in Recording \/ (recording /\ from \notin Recording)
          /\ uttOpen' => to \in Open \/ (uttOpen /\ from \notin Open)
          /\ from \in Speaking => to \in Speaking
    <2>1. CASE StartRecorder(s)
      BY <2>1 DEF StartRecorder, Places, Recording, Open, Speaking, decoder
    <2>2. CASE CheckRecorder(s)
      <3>1. CASE recording
        <4>1. Goes(s, "check", "utt") /\ UNCHANGED <<recording, uttOpen>>
          BY <2>2, <3>1 DEF CheckRecorder, decoder
        <4>2. QED
          BY <4>1 DEF Places, Recording, Open, Speaking
      <3>2. CASE ~recording
        <4>1. Goes(s, "check", "busy") /\ UNCHANGED <<recording, uttOpen>>
          BY <2>2, <3>2 DEF CheckRecorder, decoder
        <4>2. QED
          BY <3>2, <4>1 DEF Places, Recording, Open, Speaking
      <3>3. QED
        BY <3>1, <3>2
    <2>3. CASE StartFails(s)
      BY <2>3 DEF StartFails, Places, Recording, Open, Speaking, decoder
    <2>4. CASE StartUtt(s)
      BY <2>4 DEF StartUtt, Places, Recording, Open, Speaking
    <2>5. CASE LeaveLoop(s)
      BY <2>5 DEF LeaveLoop, Places, Recording, Open, Speaking
    <2>6. CASE EnterLoop(s)
      BY <2>6 DEF EnterLoop, Places, Recording, Open, Speaking
    <2>7. CASE StopRecorder(s)
      BY <2>7 DEF StopRecorder, Places, Recording, Open, Speaking
    <2>8. CASE EndUtt(s)
      BY <2>8 DEF EndUtt, Places, Recording, Open, Speaking
    <2>9. QED
      BY <2>1, <2>2, <2>3, <2>4, <2>5, <2>6, <2>7, <2>8
  <1>3. /\ Phases' /\ thread' \in [Sessions -> Places] /\ thread[s] = from
        /\ \A o \in Sessions : thread'[o] = IF o = s THEN to ELSE thread[o]
    BY <1>2, PhasesStay DEF Goes
  <1>4. Clock' /\ \A o \in Sessions : TimeHasPassed(o)' = TimeHasPassed(o)
    BY <1>1, ClockStays DEF IInv
  <1>5. Phases /\ s <= session
    BY <1>1, <1>2, <1>3 DEF IInv, Phases, Live, TypeOK, Sessions
  <1>6. /\ queue' \in Seq(Events)
        /\ \A i \in 1 .. Len(queue') :
              \/ \E j \in 1 .. Len(queue) : queue'[i] = queue[j]
              \/ InPlace(queue[i])'
    <2>1. CASE UNCHANGED queue
      BY <1>1, <2>1
    <2>2. CASE StartFails(s)
      <3> DEFINE error == Event(s, "error")
      <3>1. queue' = Append(queue, error) /\ session' = session
        BY <1>1, <2>2 DEF StartFails, client
      <3>2. error \in Events /\ error.session = s /\ error.kind = "error"
        BY <1>1 DEF TypeOK, Event, Events, Kinds
      <3> HIDE DEF error
      <3>3. /\ queue' \in Seq(Events)
            /\ \A i \in 1 .. Len(queue') :
                  \/ \E j \in 1 .. Len(queue) : queue'[i] = queue[j]
                  \/ queue'[i] = error
        BY <1>1, <3>1, <3>2
      <3>4. \A i \in 1 .. Len(queue') : queue'[i] = error => InPlace(queue[i])'
        BY <1>5, <3>1, <3>2 DEF InPlace, OfSpeech
      <3>5. QED
        BY <3>3, <3>4
    <2>3. QED
      BY <2>1, <2>2 DEF StartRecorder, CheckRecorder, StartUtt, LeaveLoop, EnterLoop,
                        StopRecorder, EndUtt
  <1>7. TypeOK'
    <2>1. /\ UNCHANGED <<main, mainInterrupted, hasThread, session, abandoned, alive>>
      BY <1>1 DEF client
    <2>2. interrupted' \in [Sessions -> BOOLEAN]
      BY DEF IInv, TypeOK, StartRecorder, CheckRecorder, StartFails, StartUtt, LeaveLoop,
             EnterLoop, StopRecorder, EndUtt
    <2>3. inSpeech' \in [Sessions -> BOOLEAN]
      BY DEF IInv, TypeOK, StartRecorder, CheckRecorder, StartFails, StartUtt, LeaveLoop,
             EnterLoop, StopRecorder, EndUtt
    <2>4. uttOpen' \in BOOLEAN /\ recording' \in BOOLEAN
      BY DEF IInv, TypeOK, StartRecorder, CheckRecorder, StartFails, StartUtt, LeaveLoop,
             EnterLoop, StopRecorder, EndUtt, decoder
    <2>5. utt' \in Nat
      <3>1. s \in Nat
        BY DEF Sessions
      <3>2. utt' = utt \/ utt' = s
        BY DEF StartRecorder, CheckRecorder, StartFails, StartUtt, LeaveLoop, EnterLoop,
               StopRecorder, EndUtt, decoder
      <3>3. QED
        BY <1>1, <3>1, <3>2 DEF TypeOK
    <2>6. QED
      BY <1>1, <1>3, <1>6, <2>1, <2>2, <2>3, <2>4, <2>5 DEF TypeOK
  <1>8. Pending'
    <2>1. \A o \in Sessions :
            /\ thread[o] \in Speaking => thread'[o] \in Speaking
            /\ thread[o] = "dead" => thread'[o] = "dead"
      BY <1>2, <1>3
    <2>2. session' = session
      BY <1>1 DEF client
    <2>3. QED
      BY <1>1, <1>4, <1>6, <2>1, <2>2, PendingStays
  <1>9. QED
    BY <1>3, <1>4, <1>7, <1>8 DEF IInv

(* The countdown takes a number of samples from the time that remains;     *)
(* with speech, from all of the timeout.                                   *)
LEMMA CountdownOfRead ==
  ASSUME IInv, NEW s \in Sessions, NEW speech \in BOOLEAN, NEW nread \in Int,
         CountDown(s, speech, nread), silence' \in [Sessions -> Nat],
         \A o \in Sessions \ {s} : silence'[o] = silence[o],
         timeout[s] # NoTimeout =>
            \/ silence'[s] >= Asked(s)
            \/ silence'[s] = (IF speech THEN nread ELSE silence[s] + nread)
            \/ ~speech /\ nread <= 0 /\ silence'[s] = silence[s],
         silence[s] >= Asked(s) /\ ~speech /\ timeout[s] # NoTimeout => silence'[s] >= Asked(s)
  PROVE  Clock'
  <1> DEFINE left == IF timeoutSamples[s] = NoTimeout THEN TimeFrom(s, speech)
                     ELSE TimeFrom(s, speech) - nread
  <1>1. /\ ClockTypeOK /\ \A o \in Sessions : Countdown(o)
        /\ UNCHANGED <<timeout, timeoutSamples>>
        /\ remainingSamples' = [remainingSamples EXCEPT ![s] = Int32(left)]
        /\ wrapped' = IF Int32(left) = left THEN wrapped ELSE wrapped \cup {s}
    BY DEF IInv, Clock, CountDown
  <1>2. left \in Int
    BY <1>1 DEF ClockTypeOK, TimeFrom
  <1>3. ClockTypeOK'
    <2>1. Int32(left) \in Int
      BY <1>2, Int32IsInt
    <2>2. QED
      BY <1>1, <2>1 DEF ClockTypeOK
  <1>4. \A o \in Sessions : Asked(o)' = Asked(o)
    BY <1>1 DEF Asked
  <1>5. ASSUME NEW o \in Sessions \ {s}
        PROVE  Countdown(o)'
    <2>1. /\ remainingSamples'[o] = remainingSamples[o] /\ silence'[o] = silence[o]
          /\ o \in wrapped => o \in wrapped'
      <3> HIDE DEF left
      <3>1. QED
        BY <1>1 DEF ClockTypeOK
    <2>2. Countdown(o)
      BY <1>1
    <2>3. QED
      BY <1>1, <1>4, <2>1, <2>2 DEF Countdown
  <1>6. Countdown(s)'
    <2>1. timeout'[s] = NoTimeout => timeoutSamples'[s] = NoTimeout
      BY <1>1 DEF Countdown
    <2>2. ASSUME timeout[s] # NoTimeout, timeout[s] * SampleRate < IntLimit, s \notin wrapped'
          PROVE  \/ silence'[s] >= Asked(s)
                 \/ remainingSamples'[s] + silence'[s] >= Asked(s)
      <3> DEFINE asked == Asked(s)
      <3>1. PICK a \in Nat : a = asked
        BY <1>1, <2>2, AskedIsNat
      <3>2. Int32(left) = left /\ s \notin wrapped
        BY <1>1, <2>2
      <3>3. PICK r \in Int, z \in Nat, z1 \in Nat :
              r = remainingSamples[s] /\ z = silence[s] /\ z1 = silence'[s]
        BY <1>1, <1>3 DEF ClockTypeOK
      <3>4. timeoutSamples[s] = a /\ (z >= a \/ r + z >= a)
        BY <1>1, <2>2, <3>1, <3>2, <3>3 DEF Countdown
      <3>5. left = (IF speech THEN a ELSE r) - nread
        BY <3>1, <3>3, <3>4 DEF TimeFrom, NoTimeout
      <3>6. remainingSamples'[s] = (IF speech THEN a ELSE r) - nread
        <4> HIDE DEF left
        <4>1. remainingSamples'[s] = Int32(left)
          BY <1>1 DEF ClockTypeOK
        <4>2. QED
          BY <3>2, <3>5, <4>1
      <3>7. /\ \/ z1 >= a
               \/ z1 = (IF speech THEN nread ELSE z + nread)
               \/ ~speech /\ nread <= 0 /\ z1 = z
            /\ z >= a /\ ~speech => z1 >= a
        BY <2>2, <3>1, <3>3
      <3>8. z1 >= a \/ ((IF speech THEN a ELSE r) - nread) + z1 >= a
        BY <3>4, <3>7
      <3>9. QED
        BY <3>1, <3>3, <3>6, <3>8
    <2>3. ASSUME timeout[s] # NoTimeout, timeout[s] * SampleRate < IntLimit
          PROVE  timeoutSamples'[s] = Asked(s)
      BY <1>1, <2>3 DEF Countdown
    <2>4. QED
      BY <1>1, <1>4, <2>1, <2>2, <2>3 DEF Countdown
  <1>7. QED
    BY <1>3, <1>5, <1>6 DEF Clock

(* What has passed for a thread that is over is not touched by a read of another. *)
LEMMA PassedStays ==
  ASSUME IInv, NEW s \in Sessions, NEW speech \in BOOLEAN, NEW nread \in Int,
         CountDown(s, speech, nread),
         \A o \in Sessions \ {s} : silence'[o] = silence[o]
  PROVE  \A o \in Sessions \ {s} : TimeHasPassed(o) => TimeHasPassed(o)'
  <1>1. timeout' = timeout /\ wrapped \subseteq wrapped'
    BY DEF CountDown
  <1>2. QED
    BY <1>1 DEF TimeHasPassed, Asked

LEMMA ReadDataStep ==
  ASSUME IInv, NEW s \in Sessions, ReadData(s)
  PROVE  IInv'
  <1>1. /\ Goes(s, "read", "loop") /\ UNCHANGED <<interrupted, utt, uttOpen, recording>>
        /\ TypeOK /\ ClockTypeOK /\ queue \in Seq(Events) /\ session \in Nat
        /\ UNCHANGED <<main, mainInterrupted, hasThread, session, abandoned, alive>>
    BY DEF ReadData, decoder, Goes, client, IInv, TypeOK, Clock
  <1>2. PICK nread \in 1 .. BufferSize, speech \in BOOLEAN :
        /\ inSpeech' = [inSpeech EXCEPT ![s] = speech]
        /\ queue' = queue \o (IF speech # inSpeech[s]
                              THEN <<Event(s, IF speech THEN "begin" ELSE "end")>> ELSE <<>>)
                          \o <<Event(s, "partial")>>
        /\ CountDown(s, speech, nread)
        /\ silence' = [silence EXCEPT ![s] =
                          IF timeout[s] = NoTimeout THEN 0
                          ELSE UpTo(Asked(s), IF speech THEN nread ELSE @ + nread)]
    BY DEF ReadData
  <1>3. nread \in Nat
    BY RecognizerAssumption
  <1>4. /\ Phases' /\ thread' \in [Sessions -> Places] /\ thread[s] = "read"
        /\ \A o \in Sessions : thread'[o] = IF o = s THEN "loop" ELSE thread[o]
    <2>1. "read" \in Places \ {"none", "dead"} /\ "loop" \in Places /\ "loop" \in Recording
          /\ "loop" \in Open
      BY DEF Places, Recording, Open
    <2>2. QED
      BY <1>1, <2>1, PhasesStay DEF Goes
  <1>5. /\ silence' \in [Sessions -> Nat]
        /\ \A o \in Sessions \ {s} : silence'[o] = silence[o]
        /\ timeout[s] # NoTimeout =>
            \/ silence'[s] >= Asked(s)
            \/ silence'[s] = (IF speech THEN nread ELSE silence[s] + nread)
        /\ silence[s] >= Asked(s) /\ ~speech /\ timeout[s] # NoTimeout => silence'[s] >= Asked(s)
    <2> DEFINE now == IF timeout[s] = NoTimeout THEN 0
                      ELSE UpTo(Asked(s), IF speech THEN nread ELSE silence[s] + nread)
    <2>1. silence' = [silence EXCEPT ![s] = now] /\ silence \in [Sessions -> Nat]
      BY <1>1, <1>2 DEF ClockTypeOK
    <2>2. CASE timeout[s] = NoTimeout
      <3>1. now = 0
        BY <2>2
      <3> HIDE DEF now
      <3>2. QED
        BY <2>1, <2>2, <3>1
    <2>3. CASE timeout[s] # NoTimeout
      <3>1. PICK a \in Nat : a = Asked(s)
        BY <1>1, <2>3, AskedIsNat
      <3>2. PICK z \in Nat : z = silence[s]
        BY <2>1
      <3>3. now = UpTo(a, IF speech THEN nread ELSE z + nread)
        BY <2>3, <3>1, <3>2
      <3> HIDE DEF now
      <3>4. /\ now \in Nat
            /\ now >= a \/ now = (IF speech THEN nread ELSE z + nread)
            /\ z >= a /\ ~speech => now >= a
        BY <1>3, <3>3 DEF UpTo
      <3>5. silence'[s] = now
        BY <2>1
      <3>6. QED
        BY <2>1, <3>1, <3>2, <3>4, <3>5
    <2>4. QED
      BY <2>2, <2>3
  <1>6. Clock'
    BY <1>2, <1>3, <1>5, CountdownOfRead
  <1>7. \A o \in Sessions \ {s} : TimeHasPassed(o) => TimeHasPassed(o)'
    BY <1>2, <1>3, <1>5, PassedStays
  <1>8. s <= session
    BY <1>1, <1>4 DEF IInv, Phases, Live, TypeOK, Sessions
  <1>9. /\ queue' \in Seq(Events)
        /\ \A i \in 1 .. Len(queue') :
              \/ i \in 1 .. Len(queue) /\ queue'[i] = queue[i]
              \/ queue'[i].kind \in OfSpeech /\ queue'[i].session = s
    <2> DEFINE change == Event(s, IF speech THEN "begin" ELSE "end")
               partial == Event(s, "partial")
    <2>1. /\ change \in Events /\ change.kind \in OfSpeech /\ change.session = s
          /\ partial \in Events /\ partial.kind \in OfSpeech /\ partial.session = s
      BY <1>1 DEF TypeOK, Event, Events, Kinds, OfSpeech
    <2>2. queue' = (queue \o (IF speech # inSpeech[s] THEN <<change>> ELSE <<>>)) \o <<partial>>
      BY <1>2
    <2> HIDE DEF change, partial
    <2>3. CASE speech # inSpeech[s]
      <3>1. queue' = (queue \o <<change>>) \o <<partial>>
        BY <2>2, <2>3
      <3>2. QED
        BY <1>1, <2>1, <3>1
    <2>4. CASE ~(speech # inSpeech[s])
      <3>1. queue' = (queue \o <<>>) \o <<partial>>
        BY <2>2, <2>4
      <3>2. QED
        BY <1>1, <2>1, <3>1
    <2>5. QED
      BY <2>3, <2>4
  <1>10. TypeOK'
    <2>1. inSpeech' \in [Sessions -> BOOLEAN]
      BY <1>1, <1>2 DEF TypeOK
    <2>2. QED
      BY <1>1, <1>4, <1>9, <2>1 DEF TypeOK
  <1>11. Pending'
    <2>1. "loop" \in Speaking /\ "read" # "dead"
      BY DEF Speaking, Open
    <2>2. \A o \in Sessions :
            /\ thread[o] \in Speaking => thread'[o] \in Speaking
            /\ thread[o] = "dead" => thread'[o] = "dead" /\ o # s
      BY <1>4, <2>1
    <2>3. \A i \in 1 .. Len(queue') :
            queue'[i].kind \in OfSpeech /\ queue'[i].session = s => InPlace(queue[i])'
      BY <1>1, <1>4, <1>8, <2>1 DEF InPlace, OfSpeech
    <2>4. \A i \in 1 .. Len(queue') :
            \/ \E j \in 1 .. Len(queue) : queue'[i] = queue[j]
            \/ InPlace(queue[i])'
      BY <1>9, <2>3
    <2>5. QED
      BY <1>1, <1>7, <1>9, <2>2, <2>4, PendingStays
  <1>12. QED
    BY <1>4, <1>6, <1>10, <1>11 DEF IInv

LEMMA ReadNothingStep ==
  ASSUME IInv, NEW s \in Sessions, ReadNothing(s)
  PROVE  IInv'
  <1>1. /\ Goes(s, "read", "loop")
        /\ UNCHANGED <<silence, interrupted, inSpeech, utt, uttOpen, recording, queue>>
        /\ TypeOK /\ ClockTypeOK /\ session \in Nat /\ queue \in Seq(Events)
        /\ UNCHANGED <<main, mainInterrupted, hasThread, session, abandoned, alive>>
    BY DEF ReadNothing, decoder, Goes, client, IInv, TypeOK, Clock
  <1>2. PICK nread \in ReadErrors \cup {0} : CountDown(s, FALSE, nread)
    BY DEF ReadNothing
  <1>3. nread \in Int /\ nread <= 0
    BY RecognizerAssumption
  <1>4. /\ Phases' /\ thread' \in [Sessions -> Places] /\ thread[s] = "read"
        /\ \A o \in Sessions : thread'[o] = IF o = s THEN "loop" ELSE thread[o]
    <2>1. "read" \in Places \ {"none", "dead"} /\ "loop" \in Places /\ "loop" \in Recording
          /\ "loop" \in Open
      BY DEF Places, Recording, Open
    <2>2. QED
      BY <1>1, <2>1, PhasesStay DEF Goes
  <1>5. silence' = silence /\ silence' \in [Sessions -> Nat]
    BY <1>1 DEF ClockTypeOK
  <1>6. Clock'
    BY <1>2, <1>3, <1>5, CountdownOfRead
  <1>7. \A o \in Sessions \ {s} : TimeHasPassed(o) => TimeHasPassed(o)'
    BY <1>2, <1>3, <1>5, PassedStays
  <1>8. TypeOK'
    BY <1>1, <1>4 DEF TypeOK
  <1>9. Pending'
    <2>1. "loop" \in Speaking /\ "read" # "dead"
      BY DEF Speaking, Open
    <2>2. \A o \in Sessions :
            /\ thread[o] \in Speaking => thread'[o] \in Speaking
            /\ thread[o] = "dead" => thread'[o] = "dead" /\ o # s
      BY <1>4, <2>1
    <2>3. QED
      BY <1>1, <1>7, <2>2, PendingStays
  <1>10. QED
    BY <1>4, <1>6, <1>8, <1>9 DEF IInv

LEMMA ClearPendingStep ==
  ASSUME IInv, NEW s \in Sessions, ClearPending(s)
  PROVE  IInv'
  <1>1. /\ Goes(s, "clear", "signal") /\ queue' = <<>> /\ TypeOK
        /\ UNCHANGED <<clock, interrupted, inSpeech, utt, uttOpen, recording>>
        /\ UNCHANGED <<main, mainInterrupted, hasThread, session, abandoned, alive>>
    BY DEF ClearPending, Removed, decoder, Goes, client, IInv
  <1>2. Phases' /\ thread' \in [Sessions -> Places]
    <2>1. "clear" \in Places \ {"none", "dead"} /\ "signal" \in Places
          /\ "clear" \notin Recording /\ "clear" \notin Open
      BY DEF Places, Recording, Open, Speaking
    <2>2. QED
      BY <1>1, <2>1, PhasesStay
  <1>3. TypeOK'
    <2>1. queue' \in Seq(Events)
      BY <1>1
    <2>2. QED
      BY <1>1, <1>2, <2>1 DEF TypeOK
  <1>4. Pending'
    BY <1>1 DEF Pending
  <1>5. QED
    BY <1>1, <1>2, <1>3, <1>4, ClockStays DEF IInv

(* No time left, and nothing did overflow: it has gone by in silence. *)
LEMMA NoTimeLeft ==
  ASSUME IInv, NEW s \in Sessions, ~TimeLeft(s)
  PROVE  TimeHasPassed(s)
  <1>1. /\ timeout[s] # NoTimeout /\ ~(remainingSamples[s] > 0)
        /\ remainingSamples[s] \in Int /\ silence[s] \in Nat
        /\ ClockTypeOK /\ Countdown(s)
    BY DEF TimeLeft, IInv, Clock, ClockTypeOK, Countdown
  <1>2. PICK a \in Nat, n \in Nat : a = Asked(s) /\ n = timeout[s] * SampleRate
    BY <1>1, AskedIsNat
  <1>3. CASE n < IntLimit
    <2>1. s \in wrapped \/ silence[s] >= a \/ remainingSamples[s] + silence[s] >= a
      BY <1>1, <1>2, <1>3 DEF Countdown
    <2>2. s \in wrapped \/ silence[s] >= a
      BY <1>1, <2>1
    <2>3. QED
      BY <1>2, <2>2 DEF TimeHasPassed
  <1>4. CASE ~(n < IntLimit)
    <2>1. n >= IntLimit
      BY <1>4, RecognizerAssumption
    <2>2. QED
      BY <1>2, <2>1 DEF TimeHasPassed
  <1>5. QED
    BY <1>3, <1>4

LEMMA SignalTimeoutStep ==
  ASSUME IInv, NEW s \in Sessions, SignalTimeout(s)
  PROVE  IInv'
  <1>1. /\ Goes(s, "signal", "dead") /\ TypeOK /\ queue \in Seq(Events) /\ session \in Nat
        /\ UNCHANGED <<clock, interrupted, inSpeech, utt, uttOpen, recording>>
        /\ UNCHANGED <<main, mainInterrupted, hasThread, session, abandoned, alive>>
    BY DEF SignalTimeout, decoder, Goes, client, IInv, TypeOK
  <1>2. /\ Phases' /\ thread' \in [Sessions -> Places] /\ thread[s] = "signal"
        /\ \A o \in Sessions : thread'[o] = IF o = s THEN "dead" ELSE thread[o]
    <2>1. "signal" \in Places \ {"none", "dead"} /\ "dead" \in Places
          /\ "signal" \notin Recording /\ "signal" \notin Open
      BY DEF Places, Recording, Open, Speaking
    <2>2. QED
      BY <1>1, <2>1, PhasesStay DEF Goes
  <1>3. Clock' /\ \A o \in Sessions : TimeHasPassed(o)' = TimeHasPassed(o)
    BY <1>1, ClockStays DEF IInv
  <1>4. s <= session
    BY <1>1, <1>2 DEF IInv, Phases, Live, TypeOK, Sessions
  <1> DEFINE signal == Event(s, "timeout")
  <1>5. signal \in Events /\ signal.session = s /\ signal.kind = "timeout"
    BY <1>1 DEF TypeOK, Event, Events, Kinds
  <1>6. \/ queue' = queue
        \/ ~TimeLeft(s) /\ queue' = Append(queue, signal)
    BY DEF SignalTimeout
  <1> HIDE DEF signal
  <1>7. /\ queue' \in Seq(Events)
        /\ \A i \in 1 .. Len(queue') :
              \/ \E j \in 1 .. Len(queue) : queue'[i] = queue[j]
              \/ queue'[i] = signal /\ ~TimeLeft(s)
    BY <1>1, <1>5, <1>6
  <1>8. \A i \in 1 .. Len(queue') : queue'[i] = signal /\ ~TimeLeft(s) => InPlace(queue[i])'
    <2>1. ~TimeLeft(s) => TimeHasPassed(s)'
      BY <1>3, NoTimeLeft
    <2>2. QED
      BY <1>1, <1>2, <1>4, <1>5, <2>1 DEF InPlace, OfSpeech
  <1>9. TypeOK'
    BY <1>1, <1>2, <1>7 DEF TypeOK
  <1>10. Pending'
    <2>1. "signal" \notin Speaking
      BY DEF Speaking, Open
    <2>2. \A o \in Sessions :
            /\ thread[o] \in Speaking => thread'[o] \in Speaking
            /\ thread[o] = "dead" => thread'[o] = "dead"
      BY <1>2, <2>1
    <2>3. QED
      BY <1>1, <1>3, <1>7, <1>8, <2>2, PendingStays
  <1>11. QED
    BY <1>2, <1>3, <1>9, <1>10 DEF IInv
-----------------------------------------------------------------------------
LEMMA NextIInv ==
  ASSUME IInv, [Next]_vars
  PROVE  IInv'
  <1>1. CASE StartListening
    BY <1>1, StartListeningStep
  <1>2. CASE Stop \/ Cancel \/ InterruptMain
    BY <1>2, InterruptStep
  <1>3. CASE Main
    BY <1>3, MainStep
  <1>4. ASSUME NEW s \in Sessions, Recognizer(s)
        PROVE  IInv'
    BY <1>4, RunStep, ReadDataStep, ReadNothingStep, ClearPendingStep, SignalTimeoutStep
       DEF Recognizer
  <1>5. CASE (\E s \in Sessions : ReadFails(s)) \/ UNCHANGED vars
    <2>1. /\ UNCHANGED <<main, mainInterrupted, hasThread, session, abandoned, thread,
                         interrupted, clock, inSpeech, utt, uttOpen, recording, queue>>
          /\ alive' \in BOOLEAN /\ TypeOK /\ session \in Nat
      BY <1>5 DEF ReadFails, vars, client, decoder, IInv, TypeOK
    <2>2. TypeOK'
      BY <2>1 DEF TypeOK
    <2>3. Phases'
      BY <2>1 DEF IInv, Phases, Live
    <2>4. Clock' /\ \A s \in Sessions : TimeHasPassed(s)' = TimeHasPassed(s)
      BY <2>1, ClockStays DEF IInv
    <2>5. Pending'
      BY <2>1, <2>2, <2>4, PendingStays DEF TypeOK
    <2>6. QED
      BY <2>2, <2>3, <2>4, <2>5 DEF IInv
  <1>6. QED
    BY <1>1, <1>2, <1>3, <1>4, <1>5 DEF Next

LEMMA Invariance == Spec => []IInv
  <1>1. Init => IInv
    BY InitIInv
  <1>2. IInv /\ [Next]_vars => IInv'
    BY NextIInv
  <1>3. QED
    BY <1>1, <1>2, PTL DEF Spec

(* Recorder and decoder belong to one thread at a time, but for threads    *)
(* whose join was interrupted: join() returns only when run() has stopped  *)
(* the one and ended the utterance of the other, or when the main thread   *)
(* is interrupted, and then the thread left behind closes both.            *)
THEOREM ClosedWithoutThread == Spec => []QuietWithoutThread
  <1>1. ASSUME IInv PROVE QuietWithoutThread
    <2>1. \A s \in Sessions : thread[s] \in Recording \cup Open => Live(s)
      BY DEF Recording, Open, Live
    <2>2. QED
      BY <1>1, <2>1 DEF IInv, Phases, QuietWithoutThread
  <1>2. QED
    BY <1>1, Invariance, PTL

(* removeCallbacksAndMessages runs after a thread's last read and before   *)
(* it can be joined, so no client hears of a session that is over, unless  *)
(* the join of that session was interrupted.                               *)
THEOREM NoStaleEvents == Spec => []EventsOfTheSession
  <1>1. ASSUME IInv PROVE EventsOfTheSession
    <2>1. \A i \in 1 .. Len(queue) : InPlace(queue[i]) /\ queue[i] \in Events
      BY <1>1 DEF IInv, Pending, TypeOK
    <2>2. DOMAIN queue = 1 .. Len(queue)
      BY <1>1 DEF IInv, TypeOK
    <2>3. \A s \in Sessions : thread[s] \in Speaking => (hasThread /\ s = session) \/ s \in abandoned
      BY <1>1 DEF IInv, Phases, Live, Speaking, Open
    <2>4. ASSUME NEW i \in 1 .. Len(queue), queue[i].kind \in OfSpeech
          PROVE  \/ hasThread /\ queue[i].session = session
                 \/ queue[i].session \in abandoned
      <3>1. thread[queue[i].session] \in Speaking /\ queue[i].session \in Sessions
        BY <2>1, <2>4 DEF InPlace, Events
      <3>2. QED
        BY <2>3, <3>1
    <2>5. QED
      BY <2>2, <2>4 DEF OfSpeech, EventsOfTheSession
  <1>2. QED
    BY <1>1, Invariance, PTL

(* run() signals a timeout only when its count of samples has run out,     *)
(* the count starts again with every buffer that has speech, and reads     *)
(* that fail can only add to it.                                           *)
THEOREM TimeoutsAreDue == Spec => []TimeoutAfterSilence
  <1>1. ASSUME IInv PROVE TimeoutAfterSilence
    <2>1. \A i \in DOMAIN queue : InPlace(queue[i])
      BY <1>1 DEF IInv, Pending, TypeOK
    <2>2. QED
      BY <2>1 DEF InPlace, TimeHasPassed, TimeoutAfterSilence
  <1>2. QED
    BY <1>1, Invariance, PTL
===============================================================================
