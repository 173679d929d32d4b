# Verification of the CMU Sphinx decoders' moving parts

The repository is the CMU Sphinx family: a dozen projects, most of them
sequential numeric programs, tools and data.  What is modelled is where they are
hard in another way than numerically:

* `src/multisphinx`, a decoder that runs several search passes in threads of their
  own, connected by reference-counted buffers, and its garbage-collected table;
* the utterance of `src/pocketsphinx` over the front end and dynamic features of
  `src/sphinxbase`: a stream cut into calls of any length, through four buffers that
  hold back, go around or grow;
* the Android `SpeechRecognizer`, a thread with a timeout that a client starts, stops and
  cancels;
* the `Microphone` of `src/sphinx4`, a recording thread for each utterance on a line
  that it shares with its caller.

## Inventory

### MultiSphinx

All paths of this table are under `src/multisphinx/`.

| Component | State | Operations | What makes it correct |
|---|---|---|---|
| `sphinxbase/sync_array.c` | elements with a base index, a `uint8` count per element, reference count, final index | retain, free, append, wait, get, release, release_all, finalize, force_quit, reset | an element is given back only when all references released it, and then it is; a waited-for element can be got; nobody waits for ever once it is final |
| `multisphinx/featbuf.c`, consumer side of `acmod.c` | the array of frames, start and release semaphores, `canceled`, what the front end (`fe`) and the dynamic features (`fcb`) hold back | start_utt, process_raw/cep/feat, end_utt, shutdown; consumer start, wait, release, end | each search sees every frame; end_utt waits for all and returns; reset meets no reader; shutdown stops all |
| `multisphinx/arc_buffer.c` | arcs ordered by start frame, index by frame, active (committed) limits, state, event, semaphores | producer start, sweep, end, shutdown; consumer start, wait, iter, release, end | arcs are neither lost nor duplicated nor misplaced; the end of an utterance reaches the consumer and returns |
| `multisphinx/bptbl.c` | retired and active backpointers, frame index, right-context scores, `oldest_bp` | push_frame (with collection), enter, update, commit, finalize, reset | collection keeps what can be reached, renumbers it consistently, and its bound on start frames is one |
| `multisphinx/fwdtree_search.c` | a step within a frame | decode loop over the feature buffer, table and arc buffer | ends the utterance on all buffers whatever happens |
| `multisphinx/fwdflat_search.c` | frame index, window | decode loop between feature buffer and arc buffer | sees the whole utterance with its window of arcs, no deadlock |
| `multisphinx/latgen_search.c` | frame index, lattice | decode loop over the arc buffer | takes every arc once, ends with all of them |
| `multisphinx/search.c`, `search_factory.c`, `programs/multisphinx_batch.c` | threads, links, reference counts | run, link, wait, free; the utterance loop | attach before and detach after |
| `sphinxbase/sbthread.c`, `garray.c` | mutexes, events, semaphores; base and length | | used by all of the above |

How they interact: the batch program is the producer of `featbuf`; `fwdtree` and
`fwdflat` are consumers, each in a thread; `fwdtree` enters word exits into its
`bptbl`, pushes a frame after frame, and sweeps retired entries into the
`arc_buffer`, which `fwdflat` (or `latgen`) consumes.  `fwdtree` ends an
utterance on the feature buffer only after the consumer of its arcs has ended
it, and the producer returns from `featbuf_producer_end_utt` only after all
searches have.

Hard behaviours: start and release semaphores that count threads without naming
them; a release that counts a range whoever gives it; two buffers between the same
two threads; end of utterance that is one flag read without a lock; failure of a
search in the middle; events that reset themselves; entries renumbered while
others hold their numbers.

### pocketsphinx, sphinxbase, sphinx4

| Component | State | Operations | What makes it correct |
|---|---|---|---|
| sphinxbase `fe_interface.c`, `fe_prespch_buf.c`, `fe_noise.c` | overflow samples, last frame, prespeech buffer, voice activity counters | start_utt, process_frames, end_utt | the cepstra are the frames of the signal that are speech, however it is cut into calls |
| sphinxbase `feat.c` | circular buffer of cepstra, write and read position | s2mfc2feat_live | a feature is computed from the window around its frame, padded at both ends |
| pocketsphinx `acmod.c` | circular cepstrum buffer, feature buffer (goes around or grows), output frame, scored frame, state | start_utt, process_raw, process_cep, score, advance, rewind, end_utt | every frame once and in order; a score is that of the frame asked for |
| pocketsphinx `pocketsphinx.c`, `ngram_search.c` | where the searches are | start_utt, process_raw/cep, end_utt with a lookahead and a second pass | the main search scores all frames, though behind; the second pass scores the same |
| `SpeechRecognizer.java` of pocketsphinx-android | recognizer thread, its interrupt flag and the main thread's, the time left, the main thread's queue | startListening, stop, cancel, run | listeners hear only of the session that is on; one thread at a time on recorder and decoder; a timeout means silence; stop and cancel return, also when their join is interrupted |
| `Microphone.java` of sphinx4 | line and stream, recording thread, its flags, the caller's interrupt flag, the queue of data | startRecording, stopRecording, run, getData | utterances come whole and in order; no thread finds its line gone; start and stop return |

`ps_process_raw` loops over `acmod_process_raw`, which loops over
`fe_process_frames` and `acmod_process_mfcbuf`, which calls
`feat_s2mfc2feat_live`; between two rounds `ps_search_forward` uses the features
up.  `SpeechRecognizer` drives that decoder from its own thread.

### Not modelled

* In MultiSphinx: `ms_lattice`, `ngram_trie`, `vocab_map`, `dict`, `hmm`, senone
  scoring and the rest of its library are sequential and numeric or live on large
  models; `bptbl_release`, which no caller enables; the backtrace; the log files; in Bptbl a
  search without a single active HMM, for which `fwdtree` pushes `bptbl_end_idx` for its
  oldest history: `Histories` are those of the entries in the table.
* In pocketsphinx: the searches themselves (they are the frames they score here),
  lattices, dictionary, `acmod_process_full_raw` and `acmod_process_feat`; in
  sphinxbase the signal processing, normalization and all containers, models and files.
* In `SpeechRecognizer` the configuration of searches and the registration of
  listeners; in `Microphone` `clear()`, the kept utterance and the conversion of samples.
* The rest of `sphinx4` is a sequential search with numeric parts; its threaded
  scorer is a parallel map over independent states.
* `sphinx2`, `sphinx3`, `sphinxtrain`, `cmuclmtk`, `cmudict`, `htk2s3conv` and `logios`
  are offline decoders, training tools, converters or data: sequential, and right or
  wrong by their numbers.

The share of the repository's lines that is modelled is small for that reason: most
of them are tables, generated code and numeric programs.

## Modules

```
SyncArray ──┬── SyncArrayClients ── Multicast (abstract, refined)
            └── FeatBuf ─────────────┐
TableContract ── ArcBuffer ──┬── Pipeline (refines FeatBuf)
      ▲ kept by              └── ArcLattice
    Bptbl

FrontEnd ──┐
           ├── PsAcmod ── PsDecoder        SpeechRecognizer        Microphone
LiveFeat ──┘
```

* **SyncArray** is `sync_array.c`, one operator per function (each holds the
  mutex for its whole body, so each is one step).  An element is its index; the
  counts wrap at `MaxRefcount`, 255 in the code.  `sync_array_wait` polls, so it is
  a pair of conditions, `WaitSucceeds` and `WaitFails`, in the order of the code.
* **SyncArrayClients** adds a producer and consumers that follow the calls of
  `featbuf.c` and `acmod.c`: wait, get and release are separate steps, with
  everybody else's between.  `ReleasesAll` lets a consumer end with
  `sync_array_release_all`.  Its definitions `ClientsInit`, `ClientsNext`, ... have names of
  their own, because `SyncArrayProofs` extends it beside FeatBuf.
* **Multicast** is the abstract channel: members acknowledge elements, and an
  element may be forgotten when all present members did.  No counts.
* **FeatBuf** is `featbuf.c` and the search threads.  `featbuf_producer_start_utt`
  is two steps (reset; flag and tokens), `featbuf_producer_end_utt` is drain,
  appends, finalize (with the number of awaited searches read before it), a step
  per `sbsem_down`, and the return.  `featbuf_consumer_end_utt` is three steps,
  because `sync_array_next_idx`, `sync_array_release` and `sbsem_up` are three
  critical sections.  `mode` tells audio, live cepstra and whole utterances apart,
  since they leave different frames behind.
* **TableContract** is what an arc buffer sees of its producer's table: the start
  frames of retired entries, in order, and `bptbl_active_sf`.
* **ArcBuffer** is `arc_buffer.c` with the arcs as indices of retired entries:
  sweep = extend, insert, commit, with the counting of positions as a
  definition of the order it produces; `next_idx` as the first entry to look at
  again; the auto-reset event with a spurious return, because `sbevent_wait` does
  not loop.
* **ArcLattice** puts a search on one side, taking any step the table contract
  allows, and the loop of `latgen_search_decode` on the other.
* **Pipeline** takes the searches of FeatBuf and joins each step with what the
  search does to the arc buffer there: `fwdtree_search_one_frame` and `_finish`,
  and the two nested loops of `fwdflat_search_decode` with its test, choice
  between waiting and polling, window and release.
* **Bptbl** is `bptbl.c`: the mark pass, retirement with the compaction of
  right-context scores, the remapping, finalization.  Words and scores are
  dropped; a right-context score is the entry it belongs to, so a wrong
  move shows.  `id` and `prev` are history: the entry's identity and that
  of the entry it was made to follow.
* **FrontEnd** is `fe_process_frames` and its neighbours as operators on a record of
  what `fe_t` keeps.  A cepstrum is the sequence of the samples it is made of, so a
  frame from the wrong samples shows; which frames sound like speech is an input.
  `Speech` says by itself which frames should come out.
* **LiveFeat** is `feat_s2mfc2feat_live` likewise: a feature is the sequence of the
  cepstra in its window, taken from the circular buffer that the code keeps.
* **PsAcmod** is pocketsphinx's `acmod.c` over the two: the cepstrum buffer in parts,
  the feature buffer that goes around or is doubled, scoring of a frame behind the output
  with its reuse of the last scores, rewinding.
* **PsDecoder** is an utterance of `pocketsphinx.c`: the caller chooses how to cut it,
  `ps_search_forward` is a step per frame, then the lookahead and the second pass.
  `looped`, `searched` and `again` are histories of what each search scored.  The loops of
  these modules are functions of their rounds (`FrameRounds`, `FillRounds`,
  `DoublingRounds`, `LookaheadRounds`), as many as there can be at most, so that they can be
  reasoned about.
* **SpeechRecognizer** is the client's calls, the looper and `run()`, with a thread for each
  session.  `stop` and `cancel` are two steps, the interrupt and the end of `join`, which is
  the end of the thread or an interrupt of the main thread itself (`InterruptMain`): the
  exception is caught, `recognizerThread` cleared and the call goes on, so the thread is
  `abandoned` and the next session runs beside it.  A read returns samples, nothing or an
  error, or is -1 and kills the application (`alive`).  The decoder and the recorder, which
  all threads share, are what they are asked for, durations small integers of a small int;
  `wrapped` is history: the sessions whose time left went beyond that int.
* **Microphone** is the caller, one thread per recording, the consumer and the line.
  Every use of the shared field `audioLine` is a step of its own; using it when it is null
  ends the thread that does.  An interrupt ends the caller's wait for a thread to start or
  to be done as if that had come (`WaitEnds`); `hasty` is history: the recordings whose line
  was stopped before it was started, as may happen then.  `Patient` is a caller that starts again when its
  consumer has the end of the utterance, as `AudioTool.java` does (lines 217-228).
* **...Proofs** hold the theorems, see below.
* **MC...** give constants their values.  Definitions under a comment
  `Mutant:` are wrong versions of the definition after them: each property of a
  passing run is violated with one of them in its place.

## Runs

| Run | Instance | Shows |
|---|---|---|
| `sync_array` | 3 consumers, 2 references, 3 elements | types and counts below the references, so that none wraps; no early drop; wait then get; no leak; implements Multicast; a final array lets everybody go |
| `featbuf` | 2 independent searches, 2 utterances of up to 2 frames (3 with the drained one), window 1 | a search that does not give up reads all; nothing lost in the front end; quiet between utterances; end returns |
| `arc_lattice` | 2 utterances of up to 4 frames, 3 entries | arcs at the right place, exactly once, taken in order; end returns when a word ended in the last frame |
| `arc_lattice_eou_race` | 1 utterance | *violation*: latgen ends without the last arcs |
| `pipeline` | both passes, 2 utterances of up to 4 frames (5), 2 arcs, window of 2 start frames | no poll taken for the end; window kept; releases within the index; no deadlock between the passes; shutdown |
| `pipeline_failing` | the same with failing passes, 1 utterance of up to 3 frames | the producer still waits for both |
| `bptbl` | 6 frames, 4 entries, right contexts of 0 or 2 scores | paths, scores and the start-frame bound survive; exactly the coaccessible entries retire; the table contract is kept |
| `ps_decoder` | 2 utterances of up to 13 samples (6 frames and a rest), in calls of 1, 4 or 13, 4 patterns of speech, with and without lookahead, second pass and compallsen | what is scored are the windows of the speech in the signal, each once and in order; both passes agree |
| `ps_decoder_first_frames` | the same | *violation*: the first frames of an utterance whose first call made none |
| `ps_decoder_long_call` | the same, with up to 6 cepstra in a call | *violation*: a first call that is too long for the feature buffer begins the utterance twice |
| `speech_recognizer` | 2 sessions, timeouts of none and of 3 samples, reads of 0 to 2, the main thread interrupted at any time | only events of the session that is on or was abandoned; one thread at a time but for the abandoned, and the last closes recorder and utterance; a timeout means silence; stop and cancel return |
| `microphone` | 2 recordings of a patient caller, 2 chunks each, line closed in between or not, failing and stopping by itself, the caller interrupted at any time | whole utterances; the line is there; start and stop return; the end is taken |

The bounds are small, and large enough for the cases to meet: three consumers for two
references make one join after another has freed; three elements let two
consumers be two apart and hold a middle one.  Two searches can take each other's
tokens and two utterances let a slow one of the first meet the second's.  Four
frames with a window of two start frames are the least in which the window
moves off frame 0; with a window of one start frame the wrong versions of the
window operators go unnoticed.  A collection needs the oldest history to have
moved on by two frames, so six frames let a table be collected twice
before it is finalized.

In `ps_decoder` a frame has 3 samples and a shift 2, so that a sample is in two frames and
calls of one sample spread a frame over three of them.  Speech is held back for 4 frames
and the cepstrum buffer has 3 (`Win` of 1 on both sides; the code's defaults are 20 and 7),
so held-back frames come out over several calls and may still be held back when the
utterance ends; speech begins at once, later, with the last whole frame and after a voiced
frame that was none, and it stops before the rest or goes on in it.  The circular buffer of features has 7 places for 6 frames and what an
utterance left before, so it goes around in the second; the growing one starts at 5 and must
be doubled.  A chunk of cepstra may be longer (4) than the cepstrum buffer, and is as long as the first
call of an utterance may be (`ShortCalls`).  In
`speech_recognizer` a buffer has up to 2 samples, so that a timeout of 3 takes two
reads and is not a multiple of them.  Two sessions suffice for a thread
that outlives its join to run beside the next, to post after it was stopped and to remove
its events.  Without `StopAndCancelReturn`, whose check takes the most time, it was also checked
with `MoreTimeouts` and `SomeErrors`, of which a timeout and some sums of failing reads
overflow an int that ends at 8.  Two recordings let the line of the first be gone, kept, left running or replaced
for the second; three of one chunk were checked as well.

In every instance the wrong version of a definition that goes with a property is
found.  `FeatBuf`, `ArcLattice` and `Bptbl` also state a `TypeOK`, which TLC confirms on
the same instances; their runs are left to the properties that say more.

Deadlock is checked in `sync_array`, `featbuf`, `pipeline` and `bptbl`.  In the others
the system really can stop.  In `arc_lattice` and `pipeline_failing` the buffer is not
marked final when the last frame has no word exit, and the two threads wait for each
other; `ps_decoder`, `speech_recognizer` and `microphone` stop when the
bounded number of utterances is through, or a thread has died of an exception.

### Fairness

Threads run: each search's loop is weakly fair, as are the steps of
`featbuf_producer_end_utt` and `arc_buffer_producer_end_utt` once called, and the
signal of a shutdown once its flag is set.  Nothing obliges a client to call
them, a search to fail, a consumer to join, or `sbevent_wait` to return
spuriously.  In SpeechRecognizer the looper delivers, a `join` returns
once the thread has ended, and each recognizer thread runs, so that reads of the recorder return;
no client has to stop, no read has to fail, and nobody has to interrupt.  In Microphone the caller goes on
in a call it is in, recording threads run, the consumer takes what there is, and a
running line captures until its bound: without that a blocking read of a quiet
line would last for ever.  PsDecoder is sequential and has only safety properties.  Semaphores need no strong fairness here: the tokens suffice for all who
ask, and no step takes one away from a search for good.

### Disagreements with comments, docs and assertions

Three runs end in a violation, each with one property that quotes the line:

* `arc_lattice_eou_race`: `latgen_search_decode` tests for the end after it
  looked for arcs, unlocked, and may miss those committed in between.
* `ps_decoder_first_frames`: `acmod_process_cep` leaves `ACMOD_STARTED` after a call
  that made no frames, so the first frame is not taken for the first by
  `feat_s2mfc2feat_live` and its feature comes from what the buffer held before.
* `ps_decoder_long_call`: `acmod_process_cep` clamps the cepstra it takes to the room in the
  feature buffer, but decides by the number before that whether the features go around.  The
  first call of an utterance is then computed in two parts that both begin the
  utterance: the window of the first part is lost and a frame from the middle is repeated.
  `test_acmod.c` gives a whole utterance in such a call and wants the same results.
  This came out of the proof: with calls of any length the invariant is not kept, and the
  bound it needs, `3 * Win + 1`, is where TLC finds the first wrong score.

The following are stated in the modules and can be seen by checking the property
with the constants of the configuration named; the passing runs keep clear of them as said.

| Property | Instance | What happens |
|---|---|---|
| `WaitedElementIsAccessible` | `SyncArray.cfg`, `ReleasesAll = TRUE` | a consumer that released elements before and ends with `sync_array_release_all`, as `sync_array.h` recommends, counts them again, and they go under another's feet. The theorems assume consumers that release from their position, as `acmod.c` does |
| `EndUttWaitsForAll` | `FeatBuf.cfg` | `featbuf_producer_end_utt` "blocks until all consumers release the final frame"; of independent searches one may take two tokens and release twice. Linked passes cannot (`pipeline_failing`) |
| `EndUttMarksFinal` | `ArcLattice.cfg` | `arc_buffer_producer_end_utt` marks the buffer final only if it found new frames |
| `FramesAgree` | `PipelineFailing.cfg` with `NoExit = FALSE` | after a frame on which it gave up `fwdflat_search_decode` goes on with the same `frame_idx`, against the assertion `fi == frame_idx` |
| `NeverAborts` | `Bptbl.cfg` | a first collection that retires nothing runs into the assertion of `garray_expand_to` |
| `StopStopsTheThread` | `Microphone.cfg`, `Patient = FALSE`, 2 recordings of 1 chunk | `Microphone.java` says of the end of the thread "This method does not return until recording has actually stopped"; the thread sets `done` before it flushes and closes the line, and a caller that comes to the lock after that returns at once from `stopRecording` |
| `LineIsThere`, `WholeUtterances` | the same | a thread dies of a null line, or the next recording begins on the one about to be closed |
| `NothingIfActive` | `SpeechRecognizer.cfg` | `SpeechRecognizer.java:113` says that `startListening` "Does nothing if recognition is active"; but `stopRecognizerThread` clears `recognizerThread` (line 159) also when its `join` was interrupted and the thread goes on. A second thread then feeds the same decoder from the same recorder, and each removes the events of the other |
| `StartIsAwaited` | `Microphone.cfg` | `Microphone.java:426` says that `startRecording` "will return only when a START event is received"; an interrupt ends `waitForStart` too (line 592), and it returns true. `stopRecording` may then stop the line before the thread starts it, and waits for a thread that reads on |
| `ResultsAreNotRemoved` | `SpeechRecognizer.cfg` | the final result of a session that is still queued when the next one ends, or when an abandoned one does, is removed with its events; `stop()` says all listeners should receive it |
| `TimeoutIsKept` | `SpeechRecognizer.cfg`, `Timeouts <- MoreTimeouts` | a timeout of more than 134 s (at 16 kHz) overflows `timeout * sampleRate`: it ends at once, late or never |

Others were seen while modelling and have no property of their own.

MultiSphinx: live cepstra lose the last window of frames (`NoFeatureLost` excepts
them); `sync_array_free` takes back releases of others (elements may then stay for
ever, as the comment at `sync_array.c:101` admits: `NoLeak` excepts a consumer that freed
with elements left, the other properties do not); `sync_array_force_quit` does not stop waits for
elements already there; `featbuf` ignores that `sync_array_retain` may fail at 255
references; the inner loop of `fwdflat` tests the window of the frame before
(`WindowLagsByOne` says how far), and after a failure of `fwdtree` it releases past the
index (`ReleasesWhatIsThere` holds without one); `arc_buffer_iter` is called without the
lock while the array may be reallocated; `bptbl_finalize` drops the active exits when no
word ends in the last frame; `cond_timed_wait` loses the carry of nanoseconds; every
search of the factory retains the feature buffer, also one that never takes a token.

pocketsphinx: an utterance shorter than `pl_window` makes `ps_end_utt` ask for
frames with negative numbers (`TooShort` excepts it); `ps_process_cep` of more frames
than the cepstrum buffer holds overwrites features the lookahead still needs (`Gives`
keeps below); at the end of a ring buffer a call that does not fit loses the end
of the utterance it counted (`SearchesAllInOrder` allows the last frame to be missing);
when the end of an utterance brings no last frame, its last window of features is not
flushed; `fe_end_utt` loses the held-back speech that found no room, and all of it when
speech begins with the last frame (`SpeechOfTheSignal` says when and how much).

SpeechRecognizer: when the recorder does not start, a later `stop()` posts the
hypothesis of the utterance before; a read of -1 throws in the thread and nobody
catches it; other errors are negative and are subtracted from the time left like samples,
so failing reads put a timeout off, or bring it at once when they overflow
(`TimeoutAfterSilence` excepts those); after an interrupted join the result of `stop()` is what a decoder
in use has, and events of the abandoned thread come after it (`EventsOfTheSession` and
`QuietWithoutThread` except abandoned threads, and only those).

Microphone: after an `IOException` `done` is never set and
`stopRecording` waits for ever (`StartAndStopReturn` excepts it); when that wait is
interrupted the next recording begins on a line that was never flushed and reads what the last one
left (`WholeUtterances` is about recordings up to the failed one); a line stopped before it was
started runs on, and `stopRecording` with it (`StartAndStopReturn` excepts it); a line that stopped by itself
and was closed leaves `recording` true, and nothing sets it back.

## Proofs

Each run shows a property on one instance, the theorems show it for every value of
the constants, under the assumptions of the modules: finite sets of clients, natural
bounds, fewer searches than the reference limit.  Every invariant that is proved was first
found inductive by hand and checked by TLC on its run; each proof module says in `IInv`
what is kept and in comments why.

| Module | Theorem | Property of a run | Assumes |
|---|---|---|---|
| `SyncArrayProofs` | `TypeCorrect`, `NothingDroppedEarly`, `WaitThenGet`, `NothingIsLeaked` | `ClientsTypeOK` (counts stay below the references), `NoEarlyDrop`, `WaitedElementIsAccessible`, `NoLeak` | `~ReleasesAll` |
| | `Implementation` | `ImplementsMulticast` | `~ReleasesAll` |
| | `QuietReset`, `WholeUtteranceSeen`, `EveryFrameComesOut` | `QuietBetweenUtterances`, `SeesWholeUtterance`, `NoFeatureLost` | |
| `ArcLatticeProofs` | `ArcsAreCut`, `NoArcLost`, `OneAfterTheOther` | `FramesCutTheArcs`, `SweptExactlyOnce`, `TakenInOrder` | |
| `PipelineProofs` | `PollsInTime`, `BothReadEverything`, `WindowIsSwept` | `PollFindsTheFrame`, `SeesWholeUtterance`, `WindowLagsByOne` | `~FlatMayFail` |
| | `WindowStaysHeld`, `ReleasesInRange` | `WindowIsHeld`, `ReleasesWhatIsThere` | `~FlatMayFail`, `~NoExit` |
| | `PassesAreSearches` | (the passes implement FeatBuf) | `~FlatMayFail` |
| `SpeechRecognizerProofs` | `ClosedWithoutThread`, `NoStaleEvents`, `TimeoutsAreDue` | `QuietWithoutThread`, `EventsOfTheSession`, `TimeoutAfterSilence` | |
| `MicrophoneProofs` | `UtterancesAreWhole`, `NobodyTakesTheLine` | `WholeUtterances`, `LineIsThere` | `Patient` |
| `BptblProofs` | `PredecessorsStay`, `ScoresStay`, `ActiveSfBounds` | `PredecessorsKept`, `RcIntact`, `ActiveSfIsABound` | |
| | `CoaccessibleRetired`, `ContractKept` | `RetiresTheCoaccessible`, `KeepsTableContract` | |
| `PsDecoderProofs` | `DecoderInvariant`, `DecoderTypes`, `DecoderScoresTheFrame` | (the inductive invariant), `TypeOK`, `ScoresTheFrame` | `ShortCalls` |
| | `DecoderSearchesAllInOrder`, `DecoderSecondPassAgrees` | `SearchesAllInOrder`, `SecondPassAgrees` | `ShortCalls` |
| `PsSpeechProofs` | `DecoderSpeechOfTheSignal` | `SpeechOfTheSignal` | `ShortCalls` |

What the operations of the shared array and of the arc buffer do, whoever calls them, are lemmas
of `SyncArrayProofs`, where they serve SyncArrayClients and FeatBuf, and of `ArcLatticeProofs`.
`PipelineProofs` uses both modules through an `INSTANCE`.  `PsSpeechProofs` goes on from
`PsDecoderProofs`.

The assumptions are real restrictions, and the code is otherwise without them only where
noted: with `ReleasesAll` a consumer counts elements twice (see the table above; `acmod.c`
does not call `sync_array_release_all`); with `FlatMayFail` a failed second pass goes on
behind its own position; with `NoExit` the first pass may end an utterance without a word in
its last frame, the table then forgets its active entries, and TLC finds the releases out of
range; an impatient caller of Microphone really loses its line and mixes its utterances; with
longer calls than `ShortCalls` allows an utterance begins twice (`ps_decoder_long_call`), but
calls with samples and whole utterances may have any length.  `BlockSizeAssumption` says that the
live buffer is longer than five windows: it has 256 places, and windows have at most 4
cepstra on a side, 9 in all.

Two things a theorem says are not absolute, because the code is not: `NoStaleEvents` and
`ClosedWithoutThread` except threads whose `join` was interrupted, by name and no others, and
`UtterancesAreWhole` ends with the first recording that an `IOException` ended.

**SyncArray.**  None of the properties is inductive.  A release raises counts and compares
them with `refcount - 1`, so to know that an element given back was released by all one
must know that a count never exceeds the number of distinct present consumers who
released the element (`CountsOfReleasers`), and to keep that a consumer must not
release what it has released before (`ReleasedBehindPosition`).  `AllReleased` turns "count
reaches the number of references" into "everybody released" by cardinality,
`ReleaseFromPosition` does the step for both kinds of release, `FreeStep` the one where a
reference goes and every positive count is lowered.  That no count wraps is no matter of
types, since the model counts modulo 256 as the code does: `CountsBelowReferences` shows that
the count of an element still held is below the number of references, because those it counts are
present and distinct consumers and the producer has a reference too; so a release, which adds one,
ends at most at that number, which fits.  A wait that succeeded stays good because
what it waits for is not yet released by the waiter (`GetFindsElement`).  `NoLeak` needs the converse,
exact counts, which hold while nobody freed early.  The refinement maps `next`, `base`,
`final # Unset`, the live consumers and their released sets; a release maps to `Ack`, whose
condition on forgetting is what `NoEarlyDrop` gives after the step (`MulticastStep`).

**FeatBuf.**  The semaphores count runs and name nobody, so the invariant counts too:
`TokensAccounted` says that in an utterance the start tokens, the searches in it and the release
tokens add up to the references of the searches, whoever holds them, hence that all are
back when `featbuf_producer_end_utt` returns (`QuietReset`).  `CountsAreFounded` is the same for
one element: releases counted, tokens not yet taken and searches still to release it stay
within the references, so no element goes before the last run has read it, even if one search
runs twice and another not at all.  `FramesRead` and `FramesAccounted` follow each search and
each cepstrum; features owed and features appended make up the frames that went in.

**ArcBuffer and ArcLattice.**  `AbIInv` holds of the buffer whoever calls it: what was scanned
starts before `active_sf`, indices cut the arcs by frame, nothing is held twice.  Its core is
the sort of `arc_buffer_commit`: the position of an arc is the number of those that precede it, a rank
function is injective by counting (`PositionsFollowOrder`) and so fills the positions
(`PositionsAreFilled`), and prefix sums are where a frame begins (`FrameStartCuts`).  ArcLattice adds
that the two semaphores pass one token (`Turns`) and that latgen has, of what was swept, exactly the
frames it has reached (`TakenWithin`).

**Pipeline.**  The passes are searches of FeatBuf except where `fwdflat` polls for a frame instead
of waiting.  `PassesAreSearches` shows each step of the one to be a step of the other, so the invariant
of FeatBuf comes with it (`INSTANCE SyncArrayProofs`).  A poll that finds nothing would
break it; that it finds its frame is that `fwdtree` sweeps a frame after it has read it (`SweepLags`)
and that `fwdflat` polls only where the window is swept (`FlatAt`).  For the window to stay
held one must know that only `fwdflat` gives arcs back and only behind its frame (`WindowInv`).

**SpeechRecognizer.**  A queued event of speech belongs to a session whose thread
has not yet come to `removeCallbacksAndMessages` (`Pending`), and a thread in `run()` is that of the
session that is on or was abandoned (`Phases`), so the event is of one of these.  Any thread
may close recorder and utterance of another, so of several abandoned ones only this is kept: while
the recorder is on or the utterance open, some thread is still before the line that closes it.
The time left and the silence of each session make up its timeout, or more when reads failed, unless
it went beyond an int (`Countdown`); the last thing a thread does is to signal it.

**Microphone.**  A patient caller starts again when its consumer has the end of the utterance; the
end comes from the thread that is about to die, so only the last thread runs (`OneAtATime`), also
when the caller no longer waited for it.
Then the shared line is its own until it closes it (`TheLine`, `CallerAndThread`), the chunk put last
tells where the thread is (`Continues`), and nothing follows an end before it is taken (`EndsAtTheEnd`).
A recording whose reading failed leaves its line open, perhaps running and with chunks in it
(`LeftOpen`).  No thread is hurt by that, so the invariant of the threads holds on; what the
consumer gets is claimed only until another recording begins on that line (`Clean`, `WhereItIs`).

**Bptbl.**  Three properties that look apart need one invariant, because a collection decides by
frames, renumbers by entries and moves scores by entries.  `FramesCut`: the first entries of the
active frames cut the active entries by frame.  `Pointers`: a retired entry points to a retired one, an
active one to a retired one or to an entry of an earlier frame.  `Scores`: those of the retired
entries end at `destS`, those of the active ones follow in order and do not overlap.
`RetiredInOrder`, `HistoriesGoOn` and `OldestFirst` relate the entries to `oldestBp` and to what the
search holds.

*Marking.*  Pointers lead to earlier frames, so what a pass sets lies before what it took; hence
the passes that `Marked` counts suffice (`Passes`, `PassKeeps`), and what survives is closed under
predecessors (`SurvivorsClosed`): no survivor loses its predecessor.  *Renumbering.*  The place of an
entry among the survivors is the number of survivors before it (`Ranks`, `OrderIsByRank`),
which is what `Permute` gives, so a renumbered pointer finds the entry it found before (`RemapTo`).
*Scores.*  The loop goes up and its destination never passes its source, so a round
overwrites only what has moved already (`ScoresMoveDown`, `RetireMovesScores`).  The
library's induction theorems are out of reach, so facts about all rounds are shown from the
least index where one fails (`LeastNumber`, `UpFrom`, `Rounds`).  `RewrittenKeeps`
does the steps that rewrite the last frame (`Enter`, `Update`, `Commit`), and
`OldestBoundsTheFrames` gives the bound on start frames from the order of the retired entries.

*From outside.*  The two action properties need `OutsideInv` besides: entries are numbered apart and
within the bound (`Numbered`), retired entries point to earlier frames (`RetiredGoBack`), and once
something is retired something stays active until the table is final (`StillActive`), so
`bptbl_finalize` cannot find an empty table and leave `bptbl_active_sf` where it is.  What the passes
mark is the least set of frames closed under predecessors (`MarkedIsLeast`), and so is the reference
(`MarksTheCoaccessible`).  A collection appends entries whose start frames lie between
`bptbl_active_sf` and the frame it goes up to (`CollectionAppends`), and `bptbl_active_sf` only moves
on (`BoundMovesOn`); `StepIsSeen` puts this together, action by action.

**PsDecoder.**  What a search scores depends on everything between it and the samples, so the
invariant follows a cepstrum through the buffers, from the inside out.

*The live buffer.*  `HoldsLast`: counted back from its write position, it holds the last cepstra of
the utterance, with the first repeated before them and the last, once it has ended, behind.  A
call that begins, goes on or ends keeps that, and what it computes are the features of the next frames,
as `BlockFeature` computes them from the whole utterance (`LiveEnds`, `Flows`).  Positions are
remainders, which no prover here reasons about with a parameter as modulus: `%` stays closed
behind `Rem` and is used through a few lemmas (`RemUnique`, `RemShift`, `RemFacing`).

*The queue of features.*  `Ring`: the slots from `feat_outidx` on hold the features of the frames from
`output_frame` on, and those of the frames before it are still there behind, as many as the buffer
holds; in a buffer that grows all of them are.  `ProcessGrows` and its counterpart for a buffer that goes
around say what `acmod_process_cep` does to it in all its cases: growing by what is expected, doubling,
clamping, computing in two parts.  That the doubling ends is a lemma about rounds (`LoopGoes`).

*The calls.*  `Feeds` says how acmod is between calls, by how the utterance is fed: at its start
nothing is in the buffers, later all cepstra went on from the circular buffer of cepstra, which is
empty between calls (`FillMfcEffect`, `MfcBufGoesOn`); an utterance that is only searched at its end keeps
every feature in a buffer that grows.  `Sized` says why there is room: a call is not made before the
features of the one before it were scored, but for the `pl_window` frames that the main search is behind.
`Flushed` counts the features at the end: all frames', or all but the window that no last frame flushed.

*The searches.*  `Searches` relates the histories to it: the main search is `pl_window` frames behind
the output until its end, the second pass at it; what each scored is of the frames in order, each the
window of its frame, and so are the scores that are kept for a second search of the frame
(`OneScore`).  `SecondPassAgrees` holds because in a buffer that grows both passes found the same
slots (`FromBuf`).

*The speech.*  These theorems hold whatever cepstra the front end makes, and only need that it makes
no more than there is room for (`FramedEffect`).  That it makes the right ones has an invariant of its
own.  `VadOK`: speech is on where the pattern of voiced frames as a whole says so, the counters
of `fe_vad_hangover` are the lengths of the run that the pattern ends with, and the prespeech buffer has
the frames of that run; so a frame more (`AnalyseHears`) goes out, makes speech begin or is
held back as the reference says (`HeardNext`, `HeardBegins`).  `Hears`: what was given and what is still
held back is the speech so far.  `InFrames` and `Between` say which samples are where, in the
loop over the frames and between calls: the last frame, the old overflow and how much of it is
still needed, the new overflow, so that each frame starts a shift after the one before, whether it
was made of an overflow, of the call or of both (`FirstFrameHears`, `NextFrameHears`, `SaveOverflowHears`).
`FillMfcHears` carries this through the rounds of `acmod_process_raw`, `FeEndHears` through the end
of the utterance, where it counts what is lost, and `SpeechInv` through the steps of the decoder.

Only model-checked: every liveness property and that EndUtt returns, which are beyond the prover.

## Plan

Next, in this order:

1. `sbthread.c`: a semaphore over mutex and condition variable shown to implement
   the counter used here; the event; the carry in `cond_timed_wait` as a function
   over a small second.
2. `arc_buffer_commit` step by step (count, prefix sums, placing) shown to give the
   order that ArcBuffer defines; release of right-context deltas.
3. `search_factory.c` reference counts with `latgen` as a third search.
4. `bptbl_release` and the backtrace; Bptbl composed with ArcBuffer.
