---------------------------- MODULE OcrReading ----------------------------
(***************************************************************************)
(* Reading text from captures (capture-testing.ts): the worker of every    *)
(* read or the shared worker with its queue and release, the mapping of    *)
(* recognized word boxes back to the capture, and the search for a text    *)
(* among the recognition attempts.  Tesseract is external: a recognition   *)
(* yields any attempts.  Boxes are intervals of one axis (the code treats  *)
(* both alike).  What a caller looks for (a text or a pattern, with its    *)
(* normalization and case) is known by the candidates that match it; a     *)
(* candidate is the texts of words in a row, joined.                       *)
(***************************************************************************)
EXTENDS Integers, Sequences, FiniteSets, SequencesExt, FiniteSetsExt

CONSTANTS Reading,      \* reads
          Releaser,     \* calls of releaseAsync
          Text,         \* the text of a word
          Expectation,  \* what is looked for: [empty : , matches : SUBSET Seq(Text)]
          Box,          \* recognized boxes: <<x0, x1>> in the prepared image
          MaxAttempts,  \* bound: page segmentation modes
          MaxWords,     \* bound: words of an attempt
          Origin, Scale \* of the prepared image in the capture

ASSUME BoundsAssumption == MaxAttempts \in Nat /\ MaxWords \in Nat
ASSUME BoxAssumption == Box \subseteq Nat \X Nat
ASSUME ScaleAssumption == Origin \in Nat /\ Scale \in Nat \ {0}
ASSUME ExpectationAssumption ==
  \A expected \in Expectation :
    expected.empty \in BOOLEAN /\ (expected.empty => expected.matches = {})

\* No match: undefined.
NoMatch == [attempt |-> 0, words |-> <<>>, bounds |-> [x |-> 0, width |-> 0]]
NoExpectation == [empty |-> TRUE, matches |-> {}]

VARIABLES
  shared,         \* workerMode is "shared"
  worker,         \* every worker made: "creating", "ready", "failed" or "terminated"
  workerPromise,  \* the shared worker, or 0
  queue,          \* reads enqueued and not finished
  read,           \* Reading -> [phase, worker, attempts, asked, match]
  release         \* Releaser -> [phase, before, worker]: the reads it waits for

readingVars == <<shared, worker, workerPromise, queue, read, release>>

ReadingInit ==
  /\ shared \in BOOLEAN /\ worker = <<>> /\ workerPromise = 0 /\ queue = <<>>
  /\ read = [c \in Reading |-> [phase |-> "new", worker |-> 0, attempts |-> <<>>, match |-> NoMatch,
                             asked |-> [expected |-> NoExpectation, minConfidence |-> 0]]]
  /\ release = [r \in Releaser |-> [phase |-> "idle", before |-> {}, worker |-> 0]]

-----------------------------------------------------------------------------
\* The worker controller.

\* recognize: a shared worker is reached through the queue; the region, modes or the
\* image may be refused before that.
Recognize(c) ==
  /\ read[c].phase = "new"
  /\ IF shared
     THEN queue' = Append(queue, c) /\ read' = [read EXCEPT ![c].phase = "queued"]
          /\ UNCHANGED worker
     ELSE /\ worker' = Append(worker, "creating")
          /\ read' = [read EXCEPT ![c].phase = "creating", ![c].worker = Len(worker) + 1]
          /\ UNCHANGED queue
  /\ UNCHANGED <<shared, workerPromise, release>>

RefuseRead(c) ==
  /\ read[c].phase = "new" /\ read' = [read EXCEPT ![c].phase = "refused"]
  /\ UNCHANGED <<shared, worker, workerPromise, queue, release>>

\* The reads before it are done: the shared worker, made if there is none.
GetWorker(c) ==
  /\ read[c].phase = "queued" /\ Head(queue) = c
  /\ LET w == IF workerPromise = 0 THEN Len(worker) + 1 ELSE workerPromise IN
     /\ workerPromise' = w
     /\ worker' = IF workerPromise = 0 THEN Append(worker, "creating") ELSE worker
     /\ read' = [read EXCEPT ![c].phase = "creating", ![c].worker = w]
  /\ UNCHANGED <<shared, queue, release>>

\* A worker that could not be made stays the shared one.
Created(w) ==
  /\ worker[w] = "creating"
  /\ \E outcome \in {"ready", "failed"} : worker' = [worker EXCEPT ![w] = outcome]
  /\ UNCHANGED <<shared, workerPromise, queue, read, release>>

\* One read ends with its attempts or, when attempts is empty, with an error.  A worker
\* of its own is terminated when it was made at all.
EndRecognition(c, attempts) ==
  /\ read' = [read EXCEPT ![c].phase = IF attempts = <<>> THEN "error" ELSE "text",
                          ![c].attempts = attempts]
  /\ worker' = IF shared \/ worker[read[c].worker] # "ready" THEN worker
               ELSE [worker EXCEPT ![read[c].worker] = "terminated"]
  /\ queue' = IF shared THEN Tail(queue) ELSE queue
  /\ UNCHANGED <<shared, workerPromise, release>>

WorkerFailed(c) ==
  /\ read[c].phase = "creating" /\ worker[read[c].worker] = "failed"
  /\ EndRecognition(c, <<>>)

StartRecognition(c) ==
  /\ read[c].phase = "creating" /\ worker[read[c].worker] \in {"ready", "terminated"}
  /\ read' = [read EXCEPT ![c].phase = "recognizing"]
  /\ UNCHANGED <<shared, worker, workerPromise, queue, release>>

Word == [text : Text, box : Box]
Confidence == 0..1  \* bound: enough of 0..100 for one attempt above another
RecognitionAttempt == [confidence : Confidence, words : SeqOf(Word, MaxWords)]

\* convertTesseractWord drops a word whose box is empty.
Converted(words) ==
  LET kept[n \in 0..Len(words)] ==
        IF n = 0 THEN <<>>
        ELSE IF words[n].box[1] < words[n].box[2] THEN Append(kept[n - 1], words[n])
        ELSE kept[n - 1]
  IN kept[Len(words)]

\* A recognition yields an attempt per mode, or an error.
Recognized(c, recognized) ==
  /\ read[c].phase = "recognizing"
  /\ worker[read[c].worker] = "terminated" => recognized = <<>>
  /\ EndRecognition(c, [n \in 1..Len(recognized) |->
                         [recognized[n] EXCEPT !.words = Converted(@)]])

\* release waits for the read that is the last one now; a read enqueued later it does
\* not see.
Release(r) ==
  /\ release[r].phase = "idle"
  /\ release' = [release EXCEPT ![r].phase = "waiting", ![r].before = ToSet(queue)]
  /\ UNCHANGED <<shared, worker, workerPromise, queue, read>>

\* Mutated: release does not wait for the queue.
TakeWorkerAtOnce(r) ==
  /\ release[r].phase = "waiting"
  /\ release' = [release EXCEPT ![r].phase = IF workerPromise = 0 THEN "done" ELSE "taking",
                                ![r].worker = workerPromise]
  /\ UNCHANGED <<shared, worker, workerPromise, queue, read>>

TakeWorker(r) ==
  /\ release[r].phase = "waiting" /\ release[r].before \cap ToSet(queue) = {}
  /\ release' = [release EXCEPT ![r].phase = IF workerPromise = 0 THEN "done" ELSE "taking",
                                ![r].worker = workerPromise]
  /\ UNCHANGED <<shared, worker, workerPromise, queue, read>>

Terminate(r) ==
  /\ release[r].phase = "taking" /\ worker[release[r].worker] # "creating"
  /\ IF worker[release[r].worker] = "failed"
     THEN release' = [release EXCEPT ![r].phase = "error"] /\ UNCHANGED <<worker, workerPromise>>
     ELSE /\ release' = [release EXCEPT ![r].phase = "done"]
          /\ workerPromise' = 0
          /\ worker' = [worker EXCEPT ![release[r].worker] = "terminated"]
  /\ UNCHANGED <<shared, queue, read>>

-----------------------------------------------------------------------------
\* The texts.

\* convertTesseractWord: the interval of the capture that a box stands for.
CaptureBox(box) ==
  LET left == Origin + (box[1] \div Scale)
      right == Origin + ((box[2] + Scale - 1) \div Scale)
  IN [x |-> left, width |-> Max({1, right - left})]

unionPixelRegions(regions) ==
  LET left == Min({r.x : r \in regions}) IN
  [x |-> left, width |-> Max({r.x + r.width : r \in regions}) - left]

\* A candidate matches by its text alone: one that includes the expected text, whatever
\* its case unless that is asked for, or one that passes the pattern's test.
candidateMatchesExpectedText(words, expected) ==
  [n \in DOMAIN words |-> words[n].text] \in expected.matches

\* The words in a row that match: how many, and where they start.
Runs(words, expected) ==
  {run \in (1..Len(words)) \X (1..Len(words)) :
     /\ run[2] + run[1] <= Len(words) + 1
     /\ candidateMatchesExpectedText(SubSeq(words, run[2], run[2] + run[1] - 1), expected)}
\* The fewest words, and the first of as many.
First(pairs) ==
  CHOOSE p \in pairs : \A q \in pairs : p[1] < q[1] \/ (p[1] = q[1] /\ p[2] <= q[2])

findOcrTextMatch(attempts, expected, minConfidence) ==
  LET found == {n \in DOMAIN attempts :
                  /\ attempts[n].confidence >= minConfidence
                  /\ Runs(attempts[n].words, expected) # {}}
  IN IF found = {} THEN NoMatch
     ELSE LET words == attempts[Min(found)].words
              run == First(Runs(words, expected))
              matched == SubSeq(words, run[2], run[2] + run[1] - 1)
          IN [attempt |-> Min(found), words |-> matched,
              bounds |-> unionPixelRegions({CaptureBox(w.box) : w \in ToSet(matched)})]

\* A confidence out of range is refused at the first attempt, an empty text at the first
\* candidate of an attempt with enough confidence.
SearchThrows(attempts, expected, minConfidence) ==
  \/ minConfidence \notin Confidence
  \/ /\ expected.empty
     /\ \E n \in DOMAIN attempts : /\ attempts[n].confidence >= minConfidence
                                  /\ attempts[n].words # <<>>

FindText(c, expected, minConfidence) ==
  /\ read[c].phase = "text"
  /\ LET attempts == read[c].attempts IN
     IF SearchThrows(attempts, expected, minConfidence)
     THEN read' = [read EXCEPT ![c].phase = "invalid"]
     ELSE read' = [read EXCEPT ![c].phase = "found",
            ![c].asked = [expected |-> expected, minConfidence |-> minConfidence],
            ![c].match = findOcrTextMatch(attempts, expected, minConfidence)]
  /\ UNCHANGED <<shared, worker, workerPromise, queue, release>>

\* A step of a read, whose recognition yields one of some results.
ReadStep(c, results) ==
  \/ Recognize(c)
  \/ RefuseRead(c)
  \/ GetWorker(c)
  \/ WorkerFailed(c)
  \/ StartRecognition(c)
  \/ \E recognized \in results : Recognized(c, recognized)

WorkerStep ==
  \/ \E w \in DOMAIN worker : Created(w)
  \/ \E r \in Releaser : Release(r) \/ TakeWorker(r) \/ Terminate(r)

FindStep ==
  \E c \in Reading, expected \in Expectation, minConfidence \in Confidence \cup {-1} :
    FindText(c, expected, minConfidence)

ReadingNext ==
  \/ \E c \in Reading : ReadStep(c, SeqOf(RecognitionAttempt, MaxAttempts))
  \/ WorkerStep
  \/ FindStep

ReadingSpec == ReadingInit /\ [][ReadingNext]_readingVars

-----------------------------------------------------------------------------
\* Two releases that ran at once and took the same worker: the second one makes the
\* controller forget the worker of a read that came between them.
Overlapped ==
  \E r, s \in Releaser :
    r # s /\ release[r].worker = release[s].worker /\ release[r].worker # 0

\* A worker is never terminated under a read that was enqueued before the release was
\* called; and with no read and no release running the only worker alive is the shared
\* one, which a later release will find, unless two releases overlapped
\* (createOcrWorkerController).
WorkersAreKept ==
  /\ \A c \in Reading :
       read[c].phase \in {"creating", "recognizing"} /\ worker[read[c].worker] = "terminated" =>
         \E r \in Releaser : release[r].phase = "done" /\ c \notin release[r].before
  /\ (\A c \in Reading : read[c].phase \in {"new", "refused", "error", "text", "found", "invalid"})
     /\ (\A r \in Releaser : release[r].phase \in {"idle", "done", "error"}) =>
       \A w \in DOMAIN worker :
         worker[w] \in {"creating", "ready"} => w = workerPromise \/ Overlapped

\* The words in a row of an attempt with enough confidence that match.
Matching(attempt, asked) ==
  {words \in {SubSeq(attempt.words, p[1], p[2]) :
              p \in (DOMAIN attempt.words) \X (DOMAIN attempt.words)} :
     /\ words # <<>> /\ attempt.confidence >= asked.minConfidence
     /\ candidateMatchesExpectedText(words, asked.expected)}

\* A search finds something exactly when words in a row of an attempt with enough
\* confidence match; it returns such words of the first attempt that has any, the fewest
\* of that attempt, and its bounds are the pixels of the capture that its words' boxes
\* were made from, whatever the scale of the prepared image (findOcrTextMatch,
\* findOcrTextMatchInAttempt, convertTesseractWord).
MatchIsExact ==
  \A c \in Reading : read[c].phase = "found" =>
    LET match == read[c].match
        Found(n) == Matching(read[c].attempts[n], read[c].asked)
        pixels == UNION {{Origin + (x \div Scale) : x \in w.box[1]..(w.box[2] - 1)} :
                           w \in ToSet(match.words)}
    IN IF match = NoMatch THEN \A n \in DOMAIN read[c].attempts : Found(n) = {}
       ELSE /\ match.words \in Found(match.attempt)
            /\ \A words \in Found(match.attempt) : Len(match.words) <= Len(words)
            /\ \A n \in 1..(match.attempt - 1) : Found(n) = {}
            /\ match.bounds.x = Min(pixels)
            /\ match.bounds.x + match.bounds.width - 1 = Max(pixels)

\* No OCR worker is used after it was terminated or left behind, and a match is the
\* fewest words that match at the place they were read (createOcrWorkerController,
\* findOcrTextMatch).
ReadingIsSound == WorkersAreKept /\ MatchIsExact
=============================================================================
