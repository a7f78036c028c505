---------------------------- MODULE MCDriverTools -----------------------------
(***************************************************************************)
(* Small instances of the driver's tools for TLC: connection selection,    *)
(* arctl, the capture assertions and diagnostics. Each behaviour runs one  *)
(* of them, chosen at the start; the others keep their first state.        *)
(***************************************************************************)
EXTENDS ConnectionSelection, ArctlCommand, ImageComparison, OcrReading, DiagnosticsBundle

Paths == {<<>>, <<1>>, <<2>>, <<2, 1>>}
Boxes == {<<0, 3>>, <<3, 4>>, <<2, 2>>}
Bounds ==
  {[maxDiffPixels |-> -1, percent |-> 50], [maxDiffPixels |-> 0, percent |-> 100],
   [maxDiffPixels |-> 1, percent |-> 0]}
\* A chain of three windows, the lowest of them listed below both others, and a single one.
Beneath == <<{2, 3}, {3}, {}, {}>>
\* The first two are saved in one directory, the last two beside the bundle's own files.
Segments ==
  [name \in {"log/1", "log 1", " .. "} |-> IF name = " .. " THEN ".." ELSE "log-1"]
Requested ==
  <<[name |-> "log/1", kind |-> "remoteFile", optional |-> TRUE, files |-> {<<"a">>}],
    [name |-> "log 1", kind |-> "remoteDirectory", optional |-> FALSE,
     files |-> {<<"a">>, <<"b", "c">>}],
    [name |-> " .. ", kind |-> "managedProcess", optional |-> FALSE, files |-> {}],
    [name |-> " .. ", kind |-> "remoteDirectory", optional |-> TRUE,
     files |-> {<<"screen.png">>}]>>
\* A new directory, and one with the bundle of another failure.
EarlierFiles ==
  {{}, BaseFiles \cup {ManifestFile, <<"attachments", "log-1", "old">>,
                       <<"attachments", "log-1", "b">>}}

\* One assertion compares every pair of images of this size with at most one mask; two
\* of them compare whole images that differ, or not, in all pixels outside a mask.
White == [i \in 0..(Width * Height - 1) |-> 1]
Black == [i \in 0..(Width * Height - 1) |-> 0]
AnyInput ==
  LET valid == {r \in Regions : validateRegion(r)} IN
  [actual : {White}, expected : Images, region : valid,
   masks : {{}} \cup {{m} : m \in valid},
   limits : Limits, matcher : {"toLookSimilar", "toHaveSimilarity"}]
WholeInput ==
  [actual : {White}, expected : {White, Black}, region : {Region(0, 0, Width, Height)},
   masks : {{}, {Region(0, 0, Width, Height)}},
   limits : Limits, matcher : {"toLookSimilar", "toHaveSimilarity"}]

\* What is looked for, by the candidates that match: the texts 'select' and 'be Sel',
\* the pattern /^Select$/, and an empty text.
Candidates == SeqOf(Text, MaxWords)
Expected ==
  {[empty |-> FALSE, matches |-> {c \in Candidates : "Select" \in ToSet(c)}],
   [empty |-> FALSE, matches |-> {c \in Candidates : \E n \in 2..Len(c) :
                                    c[n - 1] = "Probe" /\ c[n] = "Select"}],
   [empty |-> FALSE, matches |-> {<<"Select">>}],
   [empty |-> TRUE, matches |-> {}]}

\* Two reads of at most a word, with releases; then the words of one read.
AWord == {<<>>, <<[confidence |-> 1, words |-> <<[text |-> "Probe", box |-> <<0, 3>>]>>]>>}
AnyWords == SeqOf(RecognitionAttempt, MaxAttempts)

VARIABLE part  \* the component that runs

MCInit ==
  /\ part \in {"selection", "arctl", "image", "images", "workers", "words", "diagnostics"}
  /\ part # "selection" => explicit = TRUE /\ section = "a"
  /\ SelectionInit
  /\ part # "arctl" => capture = TRUE /\ recursive = FALSE /\ output = <<>>
  /\ CommandInit
  /\ part \notin {"image", "images"} => saving = FALSE
  /\ ComparisonInit
  /\ part # "workers" => shared = FALSE
  /\ ReadingInit
  /\ part # "diagnostics" => wrapped = FALSE
  /\ DiagnosticsInit
  /\ part # "diagnostics" => DOMAIN bundleFiles = {}

MCNext ==
  /\ UNCHANGED part
  /\ IF part = "selection" THEN SelectionNext ELSE UNCHANGED selectionVars
  /\ IF part = "arctl" THEN CommandNext ELSE UNCHANGED commandVars
  /\ CASE part = "image" -> ComparisonStep("c1", AnyInput)
       [] part = "images" -> \E c \in Assertion : ComparisonStep(c, WholeInput)
       [] OTHER -> UNCHANGED comparisonVars
  /\ CASE part = "workers" -> (\E c \in Reading : ReadStep(c, AWord)) \/ WorkerStep
       [] part = "words" ->
            \/ ReadStep("c1", AnyWords)
            \/ \E w \in DOMAIN worker : Created(w)
            \/ FindStep
       [] OTHER -> UNCHANGED readingVars
  /\ IF part = "diagnostics" THEN DiagnosticsNext ELSE UNCHANGED diagnosticsVars

MCvars == <<part, selectionVars, commandVars, comparisonVars, readingVars, diagnosticsVars>>
MCSpec == MCInit /\ [][MCNext]_MCvars
=============================================================================
