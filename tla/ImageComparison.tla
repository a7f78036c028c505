-------------------------- MODULE ImageComparison --------------------------
(***************************************************************************)
(* The visual assertions of capture-testing.ts, toLookSimilar and          *)
(* toHaveSimilarity: concurrent assertions of one createCaptureExpect      *)
(* share its artifact counter; each one loads the expected image, saves    *)
(* what it compares, compares the region outside the masks and, when the   *)
(* images differ too much, adds the evidence of the failure.  A pixel is a *)
(* number; pixelmatch and ssim are external: two pixels differ or not, and *)
(* the similarity of two images is the share of pixels that do not.        *)
(***************************************************************************)
EXTENDS Integers, Sequences, FiniteSets, FiniteSetsExt

CONSTANTS Assertion,      \* assertions
          Width, Height,  \* size of the capture
          Pixel,          \* values of a pixel; 0 is the one of a masked pixel
          Limits          \* [maxDiffPixels : a number or -1 for none, percent : 0..100]

ASSUME SizeAssumption == Width \in Nat \ {0} /\ Height \in Nat \ {0}

None == "none"

VARIABLES
  saving,    \* an output directory is configured
  counter,   \* the next artifact number
  call,      \* Call -> [phase, number, input, diffPixels]
  evidence   \* the files of the artifacts: <<artifact number, file, the assertion it is of>>

comparisonVars == <<saving, counter, call, evidence>>

ComparisonInit ==
  /\ saving \in BOOLEAN /\ counter = 0 /\ evidence = {}
  /\ call = [c \in Assertion |-> [phase |-> "new", number |-> -1, input |-> None, diffPixels |-> -1]]

\* One writeFile: whatever the file held before is gone.
Write(c, names) ==
  LET n == call[c].number IN
  evidence' = IF ~saving THEN evidence
              ELSE {f \in evidence : f[1] # n \/ f[2] \notin names} \cup {<<n, name, c>> : name \in names}

-----------------------------------------------------------------------------
\* The comparison.  An image is a function from 0 .. width * height - 1.

Region(x, y, w, h) == [x |-> x, y |-> y, width |-> w, height |-> h]

validateRegion(region) ==
  /\ region.x >= 0 /\ region.y >= 0 /\ region.width > 0 /\ region.height > 0
  /\ region.x + region.width <= Width /\ region.y + region.height <= Height

copyRegionData(image, region) ==
  [i \in 0..(region.width * region.height - 1) |->
     image[(region.y + (i \div region.width)) * Width + region.x + (i % region.width)]]

\* Mutated: the mask is taken to be relative to the region.
MaskedFromRegion(region, mask) ==
  {(mask.y + y) * region.width + mask.x + x : x \in 0..(mask.width - 1), y \in 0..(mask.height - 1)}

\* The positions of a region's data that a mask blanks in both images.
MaskedIndices(region, mask) ==
  LET left == Max({region.x, mask.x})
      top == Max({region.y, mask.y})
      right == Min({region.x + region.width, mask.x + mask.width})
      bottom == Min({region.y + region.height, mask.y + mask.height})
  IN {(y - region.y) * region.width + (x - region.x) : x \in left..(right - 1), y \in top..(bottom - 1)}

applyMasks(data, region, masks) ==
  [i \in DOMAIN data |-> IF \E m \in masks : i \in MaskedIndices(region, m) THEN 0 ELSE data[i]]

DiffPixels(input) ==
  LET Prepared(image) ==
        applyMasks(copyRegionData(image, input.region), input.region, input.masks)
      actual == Prepared(input.actual)
      expected == Prepared(input.expected)
  IN Cardinality({i \in DOMAIN actual : actual[i] # expected[i]})

\* toLookSimilar bounds the differing pixels and their share, toHaveSimilarity the
\* share of the equal ones.
isLookSimilarPass(diffPixels, input) ==
  LET total == input.region.width * input.region.height IN
  IF input.matcher = "toLookSimilar"
  THEN /\ diffPixels * 100 <= input.limits.percent * total
       /\ input.limits.maxDiffPixels = -1 \/ diffPixels <= input.limits.maxDiffPixels
  ELSE (total - diffPixels) * 100 >= (100 - input.limits.percent) * total

Images == [0..(Width * Height - 1) -> Pixel]
Regions ==
  {Region(x, y, w, h) : x \in 0..(Width - 1), y \in 0..(Height - 1), w \in 0..Width, h \in 1..Height}

-----------------------------------------------------------------------------
\* createContext: the number is taken before the first await, then the directory is made.
Start(c) ==
  /\ call[c].phase = "new" /\ counter' = counter + 1
  /\ call' = [call EXCEPT ![c].phase = "context", ![c].number = counter]
  /\ UNCHANGED <<saving, evidence>>

\* The capture and the expected image are decoded; either may be unreadable.
Load(c) ==
  /\ call[c].phase = "context"
  /\ \E phase \in {"loaded", "error"} : call' = [call EXCEPT ![c].phase = phase]
  /\ UNCHANGED <<saving, counter, evidence>>

\* saveActualAndMetadata: two writes.
SaveActual(c) ==
  /\ call[c].phase = "loaded" /\ call' = [call EXCEPT ![c].phase = "actual"]
  /\ Write(c, {"actual.png"}) /\ UNCHANGED <<saving, counter>>

SaveMetadata(c) ==
  /\ call[c].phase = "actual" /\ call' = [call EXCEPT ![c].phase = "saved"]
  /\ Write(c, {"metadata.json"}) /\ UNCHANGED <<saving, counter>>

\* prepareComparison refuses an expected image of another size, and a region or a mask
\* that leaves the image.
RefuseComparison(c) ==
  /\ call[c].phase = "saved" /\ call' = [call EXCEPT ![c].phase = "error"]
  /\ UNCHANGED <<saving, counter, evidence>>

Inputs ==
  LET valid == {r \in Regions : validateRegion(r)} IN
  [actual : Images, expected : Images, region : valid, masks : SUBSET valid,
   limits : Limits, matcher : {"toLookSimilar", "toHaveSimilarity"}]

Compare(c, input) ==
  LET diffPixels == DiffPixels(input) IN
  /\ call[c].phase = "saved"
  /\ call' = [call EXCEPT
       ![c].phase = IF isLookSimilarPass(diffPixels, input) THEN "passed" ELSE "differs",
       ![c].input = input, ![c].diffPixels = diffPixels]
  /\ UNCHANGED <<saving, counter, evidence>>

\* writeFailureArtifacts: two writes, then the error with the result.
SaveExpected(c) ==
  /\ call[c].phase = "differs" /\ call' = [call EXCEPT ![c].phase = "expected"]
  /\ Write(c, {"expected.png"}) /\ UNCHANGED <<saving, counter>>

SaveDiff(c) ==
  /\ call[c].phase = "expected" /\ call' = [call EXCEPT ![c].phase = "failed"]
  /\ Write(c, {"diff.png"}) /\ UNCHANGED <<saving, counter>>

\* A step of an assertion, which is asked to compare one of some inputs.
ComparisonStep(c, inputs) ==
  \/ Start(c)
  \/ Load(c)
  \/ SaveActual(c)
  \/ SaveMetadata(c)
  \/ RefuseComparison(c)
  \/ SaveExpected(c)
  \/ SaveDiff(c)
  \/ \E input \in inputs : Compare(c, input)

ComparisonNext == \E c \in Assertion : ComparisonStep(c, Inputs)

ComparisonSpec == ComparisonInit /\ [][ComparisonNext]_comparisonVars

-----------------------------------------------------------------------------
\* The pixels an assertion compares: in the region and in no mask.
Within(x, y, r) == x \in r.x..(r.x + r.width - 1) /\ y \in r.y..(r.y + r.height - 1)
Differing(input) ==
  {p \in (0..(Width - 1)) \X (0..(Height - 1)) :
     /\ Within(p[1], p[2], input.region)
     /\ ~\E m \in input.masks : Within(p[1], p[2], m)
     /\ input.actual[p[2] * Width + p[1]] # input.expected[p[2] * Width + p[1]]}

\* The flat-array arithmetic of copyRegionData and applyMasks counts exactly the
\* differing pixels of the region outside the masks, for every region, mask and image.
DiffIsExact ==
  \A c \in Assertion : call[c].phase \in {"passed", "differs", "expected", "failed"} =>
    call[c].diffPixels = Cardinality(Differing(call[c].input))

\* The evidence an assertion points to is its own and complete: however the assertions
\* of one helper interleave, a failed one finds its four files in its directory, a
\* passed one its two, and nothing of another assertion (createContext, nextCounter).
EvidenceIsKept ==
  \A c \in Assertion :
    LET kept(names) ==
          {f \in evidence : f[1] = call[c].number} = {<<call[c].number, name, c>> : name \in names}
    IN /\ saving /\ call[c].phase = "passed" => kept({"actual.png", "metadata.json"})
       /\ saving /\ call[c].phase = "failed" =>
            kept({"actual.png", "metadata.json", "expected.png", "diff.png"})

\* A visual assertion judges exactly the pixels outside the masks, and concurrent
\* assertions keep the evidence of each other's failures (compareDecodedPngs).
ComparisonIsExact == DiffIsExact /\ EvidenceIsKept
=============================================================================
