------------------------- MODULE DriverTools_proofs -------------------------
(***************************************************************************)
(* The driver's tools, each component for every value of its constants:    *)
(* arctl, diagnostics bundles, the OCR workers and searches, connection    *)
(* selection and the comparison of images.                                 *)
(***************************************************************************)
EXTENDS ConnectionSelection, ArctlCommand, ImageComparison, OcrReading, DiagnosticsBundle,
        SequenceTheorems, FiniteSetTheorems, WellFoundedInduction, TLAPS

-----------------------------------------------------------------------------
(* Naturals, recursion on them, finite sets and sequences.                   *)

(* A set of naturals has a first element.                                    *)
LEMMA FirstExists ==
  ASSUME NEW S \in SUBSET Nat, S # {}
  PROVE  \E i \in S : \A j \in S : i <= j
<1>1. IsWellFoundedOn(OpToRel(<, Nat), Nat)
  BY NatLessThanWellFounded
<1>2. PICK i \in S : \A j \in S : ~ (<<j, i>> \in OpToRel(<, Nat))
  BY <1>1, WFMin
<1>3. \A j \in S : ~ (j < i)
  BY <1>2 DEF OpToRel
<1> QED BY <1>3

(* ... and a last one when it is bounded.                                    *)
LEMMA LastExists ==
  ASSUME NEW N \in Nat, NEW S \in SUBSET (0..N), S # {}
  PROVE  \E i \in S : \A j \in S : j <= i
<1> DEFINE T == {N - i : i \in S}
<1>1. T \in SUBSET Nat /\ T # {}
  <2>1. \A i \in S : i \in 0..N /\ N - i \in Nat
    OBVIOUS
  <2> QED BY <2>1
<1>2. PICK t \in T : \A u \in T : t <= u
  BY <1>1, FirstExists
<1>3. PICK i \in S : t = N - i
  BY <1>2
<1>4. \A j \in S : N - j \in T /\ j \in Int /\ i \in Int
  OBVIOUS
<1> HIDE DEF T
<1>5. \A j \in S : j <= i
  BY <1>2, <1>3, <1>4
<1> QED BY <1>5

(* A function that follows a recursion on the naturals up to a bound ...     *)
Unrolled(f, N, S, start, next) ==
  f \in [0..N -> S] /\ f[0] = start /\ \A n \in 1..N : f[n] = next[<<n, f[n - 1]>>]

(* ... exists, whatever the step of the recursion.                           *)
LEMMA RecursionExists ==
  ASSUME NEW N \in Nat, NEW S, NEW start \in S, NEW Step, Step \in [(1..N) \X S -> S]
  PROVE  \E f : Unrolled(f, N, S, start, Step)
<1> USE DEF Unrolled
<1> DEFINE Defined(k, f) ==
             f \in [0..k -> S] /\ f[0] = start /\ \A n \in 1..k : f[n] = Step[<<n, f[n - 1]>>]
           B == {k \in 0..N : ~ \E f : Defined(k, f)}
<1>1. SUFFICES ASSUME B # {} PROVE FALSE
  <2>1. N \in 0..N
    OBVIOUS
  <2> QED BY <2>1
<1>2. B \in SUBSET Nat
  OBVIOUS
<1> HIDE DEF B
<1>3. PICK k \in B : \A j \in B : k <= j
  BY <1>1, <1>2, FirstExists
<1> USE DEF B
<1>4. k # 0
  <2> DEFINE g == [n \in 0..0 |-> start]
  <2>1. Defined(0, g)
    OBVIOUS
  <2> QED BY <1>3, <2>1
<1>5. k - 1 \in 0..N /\ k \in 1..N /\ k - 1 \notin B
  BY <1>3, <1>4
<1>6. PICK f : Defined(k - 1, f)
  BY <1>5
<1> DEFINE g == [n \in 0..k |-> IF n = k THEN Step[<<k, f[k - 1]>>] ELSE f[n]]
<1>7. f[k - 1] \in S /\ Step[<<k, f[k - 1]>>] \in S
  BY <1>5, <1>6
<1>8. g \in [0..k -> S] /\ g[0] = start
  BY <1>5, <1>6, <1>7
<1>9. ASSUME NEW n \in 1..k PROVE g[n] = Step[<<n, g[n - 1]>>]
  <2>1. CASE n = k
    <3>1. k - 1 \in 0..k /\ k - 1 # k /\ k \in 0..k
      BY <1>5
    <3>2. g[k] = Step[<<k, f[k - 1]>>] /\ g[k - 1] = f[k - 1]
      BY <3>1
    <3> QED BY <2>1, <3>2
  <2>2. CASE n # k
    BY <1>5, <1>6, <2>2
  <2> QED BY <2>1, <2>2
<1> HIDE DEF g
<1>10. Defined(k, g)
  BY <1>8, <1>9
<1> QED BY <1>3, <1>10

\* A least element of a set of integers is its minimum, a greatest one its maximum.
LEMMA MinIs ==
  ASSUME NEW S \in SUBSET Int, NEW i \in S, \A j \in S : i <= j
  PROVE  Min(S) = i
<1>1. Min(S) \in S /\ \A j \in S : Min(S) <= j
  BY DEF Min
<1> DEFINE m == Min(S)
<1> HIDE DEF m
<1>2. m \in S /\ m \in Int /\ i \in Int /\ m <= i /\ i <= m
  BY <1>1 DEF m
<1> QED BY <1>2 DEF m

\* ... and a greatest one its maximum.
LEMMA MaxIs ==
  ASSUME NEW S \in SUBSET Int, NEW i \in S, \A j \in S : j <= i
  PROVE  Max(S) = i
<1>1. Max(S) \in S /\ \A j \in S : Max(S) >= j
  BY DEF Max
<1> DEFINE m == Max(S)
<1> HIDE DEF m
<1>2. m \in S /\ m \in Int /\ i \in Int /\ m <= i /\ i <= m
  BY <1>1 DEF m
<1> QED BY <1>2 DEF m

(* A nonempty finite list of naturals has a least and a greatest one.        *)
LEMMA LeastExists ==
  ASSUME NEW n \in Nat, NEW f, \A i \in 1..n : f[i] \in Nat, n # 0
  PROVE  \E i \in 1..n : \A j \in 1..n : f[i] <= f[j]
<1> DEFINE S == {f[i] : i \in 1..n}
<1>1. S \in SUBSET Nat /\ S # {}
  <2>1. 1 \in 1..n
    OBVIOUS
  <2> QED BY <2>1
<1>2. PICK s \in S : \A t \in S : s <= t
  BY <1>1, FirstExists
<1> QED BY <1>2

\* ... and a greatest one.
LEMMA GreatestExists ==
  ASSUME NEW n \in Nat, NEW f, \A i \in 1..n : f[i] \in Nat, n # 0
  PROVE  \E i \in 1..n : \A j \in 1..n : f[j] <= f[i]
<1> DEFINE Top(m) == \E i \in 1..m : \A j \in 1..m : f[j] <= f[i]
           B == {m \in 1..n : ~Top(m)}
<1>1. SUFFICES ASSUME B # {} PROVE FALSE
  <2>1. n \in 1..n
    OBVIOUS
  <2> QED BY <2>1
<1>2. B \in SUBSET Nat
  OBVIOUS
<1> HIDE DEF B
<1>3. PICK m \in B : \A k \in B : m <= k
  BY <1>1, <1>2, FirstExists
<1> USE DEF B
<1>4. m # 1
  <2>1. Top(1)
    BY n \in Nat
  <2> QED BY <1>3, <2>1
<1>5. m - 1 \in 1..n /\ Top(m - 1) /\ m \in 1..n
  <2> HIDE DEF Top
  <2>1. m \in 1..n /\ m - 1 \in 1..n /\ ~(m <= m - 1)
    BY <1>3, <1>4
  <2> QED BY <1>3, <2>1
<1>6. PICK i \in 1..(m - 1) : \A j \in 1..(m - 1) : f[j] <= f[i]
  BY <1>5
<1>7. f[i] \in Nat /\ f[m] \in Nat /\ \A j \in 1..(m - 1) : f[j] \in Nat
  BY <1>5
<1>8. CASE f[m] <= f[i]
  <2>1. i \in 1..m /\ \A j \in 1..m : f[j] <= f[i]
    BY <1>5, <1>6, <1>8
  <2> QED BY <1>3, <2>1
<1>9. CASE ~(f[m] <= f[i])
  <2>1. m \in 1..m /\ \A j \in 1..m : f[j] <= f[m]
    BY <1>5, <1>6, <1>7, <1>9
  <2> QED BY <1>3, <2>1
<1> QED BY <1>8, <1>9

\* A sequence of bounded length is a sequence.
LEMMA SeqOfIsSeq ==
  ASSUME NEW S, NEW n \in Nat, NEW s \in SeqOf(S, n)
  PROVE  s \in Seq(S)
BY SeqDef DEF SeqOf

-----------------------------------------------------------------------------
(* arctl: one run of the command.                                            *)

(* The path above a path is shorter by a name. *)
LEMMA ParentIsShorter ==
  ASSUME NEW p \in Path, p # <<>>
  PROVE  Parent(p) \in Path /\ Len(p) \in Nat /\ Len(Parent(p)) \in Nat /\ Len(Parent(p)) < Len(p)
<1>1. p \in Seq(Nat) /\ Parent(p) \in Path /\ Parent(p) \in Seq(Nat)
  BY PathAssumption DEF Parent
<1>2. Len(p) \in Nat /\ Len(p) # 0 /\ Len(Parent(p)) \in Nat
  BY <1>1, EmptySeq, LenProperties
<1>3. 1 \in Int /\ Len(p) - 1 \in Nat /\ \A i \in 1..(Len(p) - 1) : p[i] \in Nat
  BY <1>1, <1>2, ElementOfSeq
<1>4. Len(SubSeq(p, 1, Len(p) - 1)) = IF 1 <= Len(p) - 1 THEN Len(p) - 1 - 1 + 1 ELSE 0
  <2> DEFINE m == Len(p) - 1
  <2>1. 1 \in Int /\ m \in Int /\ \A i \in 1..m : p[i] \in Nat
    BY <1>2, <1>3
  <2> HIDE DEF m
  <2>2. Len(SubSeq(p, 1, m)) = IF 1 <= m THEN m - 1 + 1 ELSE 0
    BY <2>1, SubSeqProperties
  <2> QED BY <2>2 DEF m
<1> QED BY <1>1, <1>2, <1>4 DEF Parent, Front

\* What a path may be.
Entries == EntryTypes \cup {"absent"}

\* The types, and that what is below something is below a directory.
CommandTypes ==
  /\ capture \in BOOLEAN /\ recursive \in BOOLEAN /\ interrupted \in BOOLEAN
  /\ source \in [Path -> Entries] /\ target \in [Path -> Entries] /\ before \in [Path -> Entries]
  /\ \A p \in Path : p # <<>> /\ source[p] # "absent" => source[Parent(p)] = "directory"
  /\ content \in [Path -> {"arctl", "other"}]
  /\ output \in {<<>>, <<"other">>, <<"arctl">>}
  /\ todo \subseteq Path /\ copied \subseteq Path
  /\ step \in {"parse", "connect", "displayed", "prepare", "capture", "transfer", "result"}
  /\ agent \in {"none", "connected", "released"}
  /\ exit \in {-1, 0, 1, 2, 130}

\* What every step of a run presupposes of the run so far.
StepsInOrder ==
  /\ step \in {"parse", "connect", "displayed"} =>
       todo = {} /\ copied = {} /\ output # <<"arctl">>
  /\ step \in {"parse", "displayed"} => agent = "none"
  /\ step = "connect" /\ exit = -1 => agent = "none"
  /\ step = "displayed" => exit = 0
  /\ step \in {"prepare", "capture"} => capture
  /\ step = "result" /\ capture => output = <<"arctl">>
  /\ step = "transfer" => ~capture
  /\ output = <<"arctl">> => step = "result" /\ capture
  /\ step = "result" /\ ~capture => todo = {}

\* What has been copied is as in the source, and nothing else has changed.
CopiesAreMade ==
  \A p \in Path :
    /\ p \in copied => /\ source[p] = target[p] /\ source[p] \in {"file", "directory"}
                       /\ source[p] = "file" => content[p] = "arctl"
    /\ before[p] # "absent" => target[p] = before[p]
    /\ p \notin copied => target[p] = before[p] /\ content[p] = "other"

\* Nothing of the source is forgotten: what is not copied is still to come, or what is
\* above it is.
NothingIsForgotten ==
  step \in {"transfer", "result"} /\ ~capture =>
    /\ <<>> \in copied \cup todo
    /\ \A p \in Path : p # <<>> /\ source[p] # "absent" /\ Parent(p) \in copied =>
         p \in copied \cup todo

\* The exit code that was set is that of the way the run ended.
ExitIsTrue ==
  /\ exit = 0 => ~interrupted /\ step \in {"displayed", "result"}
  /\ exit # -1 => (exit = 130 <=> interrupted)
  /\ exit = 2 => step = "parse"

\* The inductive invariant of a run of arctl.
CommandInvariant ==
  CommandTypes /\ StepsInOrder /\ CopiesAreMade /\ NothingIsForgotten /\ ExitIsTrue

\* A run of arctl begins in the invariant.
LEMMA CommandStarts == CommandInit => CommandInvariant
<1> SUFFICES ASSUME CommandInit PROVE CommandInvariant
  OBVIOUS
<1> USE DEF CommandInit, Trees, EntryTypes, Entries
<1>1. CommandTypes
  <2>1. capture \in BOOLEAN
    BY CapturingAssumption
  <2>2. source \in [Path -> Entries] /\ target \in [Path -> Entries]
    BY <2>1
  <2>3. \A p \in Path : p # <<>> /\ source[p] # "absent" => source[Parent(p)] = "directory"
    BY <2>1
  <2> QED BY <2>1, <2>2, <2>3 DEF CommandTypes
<1> QED BY <1>1 DEF CommandInvariant, CommandTypes, StepsInOrder, CopiesAreMade,
                    NothingIsForgotten, ExitIsTrue

\* Every step of a run, and every file that another program creates, keeps it.
LEMMA CommandContinues ==
  ASSUME CommandInvariant, [CommandNext]_commandVars
  PROVE  CommandInvariant'
<1> USE DEF CommandInvariant
<1> USE DEF CommandTypes, StepsInOrder, CopiesAreMade, NothingIsForgotten, ExitIsTrue
<1> USE DEF commandVars, tree, Exit, Throw
<1>1. CASE Interrupt
  BY <1>1 DEF Interrupt
<1>2. CASE EndInterrupted
  <2>1. exit = -1 /\ interrupted = TRUE /\ agent = "none" /\ exit' = 130 /\ agent' = "none"
    BY <1>2 DEF EndInterrupted
  <2>2. UNCHANGED <<tree, target, content, output, todo, copied, step, interrupted>>
    BY <1>2 DEF EndInterrupted
  <2>3. ExitIsTrue'
    BY <2>1, <2>2
  <2>4. CommandTypes' /\ StepsInOrder' /\ CopiesAreMade' /\ NothingIsForgotten'
    BY <2>1, <2>2
  <2> QED BY <2>3, <2>4
<1>3. CASE Parse
  BY <1>3 DEF Parse
<1>4. CASE Display
  BY <1>4 DEF Display
<1>5. CASE Connect
  BY <1>5, PathAssumption DEF Connect
<1>6. CASE Fails
  BY <1>6 DEF Fails
<1>7. CASE PrepareCapture
  BY <1>7 DEF PrepareCapture
<1>8. CASE WriteCapture
  BY <1>8 DEF WriteCapture
<1>9. CASE OtherCreates
  BY <1>9 DEF OtherCreates
<1>10. ASSUME NEW p \in Path, CopyDirectory(p) PROVE CommandInvariant'
  <2> USE <1>10 DEF CopyDirectory, Turn, EntryTypes, Entries
  <2>1. CommandTypes'
    BY DEF Children
  <2>2. CopiesAreMade'
    OBVIOUS
  <2>3. NothingIsForgotten'
    BY DEF Children
  <2> QED BY <2>1, <2>2, <2>3
<1>11. ASSUME NEW p \in Path, CopyFile(p) PROVE CommandInvariant'
  <2> USE <1>11 DEF CopyFile, Turn, EntryTypes, Entries
  <2>1. CommandTypes'
    OBVIOUS
  <2>2. CopiesAreMade'
    OBVIOUS
  <2>3. NothingIsForgotten'
    OBVIOUS
  <2> QED BY <2>1, <2>2, <2>3
<1>12. ASSUME NEW p \in Path, Conflict(p) PROVE CommandInvariant'
  BY <1>12 DEF Conflict, Turn
<1>13. CASE TransferEnds
  BY <1>13 DEF TransferEnds
<1>14. CASE Result
  BY <1>14 DEF Result
<1>15. CASE UNCHANGED commandVars
  BY <1>15
<1> QED BY <1>1, <1>2, <1>3, <1>4, <1>5, <1>6, <1>7, <1>8, <1>9, <1>10, <1>11, <1>12, <1>13,
           <1>14, <1>15 DEF CommandNext

\* When nothing is left to come, the whole source has been copied.
LEMMA WholeSourceIsCopied ==
  ASSUME CommandInvariant, step = "result", ~capture, NEW p \in Path, source[p] # "absent"
  PROVE  p \in copied
<1> DEFINE Missing == {q \in Path : source[q] # "absent" /\ q \notin copied}
           Lengths == {Len(q) : q \in Missing}
<1>1. SUFFICES ASSUME Missing # {} PROVE FALSE
  OBVIOUS
<1>2. Lengths \in SUBSET Nat /\ Lengths # {}
  <2>1. \A q \in Path : q \in Seq(Nat)
    BY PathAssumption
  <2>2. \A q \in Path : Len(q) \in Nat
    BY <2>1, LenProperties
  <2> QED BY <1>1, <2>2
<1>3. PICK n \in Lengths : \A m \in Lengths : n <= m
  BY <1>2, FirstExists
<1>4. PICK q \in Missing : \A r \in Missing : Len(q) <= Len(r)
  BY <1>3
<1>5. todo = {} /\ <<>> \in copied
  BY DEF CommandInvariant, StepsInOrder, NothingIsForgotten
<1>6. q # <<>>
  BY <1>4, <1>5
<1>7. Parent(q) \in Path /\ Len(q) \in Nat /\ Len(Parent(q)) \in Nat /\ Len(Parent(q)) < Len(q)
  BY <1>4, <1>6, ParentIsShorter
<1>8. source[Parent(q)] = "directory"
  BY <1>4, <1>6 DEF CommandInvariant, CommandTypes
<1>9. Parent(q) \in copied
  BY <1>4, <1>7, <1>8
<1> QED BY <1>4, <1>5, <1>6, <1>9 DEF CommandInvariant, NothingIsForgotten

\* At every moment of every run of arctl, over any trees: the transfer merges and the
\* exit code tells what happened (main, copyTarget).
THEOREM CommandIsAlwaysHonest == CommandSpec => []CommandIsHonest
<1>1. CommandInit => CommandInvariant
  BY CommandStarts
<1>2. CommandInvariant /\ [CommandNext]_commandVars => CommandInvariant'
  BY CommandContinues
<1>3. CommandInvariant => CommandIsHonest
  <2> SUFFICES ASSUME CommandInvariant PROVE TransfersMerge /\ ExitCodeTells
    BY DEF CommandIsHonest
  <2>1. TransfersMerge
    <3>1. \A p \in Path : /\ before[p] # "absent" => target[p] = before[p]
                          /\ target[p] # before[p] \/ content[p] = "arctl" =>
                               source[p] = target[p] /\ p \in copied
      BY DEF CommandInvariant, CopiesAreMade
    <3>2. ASSUME step = "result", ~capture, NEW p \in Path, source[p] # "absent"
          PROVE  target[p] = source[p] /\ (source[p] = "file" => content[p] = "arctl")
      BY <3>2, WholeSourceIsCopied DEF CommandInvariant, CopiesAreMade
    <3> QED BY <3>1, <3>2 DEF TransfersMerge
  <2>2. ExitCodeTells
    <3> USE DEF CommandInvariant, CommandTypes, StepsInOrder, NothingIsForgotten, ExitIsTrue
    <3>1. exit = 0 => /\ ~interrupted
                      /\ step = "displayed" => agent = "none" /\ copied = {}
                      /\ step # "displayed" /\ capture => output = <<"arctl">>
                      /\ step # "displayed" /\ ~capture => todo = {} /\ copied # {}
      OBVIOUS
    <3>2. exit = 2 => agent = "none" /\ copied = {} /\ "arctl" \notin ToSet(output)
      BY DEF ToSet
    <3>3. Len(output) <= 1
      <4>1. output = <<>> \/ output = <<"other">> \/ output = <<"arctl">>
        OBVIOUS
      <4>2. Len(<<>>) = 0 /\ Len(<<"other">>) = 1 /\ Len(<<"arctl">>) = 1
        BY ONLY TRUE
      <4>3. CASE output = <<>>
        BY ONLY <4>2, <4>3
      <4>4. CASE output = <<"other">>
        BY ONLY <4>2, <4>4
      <4>5. CASE output = <<"arctl">>
        BY ONLY <4>2, <4>5
      <4> QED BY <4>1, <4>3, <4>4, <4>5
    <3>4. exit # -1 => (exit = 130) = interrupted
      OBVIOUS
    <3> QED BY <3>1, <3>2, <3>3, <3>4 DEF ExitCodeTells
  <2> QED BY <2>1, <2>2
<1> QED BY <1>1, <1>2, <1>3, PTL DEF CommandSpec

-----------------------------------------------------------------------------
(* Diagnostics: the capture of a failure and the bundle it is saved in.      *)

\* The sequence is the end of the numbers up to the last one sent.
IsRecent(entries, last) ==
  /\ entries \in Seq(Nat) /\ Len(entries) = IF last < MaxRecent THEN last ELSE MaxRecent
  /\ \A n \in 1..Len(entries) : entries[n] = last - Len(entries) + n

\* The types, and that the attachments are handled in order.
DiagnosticsTypes ==
  /\ wrapped \in BOOLEAN
  /\ diagnosticsPhase \in {"operation", "desktop", "windows", "visit", "eventLogs",
                           "attachments", "files", "done"}
  /\ requests \in Nat /\ open \subseteq Window /\ captured \in Seq(Window)
  /\ visit \in Seq(Window \X Int) /\ trace.sent \in Nat
  /\ attached \in 0..Len(Given) /\ errors \subseteq 1..attached
  /\ save \in {"none", "error", "saved"}

\* The trace, now and when it was copied, is the end of what was sent.
TraceIsRecent ==
  IsRecent(recent, requests) /\ (trace.sent > 0 => IsRecent(trace.recent, trace.sent))

\* What is captured is a top-level window or below one captured before, and so is what
\* is to be captured.
Reached(w, windows, last) == w \in Roots \/ \E m \in 1..last : w \in Below[windows[m]]
WindowsAreReached ==
  /\ \A n \in 1..Len(captured) : Reached(captured[n], captured, n - 1)
  /\ \A n \in 1..Len(visit) : Reached(visit[n][1], captured, Len(captured))

\* How the bundle and the wrapped operation ended tells what came before.
EndIsTrue ==
  /\ diagnosticsPhase # "done" => save = "none" /\ outcome = "none" /\ manifest = <<>>
  /\ diagnosticsPhase = "done" =>
       outcome = IF ~wrapped THEN save ELSE IF save = "none" THEN "result" ELSE "operation error"

\* The files that the bundle itself writes.
OwnFiles == BaseFiles \cup {ManifestFile}

\* How old a listed file may be.
OldEnough(a) ==
  \/ bundleFiles[a[2]] >= a[1]
  \/ a[2] \in OwnFiles /\ bundleFiles[a[2]] = 0
  \/ Given[a[1]].kind = "remoteDirectory"

\* The list of the artifacts, the errors and the files agree.
ListIsTrue ==
  /\ \A a \in artifacts :
       a[1] \in (1..attached) \ errors /\ a[2] \in DOMAIN bundleFiles /\ OldEnough(a)
  /\ \A path \in DOMAIN bundleFiles :
       /\ bundleFiles[path] \in Before..attached
       /\ bundleFiles[path] \in (1..attached) \ errors => <<bundleFiles[path], path>> \in artifacts
  /\ \A n \in (1..attached) \ errors : Given[n].kind # "remoteDirectory" =>
       \A path \in AttachmentFiles(Given[n]) : <<n, path>> \in artifacts

\* When the manifest is written everything else has been.
BundleIsKept ==
  /\ ListIsTrue
  /\ diagnosticsPhase = "files" \/ manifest # <<>> =>
       attached = Len(Given) /\ \A path \in BaseFiles : path \in DOMAIN bundleFiles /\ bundleFiles[path] = 0
  /\ manifest # <<>> =>
       /\ manifest = <<({0} \X BaseFiles) \cup artifacts, errors>>
       /\ ManifestFile \in DOMAIN bundleFiles /\ bundleFiles[ManifestFile] = 0

\* The inductive invariant of withDiagnostics and saveDiagnostics.
DiagnosticsInvariant ==
  DiagnosticsTypes /\ TraceIsRecent /\ WindowsAreReached /\ EndIsTrue /\ BundleIsKept

-----------------------------------------------------------------------------
\* One more request is sent: the sequence stays the end of what was sent.
LEMMA RecentIsAppended ==
  ASSUME NEW entries, NEW last \in Nat, IsRecent(entries, last)
  PROVE  IsRecent(appendRecent(entries, last + 1), last + 1)
<1> DEFINE all == Append(entries, last + 1)
           size == Len(entries)
<1>1. size \in Nat /\ entries \in Seq(Nat) /\ size = IF last < MaxRecent THEN last ELSE MaxRecent
  BY LenProperties DEF IsRecent
<1>2. /\ all \in Seq(Nat) /\ Len(all) = size + 1
      /\ \A n \in 1..size : all[n] = last - size + n
      /\ all[size + 1] = last + 1
  BY <1>1, AppendProperties DEF IsRecent
<1> HIDE DEF all
<1>3. CASE last < MaxRecent
  <2>1. size + 1 <= MaxRecent /\ size = last
    BY <1>1, <1>3, RecentAssumption
  <2>2. appendRecent(entries, last + 1) = all
    BY <1>2, <2>1, RecentAssumption DEF appendRecent, all
  <2> HIDE DEF size
  <2>3. \A n \in 1..(size + 1) : all[n] = (last + 1) - (size + 1) + n
    BY <1>1, <1>2, <2>1
  <2>4. last + 1 = IF last + 1 < MaxRecent THEN last + 1 ELSE MaxRecent
    BY <2>1, RecentAssumption
  <2> QED BY <1>2, <2>1, <2>2, <2>3, <2>4 DEF IsRecent
<1>4. CASE ~(last < MaxRecent)
  <2> DEFINE rest == SubSeq(all, 2, size + 1)
  <2>1. size = MaxRecent /\ size \in Nat \ {0} /\ size + 1 - MaxRecent + 1 = 2
    BY <1>1, <1>4, RecentAssumption
  <2>2. appendRecent(entries, last + 1) = rest
    BY <1>2, <2>1, RecentAssumption DEF appendRecent, all
  <2> HIDE DEF size
  <2>3. \A i \in 2..(size + 1) : all[i] \in Nat
    BY <1>2, <2>1, ElementOfSeq
  <2>4. /\ rest \in Seq(Nat)
        /\ Len(rest) = IF 2 <= size + 1 THEN (size + 1) - 2 + 1 ELSE 0
        /\ \A i \in 1..((size + 1) - 2 + 1) : rest[i] = all[2 + i - 1]
    <3>1. 2 \in Int /\ size + 1 \in Int
      BY <2>1
    <3> QED BY <2>3, <3>1, SubSeqProperties
  <2> HIDE DEF rest
  <2>5. Len(rest) = size
    BY <2>1, <2>4
  <2>6. \A n \in 1..size : rest[n] = (last + 1) - size + n
    <3> SUFFICES ASSUME NEW n \in 1..size PROVE rest[n] = (last + 1) - size + n
      OBVIOUS
    <3>1. rest[n] = all[n + 1]
      BY <2>1, <2>4
    <3>2. CASE n < size
      BY <1>2, <2>1, <3>1, <3>2
    <3>3. CASE n = size
      BY <1>2, <2>1, <3>1, <3>3
    <3> QED BY <2>1, <3>2, <3>3
  <2>7. MaxRecent = IF last + 1 < MaxRecent THEN last + 1 ELSE MaxRecent
    BY <1>4, RecentAssumption
  <2> QED BY <2>1, <2>2, <2>4, <2>5, <2>6, <2>7 DEF IsRecent
<1> QED BY <1>3, <1>4

\* A listing of some windows holds these windows.
LEMMA ListingIsThem ==
  ASSUME NEW S, S \subseteq Window, NEW listed \in SetToSeqs(S), NEW depth \in Int
  PROVE  /\ ToVisit(listed, depth) \in Seq(Window \X Int)
         /\ \A n \in 1..Len(ToVisit(listed, depth)) : ToVisit(listed, depth)[n][1] \in S
<1> DEFINE entries == ToVisit(listed, depth)
<1>1. IsFiniteSet(S)
  BY WindowAssumption, FS_Subset
<1>2. Cardinality(S) \in Nat
  BY <1>1, FS_CardinalityType
<1>3. listed \in [1..Cardinality(S) -> S]
  BY DEF SetToSeqs
<1>4. listed \in Seq(S)
  BY <1>2, <1>3, SeqDef
<1>5. Len(listed) \in Nat /\ \A n \in 1..Len(listed) : listed[n] \in S
  BY <1>4, LenProperties, ElementOfSeq
<1>6. entries \in [1..Len(listed) -> Window \X Int]
  BY <1>5 DEF ToVisit
<1>7. entries \in Seq(Window \X Int) /\ Len(entries) = Len(listed)
  BY <1>5, <1>6, SeqDef, LenProperties
<1> QED BY <1>5, <1>7 DEF ToVisit

\* The attachments are a sequence of records.
LEMMA GivenIs ==
  /\ Len(Given) \in Nat /\ DOMAIN Given = 1..Len(Given)
  /\ \A n \in 1..Len(Given) : /\ Given[n].files \subseteq Seq(STRING) \ {<<>>}
                              /\ Given[n].name \in DOMAIN SafeSegment
<1> DEFINE Attachment == [name : DOMAIN SafeSegment, optional : BOOLEAN,
                          kind : {"remoteFile", "remoteDirectory", "managedProcess"},
                          files : SUBSET (Seq(STRING) \ {<<>>})]
<1>1. Given \in Seq(Attachment)
  BY AttachmentsAssumption DEF Given
<1>2. \A n \in 1..Len(Given) : Given[n] \in Attachment
  BY <1>1, ElementOfSeq
<1> QED BY <1>1, <1>2, LenProperties

\* One or two names are a sequence of names.
LEMMA NamesAreSeq ==
  ASSUME NEW S, NEW a \in S, NEW b \in S
  PROVE  <<a>> \in Seq(S) /\ <<a, b>> \in Seq(S)
OBVIOUS

\* What is written for a directory is found below it.
LEMMA FilesAreBelow ==
  ASSUME NEW n \in 1..Len(Given), Given[n].kind = "remoteDirectory",
         NEW path \in AttachmentFiles(Given[n])
  PROVE  IsStrictPrefix(AttachmentDirectory(Given[n]), path)
<1> DEFINE directory == AttachmentDirectory(Given[n])
           Part == STRING \cup {"attachments"}
<1>1. PICK file \in Given[n].files : path = directory \o file
  BY DEF AttachmentFiles
<1>2. file \in Seq(Part) /\ file # <<>>
  <2>1. file \in Seq(STRING) /\ file # <<>>
    BY GivenIs
  <2>2. Len(file) \in Nat /\ file \in [1..Len(file) -> STRING]
    BY <2>1, LenProperties
  <2>3. file \in [1..Len(file) -> Part]
    BY <2>2
  <2> HIDE DEF Part
  <2> QED BY <2>1, <2>2, <2>3, SeqDef
<1>3. directory \in Seq(Part)
  <2> DEFINE segment == safePathSegment(Given[n].name)
  <2>1. segment \in Part
    <3>1. Given[n].name \in DOMAIN SafeSegment
      BY GivenIs
    <3> QED BY <3>1, AttachmentsAssumption DEF safePathSegment
  <2>2. directory = CASE segment = ".." -> <<>>
                      [] segment = "." -> <<"attachments">>
                      [] OTHER -> <<"attachments", segment>>
    BY DEF AttachmentDirectory
  <2>6. "attachments" \in Part
    OBVIOUS
  <2> HIDE DEF segment, directory, Part
  <2>3. CASE segment = ".."
    BY <2>2, <2>3
  <2>4. CASE segment = "."
    <3>1. directory = <<"attachments">>
      BY <2>2, <2>4
    <3> QED BY <2>6, <3>1, NamesAreSeq
  <2>5. CASE segment # ".." /\ segment # "."
    <3>1. directory = <<"attachments", segment>>
      BY <2>2, <2>5
    <3> QED BY <2>1, <2>6, <3>1, NamesAreSeq
  <2> QED BY <2>3, <2>4, <2>5
<1> HIDE DEF directory, Part
<1>4. /\ path \in Seq(Part) /\ Len(path) = Len(directory) + Len(file)
      /\ \A i \in 1..Len(directory) : path[i] = directory[i]
      /\ Len(directory) \in Nat /\ Len(file) \in Nat \ {0}
  BY <1>1, <1>2, <1>3, ConcatProperties, LenProperties, EmptySeq
<1> DEFINE size == Len(directory)
           front == SubSeq(path, 1, size)
<1>5. front = SubSeq(directory, 1, size)
  <2>1. \A i \in 1..size : path[i] \in Part /\ directory[i] \in Part
    BY <1>3, <1>4, ElementOfSeq
  <2>2. 1 \in Int /\ size \in Int /\ size - 1 + 1 = size
    BY <1>4
  <2> HIDE DEF size
  <2>3. /\ front \in Seq(Part) /\ Len(front) = IF 1 <= size THEN size - 1 + 1 ELSE 0
        /\ \A i \in 1..(size - 1 + 1) : front[i] = path[1 + i - 1]
    BY <2>1, <2>2, SubSeqProperties
  <2> DEFINE whole == SubSeq(directory, 1, size)
  <2>4. /\ whole \in Seq(Part) /\ Len(whole) = IF 1 <= size THEN size - 1 + 1 ELSE 0
        /\ \A i \in 1..(size - 1 + 1) : whole[i] = directory[1 + i - 1]
    BY <2>1, <2>2, SubSeqProperties
  <2> HIDE DEF front, whole
  <2>5. Len(front) = Len(whole) /\ \A i \in 1..Len(front) : front[i] = whole[i]
    <3>1. \A i \in 1..size : 1 + i - 1 = i
      OBVIOUS
    <3> QED BY <1>4, <2>2, <2>3, <2>4, <3>1 DEF size
  <2>6. front = whole
    BY <2>3, <2>4, <2>5, SeqEqual
  <2> QED BY <2>6 DEF whole
<1>6. IsPrefix(directory, path)
  BY <1>4, <1>5 DEF IsPrefix
<1>7. directory # path
  BY <1>4
<1> QED BY <1>6, <1>7 DEF IsStrictPrefix, directory

\* An operation begins in the invariant.
LEMMA DiagnosticsStarts == DiagnosticsInit => DiagnosticsInvariant
<1> SUFFICES ASSUME DiagnosticsInit PROVE DiagnosticsInvariant
  OBVIOUS
<1>1. Len(Given) \in Nat
  BY GivenIs
<1>2. DiagnosticsTypes
  BY <1>1 DEF DiagnosticsInit, DiagnosticsTypes
<1>3. IsRecent(<<>>, 0)
  BY RecentAssumption DEF IsRecent
<1>4. TraceIsRecent
  BY <1>3 DEF DiagnosticsInit, TraceIsRecent
<1>5. WindowsAreReached
  BY DEF DiagnosticsInit, WindowsAreReached
<1>6. ListIsTrue
  <2>1. \A path \in DOMAIN bundleFiles : bundleFiles[path] = -1
    BY DEF DiagnosticsInit, Before
  <2> QED BY <2>1 DEF DiagnosticsInit, ListIsTrue, Before
<1> QED BY <1>2, <1>4, <1>5, <1>6 DEF DiagnosticsInit, DiagnosticsInvariant, EndIsTrue, BundleIsKept

\* One or two requests are sent: the trace stays the end of what was sent.
LEMMA RequestsKeepRecent ==
  ASSUME DiagnosticsInvariant, SendRequest \/ SendTwoRequests
  PROVE  requests' \in Nat /\ IsRecent(recent, requests)'
<1>1. requests \in Nat /\ IsRecent(recent, requests)
  BY DEF DiagnosticsInvariant, DiagnosticsTypes, TraceIsRecent
<1>2. IsRecent(appendRecent(recent, requests + 1), requests + 1)
  BY <1>1, RecentIsAppended
<1>3. CASE SendRequest
  BY <1>1, <1>2, <1>3 DEF SendRequest
<1>4. CASE SendTwoRequests
  <2> DEFINE r == appendRecent(recent, requests + 1)
             k == requests + 1
  <2>1. IsRecent(r, k) /\ k \in Nat
    BY <1>1, <1>2
  <2> HIDE DEF r, k
  <2>2. IsRecent(appendRecent(r, k + 1), k + 1)
    BY <2>1, RecentIsAppended
  <2>3. requests' = k + 1 /\ recent' = appendRecent(r, k + 1)
    <3>1. requests + 2 = (requests + 1) + 1
      BY <1>1
    <3> QED BY <1>4, <3>1 DEF SendTwoRequests, r, k
  <2> QED BY <2>1, <2>2, <2>3
<1> QED BY <1>3, <1>4

\* Every step of the operation, of the capture and of the bundle keeps it.
LEMMA DiagnosticsContinues ==
  ASSUME DiagnosticsInvariant, [DiagnosticsNext]_diagnosticsVars
  PROVE  DiagnosticsInvariant'
<1> USE DEF DiagnosticsInvariant
<1> USE DEF diagnosticsVars, sent, captureVars, bundleVars, ending
<1>0. Len(Given) \in Nat
  BY GivenIs
<1>b. ASSUME UNCHANGED <<wrapped, attached, artifacts, errors, bundleFiles>> PROVE ListIsTrue'
  <2>1. ListIsTrue
    BY DEF BundleIsKept
  <2> QED BY <1>b, <2>1 DEF ListIsTrue, OldEnough, Given
<1>a. ASSUME UNCHANGED bundleVars, UNCHANGED wrapped, diagnosticsPhase' \notin {"files"} PROVE BundleIsKept'
  <2>1. ListIsTrue' /\ Given' = Given
    BY <1>a, <1>b DEF Given
  <2> QED BY <1>a, <2>1 DEF BundleIsKept
<1>1. CASE OperationRequest
  <2> USE <1>1 DEF OperationRequest
  <2>1. TraceIsRecent' /\ DiagnosticsTypes'
    BY RequestsKeepRecent DEF TraceIsRecent, DiagnosticsTypes, Given
  <2> QED BY <2>1, <1>a DEF WindowsAreReached, Reached, EndIsTrue
<1>2. CASE OperationSucceeds
  <2> USE <1>2 DEF OperationSucceeds
  <2> QED BY <1>a DEF DiagnosticsTypes, TraceIsRecent, WindowsAreReached, Reached, EndIsTrue, Given
<1>3. CASE OperationFails
  <2> USE <1>3 DEF OperationFails
  <2> QED BY <1>a DEF DiagnosticsTypes, TraceIsRecent, WindowsAreReached, Reached, EndIsTrue, Given
<1>4. CASE WindowCloses
  <2> USE <1>4 DEF WindowCloses
  <2> QED BY <1>a DEF DiagnosticsTypes, TraceIsRecent, WindowsAreReached, Reached, EndIsTrue, Given
<1>5. CASE CaptureFails
  <2> USE <1>5 DEF CaptureFails, EndSave
  <2> QED BY <1>a DEF DiagnosticsTypes, TraceIsRecent, WindowsAreReached, Reached, EndIsTrue, Given
<1>6. CASE CaptureDesktop
  <2> USE <1>6 DEF CaptureDesktop
  <2>1. TraceIsRecent' /\ DiagnosticsTypes'
    BY RequestsKeepRecent DEF TraceIsRecent, DiagnosticsTypes, Given
  <2> QED BY <2>1, <1>a DEF WindowsAreReached, Reached, EndIsTrue
<1>7. CASE CaptureWindows
  <2> USE <1>7 DEF CaptureWindows
  <2>0. PICK depth \in {0, MaxDepth}, listed \in SetToSeqs(Roots \cap open) :
          visit' = ToVisit(listed, depth)
    OBVIOUS
  <2>1. visit' \in Seq(Window \X Int) /\ \A n \in 1..Len(visit') : visit'[n][1] \in Roots
    <3>1. depth \in Int /\ Roots \cap open \subseteq Window
      BY WindowAssumption, DepthAssumption
    <3> QED BY <2>0, <3>1, ListingIsThem
  <2>2. TraceIsRecent' /\ DiagnosticsTypes'
    BY <2>1, RequestsKeepRecent DEF TraceIsRecent, DiagnosticsTypes, Given
  <2>3. WindowsAreReached'
    BY <2>1 DEF WindowsAreReached, Reached
  <2> QED BY <2>2, <2>3, <1>a DEF EndIsTrue
<1>8. CASE VisitWindow
  <2> USE <1>8 DEF VisitWindow
  <2> DEFINE window == Head(visit)[1]
             depth == Head(visit)[2]
  <2>1. /\ window \in Window /\ depth \in Int /\ Reached(window, captured, Len(captured))
        /\ Tail(visit) \in Seq(Window \X Int) /\ Len(Tail(visit)) = Len(visit) - 1
        /\ \A n \in 1..(Len(visit) - 1) : Tail(visit)[n] = visit[n + 1]
        /\ Len(visit) \in Nat \ {0}
    <3>1. visit \in Seq(Window \X Int) /\ visit # <<>>
      BY DEF DiagnosticsTypes
    <3>2. /\ Head(visit) \in Window \X Int /\ Tail(visit) \in Seq(Window \X Int)
          /\ Len(Tail(visit)) = Len(visit) - 1
          /\ \A n \in 1..Len(Tail(visit)) : Tail(visit)[n] = visit[n + 1]
      BY <3>1, HeadTailProperties
    <3>3. Len(visit) \in Nat \ {0} /\ Head(visit) = visit[1]
      BY <3>1, EmptySeq, LenProperties
    <3> QED BY <3>2, <3>3 DEF WindowsAreReached
  <2> DEFINE last == Len(captured)
  <2>2. /\ captured' \in Seq(Window) /\ Len(captured') = last + 1 /\ last \in Nat
        /\ \A n \in 1..last : captured'[n] = captured[n]
        /\ captured'[last + 1] = window
    <3>1. captured \in Seq(Window) /\ captured' = Append(captured, window)
      BY DEF DiagnosticsTypes
    <3> HIDE DEF window
    <3> QED BY <2>1, <3>1, AppendProperties, LenProperties
  <2>3. \A w : \A k \in 0..last : Reached(w, captured, k) => Reached(w, captured', k) /\ Reached(w, captured', last + 1)
    <3> HIDE DEF last
    <3> QED BY <2>2 DEF Reached
  <2>4. \A n \in 1..Len(Tail(visit)) : Reached(Tail(visit)[n][1], captured', last + 1)
    <3> SUFFICES ASSUME NEW n \in 1..Len(Tail(visit))
                 PROVE  Reached(Tail(visit)[n][1], captured', last + 1)
      OBVIOUS
    <3>1. Tail(visit)[n] = visit[n + 1] /\ n + 1 \in 1..Len(visit)
      BY <2>1
    <3>2. Reached(visit[n + 1][1], captured, last)
      BY <3>1 DEF WindowsAreReached
    <3> QED BY <2>2, <2>3, <3>1, <3>2
  <2>5. \A n \in 1..Len(captured') : Reached(captured'[n], captured', n - 1)
    <3> SUFFICES ASSUME NEW n \in 1..(last + 1) PROVE Reached(captured'[n], captured', n - 1)
      BY <2>2
    <3>1. CASE n \in 1..last
      <4>1. Reached(captured[n], captured, n - 1) /\ n - 1 \in 0..last
        BY <2>2, <3>1 DEF WindowsAreReached
      <4> QED BY <2>2, <2>3, <3>1, <4>1
    <3>2. CASE n = last + 1
      <4>1. captured'[n] = window /\ n - 1 = last /\ last \in 0..last
        BY <2>2, <3>2
      <4>2. Reached(window, captured, last)
        BY <2>1
      <4> HIDE DEF window, last
      <4> QED BY <2>3, <4>1, <4>2
    <3> QED BY <2>2, <3>1, <3>2
  <2>6. CASE depth <= 0
    <3>1. visit' = Tail(visit) /\ UNCHANGED sent
      BY <2>6
    <3> QED BY <3>1, <2>1, <2>2, <2>4, <2>5, <1>a
            DEF DiagnosticsTypes, TraceIsRecent, WindowsAreReached, EndIsTrue, Given
  <2>7. CASE ~(depth <= 0)
    <3>1. SendRequest
      BY <2>7
    <3>2. PICK listed \in SetToSeqs(Below[window] \cap open) :
            visit' = ToVisit(listed, depth - 1) \o Tail(visit)
      BY <2>7
    <3> DEFINE below == ToVisit(listed, depth - 1)
    <3>3. below \in Seq(Window \X Int) /\ \A n \in 1..Len(below) : below[n][1] \in Below[window]
      <4> DEFINE S == Below[window] \cap open
                 less == depth - 1
      <4>1. less \in Int /\ S \subseteq Window /\ listed \in SetToSeqs(S)
        <5> HIDE DEF window, depth
        <5>1. less \in Int
          BY <2>1
        <5>2. S \subseteq Window
          BY <2>1, WindowAssumption
        <5> QED BY <5>1, <5>2
      <4> HIDE DEF S, less
      <4>2. /\ ToVisit(listed, less) \in Seq(Window \X Int)
            /\ \A n \in 1..Len(ToVisit(listed, less)) : ToVisit(listed, less)[n][1] \in S
        BY <4>1, ListingIsThem
      <4> QED BY <4>2 DEF S, less
    <3> HIDE DEF below, window, depth
    <3>4. visit' = below \o Tail(visit)
      BY <3>2 DEF below, depth
    <3>5. /\ visit' \in Seq(Window \X Int) /\ Len(visit') = Len(below) + Len(Tail(visit))
          /\ Len(below) \in Nat /\ Len(Tail(visit)) \in Nat
          /\ \A n \in 1..(Len(below) + Len(Tail(visit))) :
               visit'[n] = IF n <= Len(below) THEN below[n] ELSE Tail(visit)[n - Len(below)]
      BY <2>1, <3>3, <3>4, ConcatProperties, LenProperties
    <3>6. \A n \in 1..Len(visit') : Reached(visit'[n][1], captured', last + 1)
      <4> SUFFICES ASSUME NEW n \in 1..Len(visit') PROVE Reached(visit'[n][1], captured', last + 1)
        OBVIOUS
      <4>1. CASE n <= Len(below)
        <5>1. visit'[n] = below[n] /\ below[n][1] \in Below[window]
          BY <3>3, <3>5, <4>1
        <5>2. last + 1 \in 1..(last + 1)
          BY <2>2
        <5> QED BY <2>2, <5>1, <5>2 DEF Reached
      <4>2. CASE ~(n <= Len(below))
        <5>1. visit'[n] = Tail(visit)[n - Len(below)] /\ n - Len(below) \in 1..Len(Tail(visit))
          BY <3>5, <4>2
        <5> QED BY <2>4, <5>1
      <4> QED BY <4>1, <4>2
    <3>7. requests' \in Nat /\ IsRecent(recent, requests)'
      BY <3>1, RequestsKeepRecent
    <3> QED BY <3>5, <3>6, <3>7, <2>2, <2>5, <1>a
            DEF DiagnosticsTypes, TraceIsRecent, WindowsAreReached, EndIsTrue, Given
  <2> QED BY <2>6, <2>7
<1>9. CASE CaptureCursor
  <2> USE <1>9 DEF CaptureCursor
  <2>1. TraceIsRecent' /\ DiagnosticsTypes'
    BY RequestsKeepRecent DEF TraceIsRecent, DiagnosticsTypes, Given
  <2> QED BY <2>1, <1>a DEF WindowsAreReached, Reached, EndIsTrue
<1>10. CASE CaptureEventLogs
  <2> USE <1>10 DEF CaptureEventLogs
  <2>1. TraceIsRecent' /\ DiagnosticsTypes'
    BY RequestsKeepRecent DEF TraceIsRecent, DiagnosticsTypes, Given
  <2> QED BY <2>1, <1>a DEF WindowsAreReached, Reached, EndIsTrue
<1>11. CASE SaveAttachment
  <2> USE <1>11, <1>0 DEF SaveAttachment
  <2> DEFINE n == attached + 1
             files == AttachmentFiles(Given[n])
  <2>1. n \in 1..Len(Given) /\ attached' = n /\ attached \in Nat
    BY DEF DiagnosticsTypes
  <2>2. PICK written \in SUBSET files :
          /\ WriteFiles(written, n)
          /\ \/ /\ artifacts' = artifacts \cup EntriesFor(n, written) /\ errors' = errors
                /\ Given[n].kind # "remoteDirectory" => written = files
             \/ errors' = errors \cup {n} /\ artifacts' = artifacts
    BY DEF Complete
  <2>3. DiagnosticsTypes'
    <3>1. errors \subseteq 1..attached /\ Given' = Given
      BY DEF DiagnosticsTypes, Given
    <3>2. attached' \in 0..Len(Given')
      BY <2>1, <3>1
    <3>3. 1..attached \subseteq 1..n /\ n \in 1..n
      BY <2>1
    <3>4. errors' \subseteq 1..attached'
      BY <2>1, <2>2, <3>1, <3>3
    <3>5. UNCHANGED <<wrapped, diagnosticsPhase, requests, open, captured, visit, trace, save>>
      OBVIOUS
    <3> HIDE DEF SaveAttachment
    <3> QED BY <3>2, <3>4, <3>5 DEF DiagnosticsTypes
  <2>4. ListIsTrue /\ Given' = Given /\ errors \subseteq 1..attached
    BY DEF Given, BundleIsKept, DiagnosticsTypes
  <2>5. /\ DOMAIN bundleFiles' = DOMAIN bundleFiles \cup written
        /\ \A path \in DOMAIN bundleFiles' :
             bundleFiles'[path] = IF path \in written THEN n ELSE bundleFiles[path]
    BY <2>2 DEF WriteFiles
  <2>6. ASSUME NEW a \in artifacts
        PROVE  /\ a[1] \in (1..n) \ errors' /\ a[2] \in DOMAIN bundleFiles'
               /\ OldEnough(a)'
    <3>1. a[1] \in (1..attached) \ errors /\ a[2] \in DOMAIN bundleFiles /\ OldEnough(a)
      BY <2>4 DEF ListIsTrue
    <3>2. a[1] \in (1..n) \ errors'
      BY <2>1, <2>2, <3>1
    <3>3. CASE a[2] \in written
      <4>1. bundleFiles'[a[2]] = n /\ n >= a[1]
        BY <2>1, <2>5, <3>1, <3>3
      <4> QED BY <2>5, <3>1, <3>2, <4>1 DEF OldEnough
    <3>4. CASE a[2] \notin written
      BY <2>4, <2>5, <3>1, <3>2, <3>4 DEF OldEnough
    <3> QED BY <3>3, <3>4
  <2>7. ASSUME NEW a \in EntriesFor(n, written), artifacts' = artifacts \cup EntriesFor(n, written), errors' = errors
        PROVE  /\ a[1] \in (1..n) \ errors' /\ a[2] \in DOMAIN bundleFiles'
               /\ OldEnough(a)'
    <3>1. a[1] = n /\ n \in (1..n) \ errors'
      BY <2>1, <2>4, <2>7 DEF EntriesFor
    <3>2. CASE Given[n].kind = "remoteDirectory"
      <4>1. a[2] \in DOMAIN bundleFiles \cup written
        BY <3>2 DEF EntriesFor, listLocalArtifactFiles
      <4> QED BY <2>4, <2>5, <3>1, <3>2, <4>1 DEF OldEnough
    <3>3. CASE Given[n].kind # "remoteDirectory"
      <4>1. a[2] \in written
        BY <3>3 DEF EntriesFor
      <4>2. bundleFiles'[a[2]] >= a[1]
        BY <2>1, <2>5, <3>1, <4>1
      <4> QED BY <2>5, <3>1, <4>1, <4>2 DEF OldEnough
    <3> QED BY <3>2, <3>3
  <2>8. ASSUME NEW path \in written, artifacts' = artifacts \cup EntriesFor(n, written)
        PROVE  <<n, path>> \in artifacts'
    <3>1. Given[n].kind = "remoteDirectory" => IsStrictPrefix(AttachmentDirectory(Given[n]), path)
      BY <2>1, FilesAreBelow
    <3>2. <<n, path>> \in EntriesFor(n, written)
      BY <3>1 DEF EntriesFor, listLocalArtifactFiles
    <3> QED BY <2>8, <3>2
  <2>9. ASSUME NEW path \in DOMAIN bundleFiles'
        PROVE  /\ bundleFiles'[path] \in Before..n
               /\ bundleFiles'[path] \in (1..n) \ errors' => <<bundleFiles'[path], path>> \in artifacts'
    <3>1. CASE path \in written
      <4>1. bundleFiles'[path] = n /\ n \in Before..n
        BY <2>1, <2>5, <3>1 DEF Before
      <4> QED BY <2>2, <2>8, <3>1, <4>1
    <3>2. CASE path \notin written
      <4>1. /\ bundleFiles'[path] = bundleFiles[path] /\ bundleFiles[path] \in Before..attached
            /\ bundleFiles[path] \in (1..attached) \ errors => <<bundleFiles[path], path>> \in artifacts
        BY <2>4, <2>5, <3>2 DEF ListIsTrue
      <4>2. bundleFiles[path] \in Before..n /\ bundleFiles[path] # n
        BY <2>1, <4>1 DEF Before
      <4>3. bundleFiles[path] \in (1..n) \ errors' => bundleFiles[path] \in (1..attached) \ errors
        BY <2>1, <2>2, <4>2
      <4> QED BY <2>2, <4>1, <4>2, <4>3
    <3> QED BY <3>1, <3>2
  <2>10. ASSUME NEW m \in (1..n) \ errors', Given[m].kind # "remoteDirectory",
                NEW path \in AttachmentFiles(Given[m])
         PROVE  <<m, path>> \in artifacts'
    <3>1. CASE m = n
      <4>1. artifacts' = artifacts \cup EntriesFor(n, written) /\ written = files
        BY <2>2, <2>10, <3>1
      <4> QED BY <2>8, <2>10, <3>1, <4>1
    <3>2. CASE m # n
      <4>1. m \in (1..attached) \ errors
        BY <2>1, <2>2, <3>2
      <4>2. <<m, path>> \in artifacts
        BY <2>4, <2>10, <4>1 DEF ListIsTrue
      <4> QED BY <2>2, <4>2
    <3> QED BY <3>1, <3>2
  <2>11. ListIsTrue'
    <3>1. \A a \in artifacts' :
            /\ a[1] \in (1..n) \ errors' /\ a[2] \in DOMAIN bundleFiles' /\ OldEnough(a)'
      BY <2>2, <2>6, <2>7
    <3> HIDE DEF n
    <3> QED BY <2>1, <2>4, <2>9, <2>10, <3>1 DEF ListIsTrue
  <2>12. BundleIsKept'
    <3>1. manifest' = <<>> /\ diagnosticsPhase' = "attachments"
      BY DEF EndIsTrue
    <3> QED BY <2>11, <3>1 DEF BundleIsKept
  <2> QED BY <2>3, <2>12 DEF TraceIsRecent, WindowsAreReached, Reached, EndIsTrue
<1>c. ASSUME NEW paths \in SUBSET OwnFiles, WriteFiles(paths, 0),
             UNCHANGED <<wrapped, attached, artifacts, errors>>
      PROVE  ListIsTrue'
  <2>1. ListIsTrue /\ Given' = Given /\ attached \in Nat
    BY <1>0, <1>c DEF BundleIsKept, Given, DiagnosticsTypes
  <2>2. /\ DOMAIN bundleFiles' = DOMAIN bundleFiles \cup paths
        /\ \A path \in DOMAIN bundleFiles' :
             bundleFiles'[path] = IF path \in paths THEN 0 ELSE bundleFiles[path]
    BY <1>c DEF WriteFiles
  <2>3. \A a \in artifacts : OldEnough(a)'
    BY <2>1, <2>2, <1>c DEF ListIsTrue, OldEnough
  <2>4. ASSUME NEW path \in DOMAIN bundleFiles'
        PROVE  /\ bundleFiles'[path] \in Before..attached
               /\ bundleFiles'[path] \in (1..attached) \ errors => <<bundleFiles'[path], path>> \in artifacts
    <3>1. 0 \in Before..attached /\ 0 \notin 1..attached
      BY <2>1 DEF Before
    <3> QED BY <2>1, <2>2, <3>1 DEF ListIsTrue
  <2> QED BY <1>c, <2>1, <2>2, <2>3, <2>4 DEF ListIsTrue
<1>12. CASE SaveBaseFiles
  <2> USE <1>12 DEF SaveBaseFiles
  <2>1. BundleIsKept'
    <3>1. ListIsTrue'
      BY <1>c DEF OwnFiles
    <3>2. \A path \in BaseFiles : path \in DOMAIN bundleFiles' /\ bundleFiles'[path] = 0
      BY DEF WriteFiles
    <3>3. manifest' = <<>> /\ Given' = Given
      BY DEF EndIsTrue, Given
    <3> QED BY <3>1, <3>2, <3>3 DEF BundleIsKept
  <2> QED BY <2>1 DEF DiagnosticsTypes, TraceIsRecent, WindowsAreReached, Reached, EndIsTrue, Given
<1>13. CASE SaveManifest
  <2> USE <1>13 DEF SaveManifest, EndSave
  <2>1. BundleIsKept'
    <3>1. ListIsTrue' /\ Given' = Given
      BY <1>c DEF OwnFiles, Given
    <3>2. /\ \A path \in BaseFiles : path \in DOMAIN bundleFiles' /\ bundleFiles'[path] = 0
          /\ ManifestFile \in DOMAIN bundleFiles' /\ bundleFiles'[ManifestFile] = 0
      BY DEF WriteFiles, BundleIsKept
    <3> QED BY <3>1, <3>2 DEF BundleIsKept
  <2> QED BY <2>1 DEF DiagnosticsTypes, TraceIsRecent, WindowsAreReached, Reached, EndIsTrue, Given
<1>15. CASE UseCapture
  <2> USE <1>15 DEF UseCapture
  <2> QED BY <1>a DEF DiagnosticsTypes, TraceIsRecent, WindowsAreReached, Reached, EndIsTrue, Given
<1>14. CASE UNCHANGED diagnosticsVars
  <2>1. BundleIsKept'
    BY <1>14, <1>b DEF BundleIsKept, Given
  <2> QED BY <1>14, <2>1 DEF DiagnosticsTypes, TraceIsRecent, WindowsAreReached, Reached, EndIsTrue, Given
<1> QED BY <1>1, <1>2, <1>3, <1>4, <1>5, <1>6, <1>7, <1>8, <1>9, <1>10, <1>11, <1>12, <1>13,
           <1>14, <1>15 DEF DiagnosticsNext

\* At every moment of every run, with any windows, attachments and earlier files: a
\* manifest accounts for the files of the bundle, the trace of a capture is the end of what was sent, and no
\* error of the diagnostics hides the operation's (withDiagnostics, saveDiagnostics).
THEOREM BundleIsAlwaysTrue == DiagnosticsSpec => []BundleIsTrue
<1>1. DiagnosticsInit => DiagnosticsInvariant
  BY DiagnosticsStarts
<1>2. DiagnosticsInvariant /\ [DiagnosticsNext]_diagnosticsVars => DiagnosticsInvariant'
  BY DiagnosticsContinues
<1>3. DiagnosticsInvariant => BundleIsTrue
  <2> SUFFICES ASSUME DiagnosticsInvariant PROVE ManifestIsTrue /\ CaptureIsTrue
    BY DEF BundleIsTrue
  <2> USE DEF DiagnosticsInvariant
  <2>1. DOMAIN Given = 1..Len(Given) /\ Len(Given) \in Nat
    BY GivenIs
  <2>2. ManifestIsTrue
    <3> SUFFICES ASSUME manifest # <<>> PROVE ManifestIsTrue
      BY DEF ManifestIsTrue
    <3>1. /\ manifest[1] = ({0} \X BaseFiles) \cup artifacts /\ manifest[2] = errors
          /\ attached = Len(Given) /\ ListIsTrue
          /\ \A path \in OwnFiles : path \in DOMAIN bundleFiles /\ bundleFiles[path] = 0
      BY DEF BundleIsKept, OwnFiles
    <3>2. ASSUME NEW a \in manifest[1]
          PROVE  /\ a[2] \in DOMAIN bundleFiles /\ a[1] \notin manifest[2]
                 /\ \/ bundleFiles[a[2]] >= a[1]
                    \/ a[2] \in OwnFiles /\ bundleFiles[a[2]] = 0
                    \/ a[1] \in DOMAIN Given /\ Given[a[1]].kind = "remoteDirectory"
      <4>1. CASE a \in artifacts
        BY <2>1, <3>1, <4>1 DEF ListIsTrue, OldEnough
      <4>2. CASE a \in {0} \X BaseFiles
        <5>1. a[1] = 0 /\ a[2] \in OwnFiles /\ 0 \notin errors
          BY <4>2 DEF OwnFiles, DiagnosticsTypes
        <5> QED BY <3>1, <5>1
      <4> QED BY <3>1, <4>1, <4>2
    <3>3. \A path \in DOMAIN bundleFiles : bundleFiles[path] \in DOMAIN Given \ manifest[2] =>
            <<bundleFiles[path], path>> \in manifest[1]
      BY <2>1, <3>1 DEF ListIsTrue
    <3>4. \A n \in DOMAIN Given \ manifest[2] : Given[n].kind # "remoteDirectory" =>
            \A path \in AttachmentFiles(Given[n]) : <<n, path>> \in manifest[1]
      BY <2>1, <3>1 DEF ListIsTrue
    <3> QED BY <3>1, <3>2, <3>3, <3>4 DEF ManifestIsTrue, OwnFiles
  <2>3. CaptureIsTrue
    <3>1. trace.sent > 0 => DOMAIN trace.recent = 1..Len(trace.recent)
      BY LenProperties DEF TraceIsRecent, IsRecent
    <3>2. DOMAIN captured = 1..Len(captured)
      BY LenProperties DEF DiagnosticsTypes
    <3> QED BY <3>1, <3>2 DEF CaptureIsTrue, TraceIsRecent, IsRecent, EndIsTrue, WindowsAreReached, Reached
  <2> QED BY <2>2, <2>3
<1> QED BY <1>1, <1>2, <1>3, PTL DEF DiagnosticsSpec

-----------------------------------------------------------------------------
(* OCR: the workers that read.                                               *)

\* A read that has a worker, and a worker that runs.
Active(c) == read[c].phase \in {"creating", "recognizing"}
Alive(w) == worker[w] \in {"creating", "ready"}

\* The types, and that a read and a release have a worker when they need one.
ReadingTypes ==
  /\ shared \in BOOLEAN /\ worker \in Seq({"creating", "ready", "failed", "terminated"})
  /\ workerPromise \in 0..Len(worker) /\ queue \in Seq(Reading)
  /\ DOMAIN read = Reading
  /\ \A c \in Reading :
       /\ DOMAIN read[c] = {"phase", "worker", "attempts", "asked", "match"}
       /\ read[c].phase \in {"new", "refused", "queued", "creating", "recognizing", "text",
                             "error", "found", "invalid"}
       /\ read[c].worker \in Nat
       /\ Active(c) => read[c].worker \in 1..Len(worker)
       /\ read[c].phase = "recognizing" => worker[read[c].worker] \in {"ready", "terminated"}
  /\ release \in [Releaser -> [phase : {"idle", "waiting", "taking", "done", "error"},
                               before : SUBSET Reading, worker : Nat]]
  /\ \A r \in Releaser :
       /\ release[r].worker \in 0..Len(worker)
       /\ release[r].phase = "taking" => release[r].worker # 0
       /\ release[r].phase \in {"idle", "waiting"} => release[r].worker = 0

\* A worker of its own is made for every read and lives as long as it.
OwnWorkers ==
  ~shared =>
    /\ queue = <<>> /\ workerPromise = 0
    /\ \A c \in Reading : read[c].phase # "queued"
    /\ \A r \in Releaser : release[r].worker = 0
    /\ \A c \in Reading : Active(c) => worker[read[c].worker] # "terminated"
    /\ \A c, d \in Reading :
         Active(c) /\ Active(d) /\ read[c].worker = read[d].worker => c = d
    /\ \A w \in 1..Len(worker) : Alive(w) => \E c \in Reading : Active(c) /\ read[c].worker = w

\* The reads take turns, and a release takes the worker when those before it are done.
QueueInOrder ==
  shared =>
    /\ \A i, j \in 1..Len(queue) : queue[i] = queue[j] => i = j
    /\ \A c \in Reading : (\E i \in 1..Len(queue) : queue[i] = c) <=>
                            (Active(c) \/ read[c].phase = "queued")
    /\ \A c \in Reading : Active(c) => queue[1] = c
    /\ \A r \in Releaser : \A c \in release[r].before :
         /\ read[c].phase # "new"
         /\ release[r].phase \in {"taking", "done", "error"} =>
              \A i \in 1..Len(queue) : queue[i] # c

\* A living worker is the shared one, and so is what a release is about to terminate.
SharedWorker ==
  shared =>
    /\ workerPromise # 0 => worker[workerPromise] # "terminated"
    /\ \A w \in 1..Len(worker) : Alive(w) => w = workerPromise \/ Overlapped
    /\ \A r \in Releaser : release[r].phase = "taking" =>
         release[r].worker = workerPromise \/ Overlapped
    /\ \A c \in Reading : Active(c) /\ worker[read[c].worker] = "terminated" =>
         \E r \in Releaser : release[r].phase = "done" /\ c \notin release[r].before

\* The inductive invariant of the workers.
WorkersInvariant == ReadingTypes /\ OwnWorkers /\ QueueInOrder /\ SharedWorker

\* What a read keeps of a recognition.
KeptWord == [text : Text, box : {b \in Box : b[1] < b[2]}]
KeptAttempt == [confidence : Confidence, words : Seq(KeptWord)]

\* What a search found is what the search yields for what was recognized.
SearchesAreTrue ==
  \A c \in Reading :
    /\ read[c].attempts \in Seq(KeptAttempt)
    /\ read[c].phase = "found" =>
         read[c].match = findOcrTextMatch(read[c].attempts, read[c].asked.expected,
                                          read[c].asked.minConfidence)

-----------------------------------------------------------------------------
\* The controller begins without a worker, in the invariant.
LEMMA ReadingStarts == ReadingInit => WorkersInvariant
<1> SUFFICES ASSUME ReadingInit PROVE WorkersInvariant
  OBVIOUS
<1>1. worker \in Seq({"creating", "ready", "failed", "terminated"}) /\ Len(worker) = 0
      /\ queue \in Seq(Reading) /\ Len(queue) = 0
  BY DEF ReadingInit
<1>2. /\ DOMAIN read = Reading
      /\ \A c \in Reading : /\ DOMAIN read[c] = {"phase", "worker", "attempts", "asked", "match"}
                            /\ read[c].phase = "new" /\ read[c].worker = 0
  BY DEF ReadingInit
<1>3. /\ release \in [Releaser -> [phase : {"idle", "waiting", "taking", "done", "error"},
                                   before : SUBSET Reading, worker : Nat]]
      /\ \A r \in Releaser : release[r].phase = "idle" /\ release[r].before = {} /\ release[r].worker = 0
  BY DEF ReadingInit
<1> QED BY <1>1, <1>2, <1>3
        DEF ReadingInit, WorkersInvariant, ReadingTypes, OwnWorkers, QueueInOrder, SharedWorker,
            Active, Alive

\* What a change of the phase of one read leaves alone.
Kept(c) ==
  /\ DOMAIN read' = Reading /\ DOMAIN read'[c] = DOMAIN read[c]
  /\ \A d \in Reading : d # c => read'[d] = read[d]

\* A read is enqueued, or makes a worker of its own.
LEMMA RecognizeKeeps ==
  ASSUME WorkersInvariant, NEW c \in Reading, Recognize(c)
  PROVE  WorkersInvariant'
<1> USE DEF Active, Alive
<1>0. ReadingTypes /\ OwnWorkers /\ QueueInOrder /\ SharedWorker
  BY DEF WorkersInvariant
<1>1. read[c].phase = "new" /\ Len(worker) \in Nat /\ Len(queue) \in Nat
      /\ shared' = shared /\ workerPromise' = workerPromise /\ release' = release
  BY <1>0, LenProperties DEF Recognize, ReadingTypes
<1>2. CASE shared
  <2>1. queue' = Append(queue, c) /\ worker' = worker /\ read' = [read EXCEPT ![c].phase = "queued"]
    BY <1>0, <1>2 DEF Recognize
  <2>2. Kept(c) /\ read'[c].phase = "queued" /\ read'[c].worker = read[c].worker
    BY <1>0, <2>1 DEF ReadingTypes, Kept
  <2>3. /\ queue' \in Seq(Reading) /\ Len(queue') = Len(queue) + 1 /\ queue'[Len(queue) + 1] = c
        /\ \A i \in 1..Len(queue) : queue'[i] = queue[i]
    BY <1>0, <2>1, AppendProperties DEF ReadingTypes
  <2>4. ReadingTypes'
    BY <1>0, <1>1, <2>1, <2>2, <2>3 DEF ReadingTypes, Kept
  <2>5. QueueInOrder'
    <3>1. \A i \in 1..Len(queue) : queue[i] # c
      BY <1>0, <1>1, <1>2 DEF QueueInOrder
    <3>2. \A i, j \in 1..Len(queue') : queue'[i] = queue'[j] => i = j
      BY <1>0, <1>1, <1>2, <2>3, <3>1 DEF QueueInOrder
    <3>3. ASSUME NEW d \in Reading
          PROVE  (\E i \in 1..Len(queue') : queue'[i] = d) <=>
                   (Active(d)' \/ read'[d].phase = "queued")
      BY <1>0, <1>1, <1>2, <2>2, <2>3 DEF QueueInOrder, Kept
    <3>4. \A d \in Reading : Active(d)' => queue'[1] = d
      BY <1>0, <1>1, <1>2, <2>2, <2>3 DEF QueueInOrder, Kept
    <3>5. ASSUME NEW r \in Releaser, NEW d \in release[r].before
          PROVE  /\ read'[d].phase # "new"
                 /\ release[r].phase \in {"taking", "done", "error"} =>
                      \A i \in 1..Len(queue') : queue'[i] # d
      <4>1. d # c /\ d \in Reading
        BY <1>0, <1>1, <1>2 DEF QueueInOrder, ReadingTypes
      <4> QED BY <1>0, <1>1, <1>2, <2>2, <2>3, <4>1 DEF QueueInOrder, Kept
    <3> QED BY <1>0, <1>1, <3>2, <3>3, <3>4, <3>5 DEF QueueInOrder
  <2>6. SharedWorker'
    BY <1>0, <1>1, <1>2, <2>1, <2>2 DEF SharedWorker, Kept, Overlapped
  <2>7. OwnWorkers'
    BY <1>0, <1>1, <1>2 DEF OwnWorkers
  <2> QED BY <2>4, <2>5, <2>6, <2>7 DEF WorkersInvariant
<1>3. CASE ~shared
  <2> DEFINE w == Len(worker) + 1
  <2>1. /\ worker' = Append(worker, "creating") /\ queue' = queue
        /\ read' = [read EXCEPT ![c].phase = "creating", ![c].worker = w]
    BY <1>0, <1>3 DEF Recognize
  <2>2. Kept(c) /\ read'[c].phase = "creating" /\ read'[c].worker = w
    BY <1>0, <2>1 DEF ReadingTypes, Kept
  <2>3. /\ worker' \in Seq({"creating", "ready", "failed", "terminated"}) /\ Len(worker') = w
        /\ worker'[w] = "creating" /\ \A v \in 1..Len(worker) : worker'[v] = worker[v]
    BY <1>0, <2>1, AppendProperties DEF ReadingTypes
  <2>4. ReadingTypes'
    BY <1>0, <1>1, <2>1, <2>2, <2>3 DEF ReadingTypes, Kept
  <2>5. OwnWorkers'
    <3> DEFINE Held(d) == read[d].phase \in {"creating", "recognizing"}
    <3>1. /\ queue = <<>> /\ workerPromise = 0 /\ \A d \in Reading : read[d].phase # "queued"
          /\ \A r \in Releaser : release[r].worker = 0
      BY <1>0, <1>3 DEF OwnWorkers
    <3>2. \A d \in Reading : read'[d].phase \in {"creating", "recognizing"} =>
            d = c \/ (d # c /\ Held(d) /\ read'[d].worker = read[d].worker /\ read[d].worker \in 1..Len(worker))
      BY <1>0, <2>2 DEF Kept, ReadingTypes
    <3>3. \A d \in Reading : read'[d].phase \in {"creating", "recognizing"} =>
            worker'[read'[d].worker] # "terminated"
      BY <1>0, <1>3, <2>2, <2>3, <3>2 DEF OwnWorkers
    <3>4. \A d, e \in Reading :
            read'[d].phase \in {"creating", "recognizing"} /\
            read'[e].phase \in {"creating", "recognizing"} /\
            read'[d].worker = read'[e].worker => d = e
      BY <1>0, <1>1, <1>3, <2>2, <2>3, <3>2 DEF OwnWorkers
    <3>5. ASSUME NEW v \in 1..Len(worker'), worker'[v] \in {"creating", "ready"}
          PROVE  \E d \in Reading : /\ read'[d].phase \in {"creating", "recognizing"}
                                    /\ read'[d].worker = v
      <4>1. CASE v = w
        BY <1>0, <2>2, <4>1
      <4>2. CASE v \in 1..Len(worker)
        <5>1. PICK d \in Reading : Held(d) /\ read[d].worker = v
          BY <1>0, <1>3, <2>3, <3>5, <4>2 DEF OwnWorkers
        <5>2. d # c
          BY <1>0, <1>1, <5>1
        <5> QED BY <1>0, <2>2, <5>1, <5>2 DEF Kept
      <4> QED BY <1>0, <1>1, <2>3, <4>1, <4>2
    <3>6. \A d \in Reading : read'[d].phase # "queued"
      BY <1>0, <2>2, <3>1 DEF Kept
    <3> QED BY <1>0, <1>1, <2>1, <3>1, <3>3, <3>4, <3>5, <3>6 DEF OwnWorkers
  <2>6. QueueInOrder' /\ SharedWorker'
    BY <1>1, <1>3 DEF QueueInOrder, SharedWorker
  <2> QED BY <2>4, <2>5, <2>6 DEF WorkersInvariant
<1> QED BY <1>0, <1>2, <1>3 DEF ReadingTypes, WorkersInvariant

\* A read that neither waits nor recognizes changes to another such phase.
LEMMA RestKeeps ==
  ASSUME WorkersInvariant, NEW c \in Reading, ~Active(c), read[c].phase # "queued",
         shared' = shared, worker' = worker, workerPromise' = workerPromise,
         queue' = queue, release' = release, Kept(c),
         read'[c].phase \in {"refused", "text", "error", "found", "invalid"}, read'[c].worker = read[c].worker
  PROVE  WorkersInvariant'
<1> USE DEF Active, Alive
<1>0. ReadingTypes /\ OwnWorkers /\ QueueInOrder /\ SharedWorker
  BY DEF WorkersInvariant
<1>1. \A d \in Reading : /\ read'[d].worker = read[d].worker
                         /\ read'[d].phase = read[d].phase \/ d = c
  BY DEF Kept
<1>2. ReadingTypes'
  BY <1>0, <1>1 DEF ReadingTypes, Kept
<1>3. OwnWorkers'
  <2>1. ASSUME ~shared, NEW w \in 1..Len(worker), worker[w] \in {"creating", "ready"}
        PROVE  \E d \in Reading : read'[d].phase \in {"creating", "recognizing"} /\ read'[d].worker = w
    <3>1. PICK d \in Reading : read[d].phase \in {"creating", "recognizing"} /\ read[d].worker = w
      BY <1>0, <2>1 DEF OwnWorkers
    <3> QED BY <1>1, <3>1
  <2> QED BY <1>0, <1>1, <2>1 DEF OwnWorkers
<1>4. QueueInOrder'
  <2>1. ASSUME NEW d \in Reading
        PROVE  (read'[d].phase \in {"creating", "recognizing"} <=>
                  read[d].phase \in {"creating", "recognizing"})
               /\ (read'[d].phase = "queued" <=> read[d].phase = "queued")
               /\ (read[d].phase # "new" => read'[d].phase # "new")
    BY <1>1
  <2>2. ASSUME shared, NEW d \in Reading
        PROVE  (\E i \in 1..Len(queue) : queue[i] = d) <=>
                 (read'[d].phase \in {"creating", "recognizing"} \/ read'[d].phase = "queued")
    BY <1>0, <2>1, <2>2 DEF QueueInOrder
  <2>3. ASSUME shared, NEW r \in Releaser, NEW d \in release[r].before
        PROVE  /\ read'[d].phase # "new"
               /\ release[r].phase \in {"taking", "done", "error"} =>
                    \A i \in 1..Len(queue) : queue[i] # d
    <3>1. d \in Reading
      BY <1>0 DEF ReadingTypes
    <3> QED BY <1>0, <2>1, <2>3, <3>1 DEF QueueInOrder
  <2> QED BY <1>0, <2>1, <2>2, <2>3 DEF QueueInOrder
<1>5. SharedWorker'
  <2>1. Overlapped' <=> Overlapped
    BY DEF Overlapped
  <2> QED BY <1>0, <1>1, <2>1 DEF SharedWorker
<1> QED BY <1>2, <1>3, <1>4, <1>5 DEF WorkersInvariant

\* The read whose turn it is finds the shared worker or makes one.
LEMMA GetWorkerKeeps ==
  ASSUME WorkersInvariant, NEW c \in Reading, GetWorker(c)
  PROVE  WorkersInvariant'
<1> USE DEF Active, Alive
<1>0. ReadingTypes /\ OwnWorkers /\ QueueInOrder /\ SharedWorker
  BY DEF WorkersInvariant
<1> DEFINE w == IF workerPromise = 0 THEN Len(worker) + 1 ELSE workerPromise
<1>1. /\ read[c].phase = "queued" /\ Len(worker) \in Nat /\ Len(queue) \in Nat
      /\ shared' = shared /\ queue' = queue /\ release' = release /\ workerPromise' = w
      /\ Kept(c) /\ read'[c].phase = "creating" /\ read'[c].worker = w
  BY <1>0, LenProperties DEF GetWorker, ReadingTypes, Kept
<1>2. shared
  BY <1>0, <1>1 DEF OwnWorkers, ReadingTypes
<1>3. queue[1] = c
  <2>1. queue \in Seq(Reading) /\ queue # <<>>
    <3>1. \E i \in 1..Len(queue) : queue[i] = c
      BY <1>0, <1>1, <1>2 DEF QueueInOrder
    <3>2. Len(queue) # 0
      BY <1>0, <1>1, <3>1
    <3> QED BY <1>0, <3>2 DEF ReadingTypes
  <2> QED BY <1>0, <2>1, HeadTailProperties DEF GetWorker
<1>4. /\ worker' \in Seq({"creating", "ready", "failed", "terminated"})
      /\ Len(worker') \in Nat /\ Len(worker) <= Len(worker') /\ w \in 1..Len(worker')
      /\ \A v \in 1..Len(worker) : worker'[v] = worker[v]
      /\ worker'[w] # "terminated" /\ (\A v \in 1..Len(worker') : v \in 1..Len(worker) \/ v = w)
  <2>1. CASE workerPromise = 0
    <3>1. worker' = Append(worker, "creating")
      BY <1>0, <2>1 DEF GetWorker
    <3> QED BY <1>0, <1>1, <2>1, <3>1, AppendProperties DEF ReadingTypes
  <2>2. CASE workerPromise # 0
    <3>1. worker' = worker
      BY <1>0, <2>2 DEF GetWorker
    <3> QED BY <1>0, <1>1, <1>2, <2>2, <3>1 DEF ReadingTypes, SharedWorker
  <2> QED BY <1>0, <2>1, <2>2
<1> HIDE DEF w
<1>5. ReadingTypes'
  <2>1. ASSUME NEW d \in Reading
        PROVE  /\ DOMAIN read'[d] = {"phase", "worker", "attempts", "asked", "match"}
               /\ read'[d].phase \in {"new", "refused", "queued", "creating", "recognizing", "text",
                                     "error", "found", "invalid"}
               /\ read'[d].worker \in Nat
               /\ read'[d].phase \in {"creating", "recognizing"} => read'[d].worker \in 1..Len(worker')
               /\ read'[d].phase = "recognizing" => worker'[read'[d].worker] \in {"ready", "terminated"}
    <3>1. CASE d = c
      BY <1>0, <1>1, <1>4, <3>1 DEF ReadingTypes, Kept
    <3>2. CASE d # c
      <4>1. read'[d] = read[d]
        BY <1>1, <3>2 DEF Kept
      <4> QED BY <1>0, <1>1, <1>4, <4>1 DEF ReadingTypes
    <3> QED BY <3>1, <3>2
  <2>2. \A r \in Releaser : release[r].worker \in 0..Len(worker')
    BY <1>0, <1>1, <1>4 DEF ReadingTypes
  <2> QED BY <1>0, <1>1, <1>4, <2>1, <2>2 DEF ReadingTypes, Kept
<1>6. QueueInOrder'
  <2>1. ASSUME NEW d \in Reading
        PROVE  /\ (read'[d].phase \in {"creating", "recognizing"} \/ read'[d].phase = "queued") <=>
                  (read[d].phase \in {"creating", "recognizing"} \/ read[d].phase = "queued")
               /\ read'[d].phase \in {"creating", "recognizing"} =>
                    d = c \/ read[d].phase \in {"creating", "recognizing"}
               /\ read[d].phase # "new" => read'[d].phase # "new"
    BY <1>1 DEF Kept
  <2>2. ASSUME NEW d \in Reading
        PROVE  (\E i \in 1..Len(queue) : queue[i] = d) <=>
                 (read'[d].phase \in {"creating", "recognizing"} \/ read'[d].phase = "queued")
    BY <1>0, <1>2, <2>1 DEF QueueInOrder
  <2>3. ASSUME NEW r \in Releaser, NEW d \in release[r].before
        PROVE  /\ read'[d].phase # "new"
               /\ release[r].phase \in {"taking", "done", "error"} =>
                    \A i \in 1..Len(queue) : queue[i] # d
    <3>1. d \in Reading
      BY <1>0 DEF ReadingTypes
    <3> QED BY <1>0, <1>2, <2>1, <2>3, <3>1 DEF QueueInOrder
  <2>4. \A d \in Reading : read'[d].phase \in {"creating", "recognizing"} => queue[1] = d
    BY <1>0, <1>2, <1>3, <2>1 DEF QueueInOrder
  <2> QED BY <1>0, <1>1, <1>2, <2>2, <2>3, <2>4 DEF QueueInOrder
<1>7. SharedWorker'
  <2>1. Overlapped' <=> Overlapped
    BY <1>0, <1>1 DEF Overlapped
  <2>2. w = workerPromise \/ workerPromise = 0
    BY <1>0 DEF w
  <2>3. \A v \in 1..Len(worker') : Alive(v)' => v = w \/ Overlapped
    BY <1>0, <1>1, <1>2, <1>4, <2>2 DEF SharedWorker
  <2>4. \A r \in Releaser : release[r].phase = "taking" => release[r].worker = w \/ Overlapped
    BY <1>0, <1>1, <1>2, <2>2 DEF SharedWorker, ReadingTypes
  <2>5. ASSUME NEW d \in Reading, Active(d)', worker'[read'[d].worker] = "terminated"
        PROVE  \E r \in Releaser : release[r].phase = "done" /\ d \notin release[r].before
    <3>1. d # c
      BY <1>0, <1>1, <1>4, <2>5
    <3> QED BY <1>0, <1>1, <1>2, <1>4, <2>5, <3>1 DEF SharedWorker, ReadingTypes, Kept
  <2> QED BY <1>0, <1>1, <1>4, <2>1, <2>3, <2>4, <2>5 DEF SharedWorker
<1> QED BY <1>0, <1>1, <1>2, <1>5, <1>6, <1>7 DEF OwnWorkers, WorkersInvariant

\* The creation of a worker ends.
LEMMA CreatedKeeps ==
  ASSUME WorkersInvariant, NEW w \in DOMAIN worker, Created(w)
  PROVE  WorkersInvariant'
<1> USE DEF Active, Alive
<1>0. ReadingTypes /\ OwnWorkers /\ QueueInOrder /\ SharedWorker
  BY DEF WorkersInvariant
<1>1. Len(worker) \in Nat /\ w \in 1..Len(worker)
  BY <1>0, LenProperties DEF ReadingTypes
<1>2. PICK state \in {"ready", "failed"} : worker' = [worker EXCEPT ![w] = state]
  BY <1>0 DEF Created
<1>3. /\ UNCHANGED <<shared, workerPromise, queue, read, release>> /\ worker[w] = "creating"
      /\ worker' \in Seq({"creating", "ready", "failed", "terminated"}) /\ Len(worker') = Len(worker)
      /\ worker'[w] = state /\ \A v \in 1..Len(worker) : v # w => worker'[v] = worker[v]
  BY <1>0, <1>1, <1>2, ExceptSeq DEF Created, ReadingTypes
<1>4. ReadingTypes'
  BY <1>0, <1>3 DEF ReadingTypes
<1>5. OwnWorkers'
  BY <1>0, <1>1, <1>3 DEF OwnWorkers, ReadingTypes
<1>6. SharedWorker'
  <2>1. Overlapped' <=> Overlapped
    BY <1>3 DEF Overlapped
  <2>2. \A v \in 1..Len(worker') : /\ worker'[v] \in {"creating", "ready"} => worker[v] \in {"creating", "ready"}
                                   /\ worker'[v] = "terminated" => worker[v] = "terminated"
    BY <1>3
  <2>3. workerPromise \in 0..Len(worker)
    BY <1>0 DEF ReadingTypes
  <2>4. ASSUME shared, NEW d \in Reading, read[d].phase \in {"creating", "recognizing"},
               worker'[read[d].worker] = "terminated"
        PROVE  \E r \in Releaser : release[r].phase = "done" /\ d \notin release[r].before
    <3>1. read[d].worker \in 1..Len(worker)
      BY <1>0, <2>4 DEF ReadingTypes
    <3> QED BY <1>0, <1>3, <2>2, <2>4, <3>1 DEF SharedWorker
  <2> QED BY <1>0, <1>3, <2>1, <2>2, <2>3, <2>4 DEF SharedWorker
<1> QED BY <1>0, <1>3, <1>4, <1>5, <1>6 DEF QueueInOrder, WorkersInvariant

\* A read begins to recognize with its worker.
LEMMA StartRecognitionKeeps ==
  ASSUME WorkersInvariant, NEW c \in Reading, StartRecognition(c)
  PROVE  WorkersInvariant'
<1> USE DEF Active, Alive
<1>0. ReadingTypes /\ OwnWorkers /\ QueueInOrder /\ SharedWorker
  BY DEF WorkersInvariant
<1>1. /\ shared' = shared /\ worker' = worker /\ workerPromise' = workerPromise
      /\ queue' = queue /\ release' = release /\ DOMAIN read' = Reading
      /\ worker[read[c].worker] \in {"ready", "terminated"}
  BY <1>0 DEF StartRecognition, ReadingTypes
<1>2. ASSUME NEW d \in Reading
      PROVE  /\ DOMAIN read'[d] = DOMAIN read[d] /\ read'[d].worker = read[d].worker
             /\ read'[d].phase = read[d].phase \/
                  (read'[d].phase = "recognizing" /\ read[d].phase = "creating" /\ d = c)
  BY <1>0 DEF StartRecognition, ReadingTypes
<1>3. ASSUME NEW d \in Reading
      PROVE  (read'[d].phase \in {"creating", "recognizing"} <=>
                read[d].phase \in {"creating", "recognizing"})
             /\ (read'[d].phase = "queued" <=> read[d].phase = "queued")
             /\ (read[d].phase # "new" => read'[d].phase # "new")
  BY <1>2
<1>4. ReadingTypes'
  <2>1. ASSUME NEW d \in Reading
        PROVE  /\ DOMAIN read'[d] = {"phase", "worker", "attempts", "asked", "match"}
               /\ read'[d].phase \in {"new", "refused", "queued", "creating", "recognizing", "text",
                                     "error", "found", "invalid"}
               /\ read'[d].worker \in Nat
               /\ read'[d].phase \in {"creating", "recognizing"} => read'[d].worker \in 1..Len(worker)
               /\ read'[d].phase = "recognizing" => worker[read'[d].worker] \in {"ready", "terminated"}
    BY <1>0, <1>1, <1>2 DEF ReadingTypes
  <2> QED BY <1>0, <1>1, <2>1 DEF ReadingTypes
<1>5. OwnWorkers'
  <2>1. ASSUME ~shared, NEW w \in 1..Len(worker), worker[w] \in {"creating", "ready"}
        PROVE  \E d \in Reading : read'[d].phase \in {"creating", "recognizing"} /\ read'[d].worker = w
    <3>1. PICK d \in Reading : read[d].phase \in {"creating", "recognizing"} /\ read[d].worker = w
      BY <1>0, <2>1 DEF OwnWorkers
    <3> QED BY <1>2, <1>3, <3>1
  <2> QED BY <1>0, <1>1, <1>2, <1>3, <2>1 DEF OwnWorkers
<1>6. QueueInOrder'
  <2>2. ASSUME shared, NEW d \in Reading
        PROVE  (\E i \in 1..Len(queue) : queue[i] = d) <=>
                 (read'[d].phase \in {"creating", "recognizing"} \/ read'[d].phase = "queued")
    BY <1>0, <1>3, <2>2 DEF QueueInOrder
  <2>3. ASSUME shared, NEW r \in Releaser, NEW d \in release[r].before
        PROVE  /\ read'[d].phase # "new"
               /\ release[r].phase \in {"taking", "done", "error"} =>
                    \A i \in 1..Len(queue) : queue[i] # d
    <3>1. d \in Reading
      BY <1>0 DEF ReadingTypes
    <3> QED BY <1>0, <1>3, <2>3, <3>1 DEF QueueInOrder
  <2> QED BY <1>0, <1>1, <1>3, <2>2, <2>3 DEF QueueInOrder
<1>7. SharedWorker'
  <2>1. Overlapped' <=> Overlapped
    BY <1>1 DEF Overlapped
  <2> QED BY <1>0, <1>1, <1>2, <1>3, <2>1 DEF SharedWorker
<1> QED BY <1>4, <1>5, <1>6, <1>7 DEF WorkersInvariant

\* A read that ends with its worker leaves nothing alive, and leaves the queue.
LEMMA EndKeeps ==
  ASSUME WorkersInvariant, NEW c \in Reading, NEW attempts, Active(c),
         read[c].phase = "recognizing" \/ worker[read[c].worker] = "failed",
         EndRecognition(c, attempts)
  PROVE  WorkersInvariant'
<1> USE DEF Active, Alive
<1>0. ReadingTypes /\ OwnWorkers /\ QueueInOrder /\ SharedWorker
  BY DEF WorkersInvariant
<1> DEFINE w == read[c].worker
<1>1. /\ shared' = shared /\ workerPromise' = workerPromise /\ release' = release
      /\ Kept(c) /\ read'[c].phase \in {"error", "text"} /\ read'[c].worker = w
      /\ w \in 1..Len(worker) /\ Len(worker) \in Nat /\ Len(queue) \in Nat
  BY <1>0, LenProperties DEF EndRecognition, ReadingTypes, Kept
<1>2. ASSUME NEW d \in Reading
      PROVE  \/ d # c /\ read'[d] = read[d]
             \/ d = c /\ read'[d].phase \in {"error", "text"} /\ read'[d].worker = w
  BY <1>1 DEF Kept
<1>3. /\ worker' \in Seq({"creating", "ready", "failed", "terminated"}) /\ Len(worker') = Len(worker)
      /\ \A v \in 1..Len(worker) : v # w => worker'[v] = worker[v]
      /\ worker'[w] = IF shared \/ worker[w] # "ready" THEN worker[w] ELSE "terminated"
      /\ shared => worker' = worker
  <2>1. CASE shared \/ worker[w] # "ready"
    BY <1>0, <2>1 DEF EndRecognition, ReadingTypes
  <2>2. CASE ~(shared \/ worker[w] # "ready")
    <3>1. worker' = [worker EXCEPT ![w] = "terminated"]
      BY <2>2 DEF EndRecognition
    <3> QED BY <1>0, <1>1, <2>2, <3>1, ExceptSeq DEF ReadingTypes
  <2> QED BY <2>1, <2>2
<1>4. CASE shared
  <2>1. queue[1] = c /\ queue # <<>> /\ Len(queue) # 0
    <3>1. \E i \in 1..Len(queue) : queue[i] = c
      BY <1>0, <1>4 DEF QueueInOrder
    <3>2. Len(queue) # 0
      BY <1>1, <3>1
    <3> QED BY <1>0, <1>4, <3>2 DEF QueueInOrder
  <2>2. /\ queue' \in Seq(Reading) /\ Len(queue') = Len(queue) - 1
        /\ \A i \in 1..(Len(queue) - 1) : queue'[i] = queue[i + 1]
    BY <1>0, <1>4, <2>1, HeadTailProperties DEF EndRecognition, ReadingTypes
  <2>3. worker' = worker
    BY <1>3, <1>4
  <2>4. ReadingTypes'
    <3>1. ASSUME NEW d \in Reading
          PROVE  /\ DOMAIN read'[d] = {"phase", "worker", "attempts", "asked", "match"}
                 /\ read'[d].phase \in {"new", "refused", "queued", "creating", "recognizing", "text",
                                       "error", "found", "invalid"}
                 /\ read'[d].worker \in Nat
                 /\ read'[d].phase \in {"creating", "recognizing"} => read'[d].worker \in 1..Len(worker)
                 /\ read'[d].phase = "recognizing" => worker[read'[d].worker] \in {"ready", "terminated"}
      BY <1>0, <1>1, <1>2 DEF ReadingTypes, Kept
    <3> QED BY <1>0, <1>1, <2>2, <2>3, <3>1 DEF ReadingTypes, Kept
  <2>5. QueueInOrder'
    <3>1. ASSUME NEW i \in 1..Len(queue'), NEW j \in 1..Len(queue'), queue'[i] = queue'[j]
          PROVE  i = j
      BY <1>0, <1>1, <1>4, <2>2, <3>1 DEF QueueInOrder
    <3>2. ASSUME NEW d \in Reading
          PROVE  (\E i \in 1..Len(queue') : queue'[i] = d) <=> d # c /\ \E i \in 1..Len(queue) : queue[i] = d
      <4>1. ASSUME NEW i \in 1..Len(queue'), queue'[i] = d
            PROVE  d # c /\ \E k \in 1..Len(queue) : queue[k] = d
        <5>1. i + 1 \in 1..Len(queue) /\ queue[i + 1] = d /\ i + 1 # 1 /\ 1 \in 1..Len(queue)
          BY <1>1, <2>1, <2>2, <4>1
        <5> QED BY <1>0, <1>4, <2>1, <5>1 DEF QueueInOrder
      <4>2. ASSUME d # c, NEW i \in 1..Len(queue), queue[i] = d
            PROVE  \E k \in 1..Len(queue') : queue'[k] = d
        <5>1. i - 1 \in 1..(Len(queue) - 1) /\ queue'[i - 1] = d
          BY <1>1, <2>1, <2>2, <4>2
        <5> QED BY <2>2, <5>1
      <4> QED BY <4>1, <4>2
    <3>3. ASSUME NEW d \in Reading
          PROVE  (\E i \in 1..Len(queue') : queue'[i] = d) <=>
                   (read'[d].phase \in {"creating", "recognizing"} \/ read'[d].phase = "queued")
      BY <1>0, <1>2, <1>4, <3>2 DEF QueueInOrder
    <3>4. ASSUME NEW d \in Reading PROVE read'[d].phase \notin {"creating", "recognizing"}
      BY <1>0, <1>2, <1>4, <2>1 DEF QueueInOrder
    <3>5. ASSUME NEW r \in Releaser, NEW d \in release[r].before
          PROVE  /\ read'[d].phase # "new"
                 /\ release[r].phase \in {"taking", "done", "error"} =>
                      \A i \in 1..Len(queue') : queue'[i] # d
      <4>1. d \in Reading
        BY <1>0 DEF ReadingTypes
      <4> QED BY <1>0, <1>2, <1>4, <3>2, <4>1 DEF QueueInOrder
    <3> QED BY <1>1, <3>1, <3>3, <3>4, <3>5 DEF QueueInOrder
  <2>6. SharedWorker'
    <3>1. Overlapped' <=> Overlapped
      BY <1>1 DEF Overlapped
    <3>2. \A d \in Reading : read'[d].phase \in {"creating", "recognizing"} => read'[d] = read[d]
      BY <1>2
    <3> QED BY <1>0, <1>1, <1>4, <2>3, <3>1, <3>2 DEF SharedWorker
  <2>7. OwnWorkers'
    BY <1>1, <1>4 DEF OwnWorkers
  <2> QED BY <2>4, <2>5, <2>6, <2>7 DEF WorkersInvariant
<1>5. CASE ~shared
  <2>1. queue' = queue
    BY <1>5 DEF EndRecognition
  <2>2. ASSUME NEW d \in Reading, read'[d].phase \in {"creating", "recognizing"}
        PROVE  /\ d # c /\ read'[d] = read[d] /\ read[d].worker # w
               /\ read[d].worker \in 1..Len(worker) /\ worker'[read[d].worker] = worker[read[d].worker]
    <3>1. d # c /\ read'[d] = read[d]
      BY <1>2, <2>2
    <3>2. read[d].worker # w /\ read[d].worker \in 1..Len(worker)
      BY <1>0, <1>5, <2>2, <3>1 DEF OwnWorkers, ReadingTypes
    <3> QED BY <1>3, <3>1, <3>2
  <2>3. ReadingTypes'
    <3>1. ASSUME NEW d \in Reading
          PROVE  /\ DOMAIN read'[d] = {"phase", "worker", "attempts", "asked", "match"}
                 /\ read'[d].phase \in {"new", "refused", "queued", "creating", "recognizing", "text",
                                       "error", "found", "invalid"}
                 /\ read'[d].worker \in Nat
                 /\ read'[d].phase \in {"creating", "recognizing"} => read'[d].worker \in 1..Len(worker)
                 /\ read'[d].phase = "recognizing" => worker'[read'[d].worker] \in {"ready", "terminated"}
      BY <1>0, <1>1, <1>2, <2>2 DEF ReadingTypes, Kept
    <3> QED BY <1>0, <1>1, <1>3, <2>1, <3>1 DEF ReadingTypes, Kept
  <2>4. OwnWorkers'
    <3>1. ASSUME NEW v \in 1..Len(worker'), worker'[v] \in {"creating", "ready"}
          PROVE  \E d \in Reading : read'[d].phase \in {"creating", "recognizing"} /\ read'[d].worker = v
      <4>1. v # w
        <5>1. worker[w] \in {"ready", "terminated", "failed"}
          BY <1>0 DEF ReadingTypes
        <5> QED BY <1>3, <1>5, <3>1, <5>1
      <4>2. PICK d \in Reading : read[d].phase \in {"creating", "recognizing"} /\ read[d].worker = v
        BY <1>0, <1>3, <1>5, <3>1, <4>1 DEF OwnWorkers
      <4> QED BY <1>2, <4>1, <4>2
    <3>2. \A d \in Reading : read'[d].phase # "queued"
      BY <1>0, <1>2, <1>5 DEF OwnWorkers
    <3>3. \A d, e \in Reading :
            read'[d].phase \in {"creating", "recognizing"} /\
            read'[e].phase \in {"creating", "recognizing"} /\
            read'[d].worker = read'[e].worker => d = e
      BY <1>0, <1>5, <2>2 DEF OwnWorkers
    <3>4. \A d \in Reading : read'[d].phase \in {"creating", "recognizing"} =>
            worker'[read'[d].worker] # "terminated"
      BY <1>0, <1>5, <2>2 DEF OwnWorkers
    <3>5. queue' = <<>> /\ workerPromise' = 0 /\ \A r \in Releaser : release'[r].worker = 0
      BY <1>0, <1>1, <1>5, <2>1 DEF OwnWorkers
    <3> QED BY <1>1, <3>1, <3>2, <3>3, <3>4, <3>5 DEF OwnWorkers
  <2>5. QueueInOrder' /\ SharedWorker'
    BY <1>1, <1>5 DEF QueueInOrder, SharedWorker
  <2> QED BY <2>3, <2>4, <2>5 DEF WorkersInvariant
<1> QED BY <1>0, <1>4, <1>5 DEF ReadingTypes

\* What a change of one release leaves alone.
OneRelease(r) ==
  /\ shared' = shared /\ queue' = queue /\ read' = read
  /\ release' \in [Releaser -> [phase : {"idle", "waiting", "taking", "done", "error"},
                                before : SUBSET Reading, worker : Nat]]
  /\ \A s \in Releaser : s # r => release'[s] = release[s]

\* The elements of the queue are reads, and each has a place in it.
LEMMA QueueIsOfReads ==
  ReadingTypes => ToSet(queue) \in SUBSET Reading /\ \A d \in ToSet(queue) : \E i \in 1..Len(queue) : queue[i] = d
<1> SUFFICES ASSUME ReadingTypes
             PROVE  /\ ToSet(queue) \in SUBSET Reading
                    /\ \A d \in ToSet(queue) : \E i \in 1..Len(queue) : queue[i] = d
  OBVIOUS
<1>1. DOMAIN queue = 1..Len(queue) /\ \A i \in 1..Len(queue) : queue[i] \in Reading
  BY LenProperties, ElementOfSeq DEF ReadingTypes
<1> QED BY <1>1 DEF ToSet

\* A release takes note of the reads that were enqueued before it.
LEMMA ReleaseKeeps ==
  ASSUME WorkersInvariant, NEW r \in Releaser, Release(r)
  PROVE  WorkersInvariant'
<1> USE DEF Active, Alive
<1>0. ReadingTypes /\ OwnWorkers /\ QueueInOrder /\ SharedWorker
  BY DEF WorkersInvariant
<1>1. /\ ToSet(queue) \in SUBSET Reading /\ \A d \in ToSet(queue) : \E i \in 1..Len(queue) : queue[i] = d
      /\ release[r].phase = "idle" /\ release[r].worker = 0
  <2>1. DOMAIN queue = 1..Len(queue) /\ \A i \in 1..Len(queue) : queue[i] \in Reading
    BY <1>0, LenProperties, ElementOfSeq DEF ReadingTypes
  <2> QED BY <1>0, <2>1 DEF ReadingTypes, ToSet, Release
<1>2. /\ OneRelease(r) /\ worker' = worker /\ workerPromise' = workerPromise
      /\ release'[r].phase = "waiting" /\ release'[r].before = ToSet(queue) /\ release'[r].worker = 0
  <2>1. /\ release' = [release EXCEPT ![r].phase = "waiting", ![r].before = ToSet(queue)]
       /\ shared' = shared /\ queue' = queue /\ read' = read
    BY <1>0, <1>1 DEF Release
  <2>2. /\ release \in [Releaser -> [phase : {"idle", "waiting", "taking", "done", "error"},
                                before : SUBSET Reading, worker : Nat]]
       /\ ToSet(queue) \in SUBSET Reading /\ workerPromise \in Nat /\ workerPromise \in 0..Len(worker)
    BY <1>0, <1>1, QueueIsOfReads DEF ReadingTypes
  <2>3. OneRelease(r)
    BY <2>1, <2>2 DEF OneRelease
  <2> QED BY <1>0, <1>1, <2>1, <2>2, <2>3 DEF Release
<1>3. ASSUME NEW s \in Releaser
      PROVE  /\ release'[s].worker = release[s].worker
             /\ s # r => release'[s] = release[s]
  BY <1>1, <1>2 DEF OneRelease
<1>4. ReadingTypes'
  <2>1. ASSUME NEW s \in Releaser
        PROVE  /\ release'[s].worker \in 0..Len(worker)
               /\ release'[s].phase = "taking" => release'[s].worker # 0
               /\ release'[s].phase \in {"idle", "waiting"} => release'[s].worker = 0
    BY <1>0, <1>2, <1>3 DEF ReadingTypes
  <2> QED BY <1>0, <1>2, <2>1 DEF ReadingTypes, OneRelease
<1>5. OwnWorkers'
  BY <1>0, <1>2, <1>3 DEF OwnWorkers, OneRelease
<1>6. QueueInOrder'
  <2>1. ASSUME shared, NEW s \in Releaser, NEW d \in release'[s].before
        PROVE  /\ read[d].phase # "new"
               /\ release'[s].phase \in {"taking", "done", "error"} =>
                    \A i \in 1..Len(queue) : queue[i] # d
    <3>1. CASE s = r
      <4>1. d \in Reading /\ \E i \in 1..Len(queue) : queue[i] = d
        BY <1>1, <1>2, <2>1, <3>1
      <4>2. read[d].phase \in {"creating", "recognizing"} \/ read[d].phase = "queued"
        BY <1>0, <2>1, <4>1 DEF QueueInOrder
      <4> QED BY <1>2, <3>1, <4>2
    <3>2. CASE s # r
      BY <1>0, <1>3, <2>1, <3>2 DEF QueueInOrder
    <3> QED BY <3>1, <3>2
  <2> QED BY <1>0, <1>2, <2>1 DEF QueueInOrder, OneRelease
<1>7. SharedWorker'
  <2>1. Overlapped' <=> Overlapped
    BY <1>3 DEF Overlapped
  <2>2. \A s \in Releaser : release'[s].phase = "taking" => s # r
    BY <1>2
  <2>3. ASSUME shared, NEW d \in Reading, read[d].phase \in {"creating", "recognizing"},
               worker[read[d].worker] = "terminated"
        PROVE  \E s \in Releaser : release'[s].phase = "done" /\ d \notin release'[s].before
    <3>1. PICK s \in Releaser : release[s].phase = "done" /\ d \notin release[s].before
      BY <1>0, <2>3 DEF SharedWorker
    <3> QED BY <1>1, <1>3, <3>1
  <2> QED BY <1>0, <1>2, <1>3, <2>1, <2>2, <2>3 DEF SharedWorker, OneRelease
<1> QED BY <1>4, <1>5, <1>6, <1>7 DEF WorkersInvariant

\* A release whose reads are done takes the shared worker, if there is one.
LEMMA TakeKeeps ==
  ASSUME WorkersInvariant, NEW r \in Releaser, TakeWorker(r)
  PROVE  WorkersInvariant'
<1> USE DEF Active, Alive
<1>0. ReadingTypes /\ OwnWorkers /\ QueueInOrder /\ SharedWorker
  BY DEF WorkersInvariant
<1>1. /\ release[r].phase = "waiting" /\ release[r].worker = 0
      /\ \A d \in release[r].before : \A i \in 1..Len(queue) : queue[i] # d
  BY <1>0 DEF ReadingTypes, ToSet, TakeWorker
<1>2. /\ OneRelease(r) /\ worker' = worker /\ workerPromise' = workerPromise
      /\ release'[r].phase = IF workerPromise = 0 THEN "done" ELSE "taking"
      /\ release'[r].before = release[r].before /\ release'[r].worker = workerPromise
      /\ workerPromise \in 0..Len(worker)
  <2>1. /\ release' = [release EXCEPT ![r].phase = IF workerPromise = 0 THEN "done" ELSE "taking",
                                ![r].worker = workerPromise]
       /\ shared' = shared /\ queue' = queue /\ read' = read
    BY <1>0, <1>1 DEF TakeWorker
  <2>2. /\ release \in [Releaser -> [phase : {"idle", "waiting", "taking", "done", "error"},
                                before : SUBSET Reading, worker : Nat]]
       /\ ToSet(queue) \in SUBSET Reading /\ workerPromise \in Nat /\ workerPromise \in 0..Len(worker)
    BY <1>0, <1>1, QueueIsOfReads DEF ReadingTypes
  <2>3. OneRelease(r)
    BY <2>1, <2>2 DEF OneRelease
  <2> QED BY <1>0, <1>1, <2>1, <2>2, <2>3 DEF TakeWorker
<1>3. ASSUME NEW s \in Releaser
      PROVE  /\ s # r => release'[s] = release[s]
             /\ release'[s].before = release[s].before
  BY <1>2 DEF OneRelease
<1>4. ReadingTypes'
  <2>1. ASSUME NEW s \in Releaser
        PROVE  /\ release'[s].worker \in 0..Len(worker)
               /\ release'[s].phase = "taking" => release'[s].worker # 0
               /\ release'[s].phase \in {"idle", "waiting"} => release'[s].worker = 0
    BY <1>0, <1>2, <1>3 DEF ReadingTypes
  <2> QED BY <1>0, <1>2, <2>1 DEF ReadingTypes, OneRelease
<1>5. OwnWorkers'
  <2>1. ASSUME ~shared, NEW s \in Releaser PROVE release'[s].worker = 0
    BY <1>0, <1>2, <1>3, <2>1 DEF OwnWorkers
  <2> QED BY <1>0, <1>2, <2>1 DEF OwnWorkers, OneRelease
<1>6. QueueInOrder'
  <2>1. ASSUME shared, NEW s \in Releaser, NEW d \in release'[s].before
        PROVE  /\ read[d].phase # "new"
               /\ release'[s].phase \in {"taking", "done", "error"} =>
                    \A i \in 1..Len(queue) : queue[i] # d
    BY <1>0, <1>1, <1>3, <2>1 DEF QueueInOrder
  <2> QED BY <1>0, <1>2, <2>1 DEF QueueInOrder, OneRelease
<1>7. SharedWorker'
  <2>1. ASSUME Overlapped PROVE Overlapped'
    <3>1. PICK s, t \in Releaser : s # t /\ release[s].worker = release[t].worker /\ release[s].worker # 0
      BY <2>1 DEF Overlapped
    <3> QED BY <1>1, <1>3, <3>1 DEF Overlapped
  <2>2. ASSUME shared, NEW s \in Releaser, release'[s].phase = "taking"
        PROVE  release'[s].worker = workerPromise \/ Overlapped'
    BY <1>0, <1>2, <1>3, <2>1, <2>2 DEF SharedWorker
  <2>3. ASSUME shared, NEW d \in Reading, read[d].phase \in {"creating", "recognizing"},
               worker[read[d].worker] = "terminated"
        PROVE  \E s \in Releaser : release'[s].phase = "done" /\ d \notin release'[s].before
    <3>1. PICK s \in Releaser : release[s].phase = "done" /\ d \notin release[s].before
      BY <1>0, <2>3 DEF SharedWorker
    <3> QED BY <1>1, <1>3, <3>1
  <2> QED BY <1>0, <1>2, <2>1, <2>2, <2>3 DEF SharedWorker, OneRelease
<1> QED BY <1>4, <1>5, <1>6, <1>7 DEF WorkersInvariant

\* A release terminates the worker it took.
LEMMA TerminateKeeps ==
  ASSUME WorkersInvariant, NEW r \in Releaser, Terminate(r)
  PROVE  WorkersInvariant'
<1> USE DEF Active, Alive
<1>0. ReadingTypes /\ OwnWorkers /\ QueueInOrder /\ SharedWorker
  BY DEF WorkersInvariant
<1> DEFINE w == release[r].worker
<1>1. /\ release[r].phase = "taking" /\ shared /\ w \in 1..Len(worker) /\ Len(worker) \in Nat
      /\ worker[w] # "creating"
  BY <1>0, LenProperties DEF ReadingTypes, OwnWorkers, Terminate
<1>2. CASE worker[w] = "failed"
  <2>1. /\ OneRelease(r) /\ worker' = worker /\ workerPromise' = workerPromise
        /\ release'[r].phase = "error" /\ release'[r].before = release[r].before
        /\ release'[r].worker = w
    <3>1. /\ release' = [release EXCEPT ![r].phase = "error"]
         /\ shared' = shared /\ queue' = queue /\ read' = read
      BY <1>0, <1>2 DEF Terminate
    <3>2. /\ release \in [Releaser -> [phase : {"idle", "waiting", "taking", "done", "error"},
                                  before : SUBSET Reading, worker : Nat]]
         /\ ToSet(queue) \in SUBSET Reading /\ workerPromise \in Nat /\ workerPromise \in 0..Len(worker)
      BY <1>0, <1>2, QueueIsOfReads DEF ReadingTypes
    <3>3. OneRelease(r)
      BY <3>1, <3>2 DEF OneRelease
    <3> QED BY <1>0, <1>2, <3>1, <3>2, <3>3 DEF Terminate
  <2>2. ASSUME NEW s \in Releaser
        PROVE  /\ s # r => release'[s] = release[s]
               /\ release'[s].before = release[s].before /\ release'[s].worker = release[s].worker
    BY <2>1 DEF OneRelease
  <2>3. ReadingTypes'
    <3>1. ASSUME NEW s \in Releaser
          PROVE  /\ release'[s].worker \in 0..Len(worker)
                 /\ release'[s].phase = "taking" => release'[s].worker # 0
                 /\ release'[s].phase \in {"idle", "waiting"} => release'[s].worker = 0
      BY <1>0, <2>1, <2>2 DEF ReadingTypes
    <3> QED BY <1>0, <2>1, <3>1 DEF ReadingTypes, OneRelease
  <2>4. QueueInOrder'
    <3>1. ASSUME NEW s \in Releaser, NEW d \in release'[s].before
          PROVE  /\ read[d].phase # "new"
                 /\ release'[s].phase \in {"taking", "done", "error"} =>
                      \A i \in 1..Len(queue) : queue[i] # d
      BY <1>0, <1>1, <2>1, <2>2, <3>1 DEF QueueInOrder
    <3> QED BY <1>0, <1>1, <2>1, <3>1 DEF QueueInOrder, OneRelease
  <2>5. SharedWorker'
    <3>1. Overlapped' <=> Overlapped
      BY <2>2 DEF Overlapped
    <3>2. ASSUME NEW s \in Releaser, release'[s].phase = "taking"
          PROVE  release'[s].worker = workerPromise \/ Overlapped
      BY <1>0, <1>1, <2>1, <2>2, <3>2 DEF SharedWorker
    <3>3. ASSUME NEW d \in Reading, read[d].phase \in {"creating", "recognizing"},
                 worker[read[d].worker] = "terminated"
          PROVE  \E s \in Releaser : release'[s].phase = "done" /\ d \notin release'[s].before
      <4>1. PICK s \in Releaser : release[s].phase = "done" /\ d \notin release[s].before
        BY <1>0, <1>1, <3>3 DEF SharedWorker
      <4> QED BY <1>1, <2>2, <4>1
    <3> QED BY <1>0, <1>1, <2>1, <3>1, <3>2, <3>3 DEF SharedWorker, OneRelease
  <2>6. OwnWorkers'
    BY <1>1, <2>1 DEF OwnWorkers, OneRelease
  <2> QED BY <2>3, <2>4, <2>5, <2>6 DEF WorkersInvariant
<1>3. CASE worker[w] # "failed"
  <2>1. /\ OneRelease(r) /\ worker' = [worker EXCEPT ![w] = "terminated"] /\ workerPromise' = 0
        /\ release'[r].phase = "done" /\ release'[r].before = release[r].before
        /\ release'[r].worker = w
    <3>1. /\ release' = [release EXCEPT ![r].phase = "done"]
         /\ shared' = shared /\ queue' = queue /\ read' = read
      BY <1>0, <1>3 DEF Terminate
    <3>2. /\ release \in [Releaser -> [phase : {"idle", "waiting", "taking", "done", "error"},
                                  before : SUBSET Reading, worker : Nat]]
         /\ ToSet(queue) \in SUBSET Reading /\ workerPromise \in Nat /\ workerPromise \in 0..Len(worker)
      BY <1>0, <1>3, QueueIsOfReads DEF ReadingTypes
    <3>3. OneRelease(r)
      BY <3>1, <3>2 DEF OneRelease
    <3> QED BY <1>0, <1>3, <3>1, <3>2, <3>3 DEF Terminate
  <2>2. /\ worker' \in Seq({"creating", "ready", "failed", "terminated"}) /\ Len(worker') = Len(worker)
        /\ worker'[w] = "terminated" /\ \A v \in 1..Len(worker) : v # w => worker'[v] = worker[v]
    BY <1>0, <1>1, <2>1, ExceptSeq DEF ReadingTypes
  <2>3. ASSUME NEW s \in Releaser
        PROVE  /\ s # r => release'[s] = release[s]
               /\ release'[s].before = release[s].before /\ release'[s].worker = release[s].worker
    BY <2>1 DEF OneRelease
  <2>4. ReadingTypes'
    <3>1. ASSUME NEW s \in Releaser
          PROVE  /\ release'[s].worker \in 0..Len(worker)
                 /\ release'[s].phase = "taking" => release'[s].worker # 0
                 /\ release'[s].phase \in {"idle", "waiting"} => release'[s].worker = 0
      BY <1>0, <2>1, <2>3 DEF ReadingTypes
    <3>2. ASSUME NEW d \in Reading, read[d].phase = "recognizing"
          PROVE  worker'[read[d].worker] \in {"ready", "terminated"}
      BY <1>0, <2>2, <3>2 DEF ReadingTypes
    <3> QED BY <1>0, <1>1, <2>1, <2>2, <3>1, <3>2 DEF ReadingTypes, OneRelease
  <2>5. QueueInOrder'
    <3>1. ASSUME NEW s \in Releaser, NEW d \in release'[s].before
          PROVE  /\ read[d].phase # "new"
                 /\ release'[s].phase \in {"taking", "done", "error"} =>
                      \A i \in 1..Len(queue) : queue[i] # d
      BY <1>0, <1>1, <2>1, <2>3, <3>1 DEF QueueInOrder
    <3> QED BY <1>0, <1>1, <2>1, <3>1 DEF QueueInOrder, OneRelease
  <2>6. SharedWorker'
    <3>1. Overlapped' <=> Overlapped
      BY <2>3 DEF Overlapped
    <3>2. w = workerPromise \/ Overlapped
      BY <1>0, <1>1 DEF SharedWorker
    <3>3. ASSUME NEW v \in 1..Len(worker), worker'[v] \in {"creating", "ready"}
          PROVE  Overlapped
      <4>1. v # w /\ worker[v] \in {"creating", "ready"}
        BY <2>2, <3>3
      <4>2. v = workerPromise \/ Overlapped
        BY <1>0, <1>1, <4>1 DEF SharedWorker
      <4> QED BY <3>2, <4>1, <4>2
    <3>4. ASSUME NEW s \in Releaser, release'[s].phase = "taking"
          PROVE  Overlapped
      <4>1. s # r /\ release[s].phase = "taking"
        BY <2>1, <2>3, <3>4
      <4>2. release[s].worker = workerPromise \/ Overlapped
        BY <1>0, <1>1, <4>1 DEF SharedWorker
      <4>3. release[s].worker # 0
        BY <1>0, <4>1 DEF ReadingTypes
      <4> QED BY <3>2, <4>1, <4>2, <4>3 DEF Overlapped
    <3>5. ASSUME NEW d \in Reading, read[d].phase \in {"creating", "recognizing"},
                 worker'[read[d].worker] = "terminated"
          PROVE  \E s \in Releaser : release'[s].phase = "done" /\ d \notin release'[s].before
      <4>1. CASE read[d].worker = w
        <5>1. queue[1] = d /\ \E i \in 1..Len(queue) : queue[i] = d
          BY <1>0, <1>1, <3>5 DEF QueueInOrder
        <5>2. d \notin release[r].before
          BY <1>0, <1>1, <5>1 DEF QueueInOrder
        <5> QED BY <2>1, <5>2
      <4>2. CASE read[d].worker # w
        <5>1. worker[read[d].worker] = "terminated"
          BY <1>0, <2>2, <3>5, <4>2 DEF ReadingTypes
        <5>2. PICK s \in Releaser : release[s].phase = "done" /\ d \notin release[s].before
          BY <1>0, <1>1, <3>5, <5>1 DEF SharedWorker
        <5> QED BY <1>1, <2>3, <5>2
      <4> QED BY <4>1, <4>2
    <3> QED BY <1>0, <1>1, <2>1, <2>2, <3>1, <3>3, <3>4, <3>5 DEF SharedWorker, OneRelease
  <2>7. OwnWorkers'
    BY <1>1, <2>1 DEF OwnWorkers, OneRelease
  <2> QED BY <2>4, <2>5, <2>6, <2>7 DEF WorkersInvariant
<1> QED BY <1>2, <1>3

\* Every step of a read, of a release or of a search keeps the invariant.
LEMMA WorkersKept == WorkersInvariant /\ [ReadingNext]_readingVars => WorkersInvariant'
<1> SUFFICES ASSUME WorkersInvariant, [ReadingNext]_readingVars PROVE WorkersInvariant'
  OBVIOUS
<1> USE DEF Active, Alive
<1>0. ReadingTypes /\ OwnWorkers /\ QueueInOrder /\ SharedWorker
  BY DEF WorkersInvariant
<1>1. ASSUME NEW c \in Reading, RefuseRead(c) PROVE WorkersInvariant'
  <2>1. /\ ~Active(c) /\ read[c].phase # "queued" /\ shared' = shared /\ worker' = worker
        /\ workerPromise' = workerPromise /\ queue' = queue /\ release' = release /\ Kept(c)
        /\ read'[c].phase = "refused" /\ read'[c].worker = read[c].worker
    BY <1>0, <1>1 DEF RefuseRead, ReadingTypes, Kept
  <2> QED BY <2>1, RestKeeps
<1>2. ASSUME NEW c \in Reading, NEW expected, NEW minConfidence, FindText(c, expected, minConfidence)
      PROVE  WorkersInvariant'
  <2>1. /\ ~Active(c) /\ read[c].phase # "queued" /\ shared' = shared /\ worker' = worker
        /\ workerPromise' = workerPromise /\ queue' = queue /\ release' = release /\ Kept(c)
        /\ read'[c].phase \in {"found", "invalid"} /\ read'[c].worker = read[c].worker
    <3>1. CASE SearchThrows(read[c].attempts, expected, minConfidence)
      BY <1>0, <1>2, <3>1 DEF FindText, ReadingTypes, Kept
    <3>2. CASE ~SearchThrows(read[c].attempts, expected, minConfidence)
      BY <1>0, <1>2, <3>2 DEF FindText, ReadingTypes, Kept
    <3> QED BY <3>1, <3>2
  <2> QED BY <2>1, RestKeeps
<1>3. ASSUME NEW c \in Reading, WorkerFailed(c) PROVE WorkersInvariant'
  BY <1>3, EndKeeps DEF WorkerFailed
<1>4. ASSUME NEW c \in Reading, NEW recognized, Recognized(c, recognized) PROVE WorkersInvariant'
  BY <1>4, EndKeeps DEF Recognized
<1>5. ASSUME UNCHANGED readingVars PROVE WorkersInvariant'
  BY <1>0, <1>5 DEF readingVars, WorkersInvariant, ReadingTypes, OwnWorkers, QueueInOrder,
     SharedWorker, Overlapped
<1> QED BY <1>1, <1>2, <1>3, <1>4, <1>5, RecognizeKeeps, GetWorkerKeeps, CreatedKeeps, StartRecognitionKeeps,
           ReleaseKeeps, TakeKeeps, TerminateKeeps
        DEF ReadingNext, ReadStep, WorkerStep, FindStep

\* The invariant says more than the property.
LEMMA WorkersInvariantKeepsWorkers == WorkersInvariant => WorkersAreKept
<1> SUFFICES ASSUME WorkersInvariant PROVE WorkersAreKept
  OBVIOUS
<1> USE DEF Active, Alive
<1>0. ReadingTypes /\ OwnWorkers /\ QueueInOrder /\ SharedWorker
  BY DEF WorkersInvariant
<1>1. DOMAIN worker = 1..Len(worker)
  BY <1>0, LenProperties DEF ReadingTypes
<1>2. CASE shared
  BY <1>0, <1>1, <1>2 DEF SharedWorker, WorkersAreKept
<1>3. CASE ~shared
  <2>1. ASSUME \A c \in Reading : read[c].phase \in {"new", "refused", "error", "text", "found"},
               NEW w \in 1..Len(worker), worker[w] \in {"creating", "ready"}
        PROVE  FALSE
    BY <1>0, <1>3, <2>1 DEF OwnWorkers
  <2> QED BY <1>0, <1>1, <1>3, <2>1 DEF OwnWorkers, WorkersAreKept
<1> QED BY <1>0, <1>2, <1>3 DEF ReadingTypes

\* For every number of reads and releases, in every order: no worker is terminated under
\* a read that was enqueued before, and none is left behind (createOcrWorkerController).
THEOREM WorkersAreAlwaysKept == ReadingSpec => []WorkersAreKept
<1>1. ReadingSpec => []WorkersInvariant
  BY ReadingStarts, WorkersKept, PTL DEF ReadingSpec
<1> QED BY <1>1, WorkersInvariantKeepsWorkers, PTL

-----------------------------------------------------------------------------
(* OCR: the search for a text in what was read.                              *)

(* Quotients. *)
LEMMA QuotientOfSum ==
  ASSUME NEW a \in Nat, NEW b \in Nat \ {0}
  PROVE  (a + b) \div b = (a \div b) + 1
OBVIOUS

\* ... and a quotient grows with its dividend.
LEMMA QuotientGrows ==
  ASSUME NEW a \in Nat, NEW c \in Nat, a <= c, NEW b \in Nat \ {0}
  PROVE  a \div b \in Nat /\ c \div b \in Nat /\ a \div b <= c \div b
OBVIOUS

(* convertTesseractWord keeps words with a box.                              *)
LEMMA ConvertedIsKept ==
  ASSUME NEW words \in Seq(Word)
  PROVE  Converted(words) \in Seq(KeptWord)
<1> DEFINE N == Len(words)
           S == Seq(KeptWord)
           Keeps(n) == words[n].box[1] < words[n].box[2]
           Step == [p \in (1..N) \X S |-> IF Keeps(p[1]) THEN Append(p[2], words[p[1]]) ELSE p[2]]
           Equation(f) == f = [n \in 0..N |-> IF n = 0 THEN <<>>
                                 ELSE IF Keeps(n) THEN Append(f[n - 1], words[n]) ELSE f[n - 1]]
<1>1. N \in Nat /\ DOMAIN words = 1..N
  BY LenProperties
<1>2. \A n \in 1..N : Keeps(n) => words[n] \in KeptWord
  <2>1. \A n \in 1..N : words[n] \in Word
    BY ElementOfSeq
  <2> QED BY <2>1 DEF Word, KeptWord
<1>3. <<>> \in S
  OBVIOUS
<1>4. Step \in [(1..N) \X S -> S]
  <2>1. ASSUME NEW p \in (1..N) \X S
        PROVE  (IF Keeps(p[1]) THEN Append(p[2], words[p[1]]) ELSE p[2]) \in S
    <3>1. p[1] \in 1..N /\ p[2] \in S
      OBVIOUS
    <3> HIDE DEF N, Keeps
    <3>2. Keeps(p[1]) => Append(p[2], words[p[1]]) \in S
      BY <1>2, <3>1, AppendProperties
    <3> QED BY <3>1, <3>2
  <2> HIDE DEF S, Keeps
  <2> QED BY <2>1
<1> HIDE DEF S
<1>5. PICK f : f \in [0..N -> S] /\ f[0] = <<>> /\ \A n \in 1..N : f[n] = Step[<<n, f[n - 1]>>]
  <2> HIDE DEF Step, N
  <2>1. \E f : Unrolled(f, N, S, <<>>, Step)
    BY <1>1, <1>3, <1>4, RecursionExists
  <2> QED BY <2>1 DEF Unrolled
<1>6. \A n \in 1..N : f[n] = IF Keeps(n) THEN Append(f[n - 1], words[n]) ELSE f[n - 1]
  <2>1. ASSUME NEW n \in 1..N
        PROVE  Step[<<n, f[n - 1]>>] = IF Keeps(n) THEN Append(f[n - 1], words[n]) ELSE f[n - 1]
    <3>1. f[n - 1] \in S
      BY <1>1, <1>5
    <3>2. <<n, f[n - 1]>> \in (1..N) \X S
      BY <3>1
    <3> HIDE DEF Keeps
    <3> QED BY <3>2
  <2> HIDE DEF Step, Keeps
  <2> QED BY <1>5, <2>1
<1>7. Equation(f)
  <2> HIDE DEF Keeps
  <2>1. f = [n \in 0..N |-> f[n]]
    BY <1>5
  <2>2. \A n \in 0..N : f[n] = IF n = 0 THEN <<>>
                               ELSE IF Keeps(n) THEN Append(f[n - 1], words[n]) ELSE f[n - 1]
    <3> SUFFICES ASSUME NEW n \in 0..N
                 PROVE  f[n] = IF n = 0 THEN <<>>
                               ELSE IF Keeps(n) THEN Append(f[n - 1], words[n]) ELSE f[n - 1]
      OBVIOUS
    <3>1. n = 0 \/ n \in 1..N
      BY <1>1
    <3> QED BY <1>1, <1>5, <1>6, <3>1
  <2> QED BY <2>1, <2>2
<1> DEFINE kept == CHOOSE g : Equation(g)
<1>8. Converted(words) = kept[N]
  BY DEF Converted
<1>9. Equation(kept)
  <2> HIDE DEF Equation
  <2> QED BY <1>7
<1>10. /\ kept[0] = <<>>
       /\ \A n \in 1..N : kept[n] = IF Keeps(n) THEN Append(kept[n - 1], words[n]) ELSE kept[n - 1]
  <2> HIDE DEF Keeps, kept
  <2>1. \A n \in 0..N : kept[n] = IF n = 0 THEN <<>>
                               ELSE IF Keeps(n) THEN Append(kept[n - 1], words[n]) ELSE kept[n - 1]
    BY <1>9
  <2>2. 0 \in 0..N /\ \A n \in 1..N : n \in 0..N /\ n # 0
    BY <1>1
  <2> HIDE DEF N, Equation
  <2> QED BY <2>1, <2>2
<1> DEFINE B == {n \in 0..N : kept[n] \notin S}
<1> HIDE DEF kept
<1>11. SUFFICES ASSUME B # {} PROVE FALSE
  <2>1. N \in 0..N
    BY <1>1
  <2> QED BY <1>8, <2>1 DEF S
<1>12. B \in SUBSET Nat
  BY <1>1
<1> HIDE DEF B
<1>13. PICK n \in B : \A m \in B : n <= m
  BY <1>11, <1>12, FirstExists
<1> USE DEF B
<1>14. n \in 0..N /\ kept[n] \notin S /\ n # 0
  BY <1>3, <1>10, <1>13
<1>15. n \in 1..N /\ n - 1 \in 0..N /\ kept[n - 1] \in S
  <2>1. n \in 1..N /\ n - 1 \in 0..N /\ ~(n <= n - 1)
    BY <1>1, <1>14
  <2> QED BY <1>13, <2>1
<1> HIDE DEF B, N, Keeps
<1>16. kept[n] \in S
  <2>1. Keeps(n) => Append(kept[n - 1], words[n]) \in S
    BY <1>2, <1>15, AppendProperties DEF S
  <2> QED BY <1>10, <1>15, <2>1
<1> QED BY <1>14, <1>16

-----------------------------------------------------------------------------
(* findOcrTextMatch *)

\* The words of a run.
LEMMA RunWords ==
  ASSUME NEW words \in Seq(KeptWord), NEW length \in 1..Len(words), NEW start \in 1..Len(words),
         start + length <= Len(words) + 1
  PROVE  /\ SubSeq(words, start, start + length - 1) \in Seq(KeptWord)
         /\ Len(SubSeq(words, start, start + length - 1)) = length
         /\ \A i \in 1..length : SubSeq(words, start, start + length - 1)[i] = words[start + i - 1]
<1> DEFINE last == start + length - 1
           run == SubSeq(words, start, last)
<1>1. Len(words) \in Nat
  BY LenProperties
<1>2. last \in Int /\ start \in Int /\ start <= last /\ last - start + 1 = length
      /\ \A i \in start..last : i \in 1..Len(words)
  BY <1>1
<1>3. \A i \in start..last : words[i] \in KeptWord
  BY <1>2, ElementOfSeq
<1> HIDE DEF last
<1>4. /\ run \in Seq(KeptWord) /\ Len(run) = last - start + 1
      /\ \A i \in 1..(last - start + 1) : run[i] = words[start + i - 1]
  BY <1>2, <1>3, SubSeqProperties
<1> QED BY <1>2, <1>4 DEF last

\* What matches are the words of the runs.
LEMMA MatchingIsRuns ==
  ASSUME NEW attempt, attempt.words \in Seq(KeptWord), NEW asked
  PROVE  LET runs == Runs(attempt.words, asked.expected)
         IN /\ runs \in SUBSET (Nat \X Nat)
            /\ \A words \in Matching(attempt, asked) :
                 /\ attempt.confidence >= asked.minConfidence
                 /\ \E run \in runs : run[1] = Len(words)
            /\ attempt.confidence >= asked.minConfidence =>
                 \A run \in runs :
                   LET words == SubSeq(attempt.words, run[2], run[2] + run[1] - 1)
                   IN /\ words \in Matching(attempt, asked) /\ Len(words) = run[1]
                      /\ words \in Seq(KeptWord) /\ words # <<>>
<1> DEFINE all == attempt.words
           N == Len(all)
           expected == asked.expected
           runs == Runs(all, expected)
<1>1. N \in Nat /\ DOMAIN all = 1..N
  BY LenProperties
<1>2. runs \in SUBSET (Nat \X Nat)
  BY <1>1 DEF Runs
<1>3. ASSUME NEW words \in Matching(attempt, asked)
      PROVE  /\ attempt.confidence >= asked.minConfidence
             /\ \E run \in runs : run[1] = Len(words)
  <2> DEFINE choices == (DOMAIN all) \X (DOMAIN all)
  <2>0. PICK p \in choices : words = SubSeq(all, p[1], p[2])
    BY <1>3 DEF Matching
  <2> DEFINE i == p[1]
             j == p[2]
  <2>1. i \in 1..N /\ j \in 1..N /\ words = SubSeq(all, i, j)
    BY <1>1, <2>0
  <2> HIDE DEF i, j
  <2>2. /\ words # <<>> /\ attempt.confidence >= asked.minConfidence
        /\ candidateMatchesExpectedText(words, expected)
    BY <1>3 DEF Matching
  <2>3. \A n \in i..j : all[n] \in KeptWord
    BY <1>1, <2>1, ElementOfSeq
  <2>4. Len(words) = (IF i <= j THEN j - i + 1 ELSE 0) /\ words \in Seq(KeptWord)
    <3>1. i \in Int /\ j \in Int
      BY <1>1, <2>1
    <3> HIDE DEF all
    <3> QED BY <2>1, <2>3, <3>1, SubSeqProperties
  <2>5. i <= j /\ Len(words) = j - i + 1
    BY <2>2, <2>4, EmptySeq
  <2> DEFINE run == <<j - i + 1, i>>
  <2>6. /\ run[1] \in 1..N /\ run[2] \in 1..N /\ run[2] + run[1] <= N + 1
        /\ run[2] + run[1] - 1 = j /\ run[2] = i /\ run \in (1..N) \X (1..N)
    BY <1>1, <2>1, <2>5
  <2>7. candidateMatchesExpectedText(SubSeq(all, run[2], run[2] + run[1] - 1), expected)
    <3> HIDE DEF run
    <3> QED BY <2>1, <2>2, <2>6
  <2>8. run \in runs
    <3> HIDE DEF run
    <3> QED BY <2>6, <2>7 DEF Runs
  <2> QED BY <2>2, <2>5, <2>8
<1>4. ASSUME attempt.confidence >= asked.minConfidence, NEW run \in runs
      PROVE  LET words == SubSeq(all, run[2], run[2] + run[1] - 1)
             IN /\ words \in Matching(attempt, asked) /\ Len(words) = run[1]
                /\ words \in Seq(KeptWord) /\ words # <<>>
  <2> DEFINE words == SubSeq(all, run[2], run[2] + run[1] - 1)
  <2>1. /\ run[1] \in 1..N /\ run[2] \in 1..N /\ run[2] + run[1] <= N + 1
        /\ candidateMatchesExpectedText(words, expected)
    BY <1>4 DEF Runs
  <2>2. words \in Seq(KeptWord) /\ Len(words) = run[1]
    BY <2>1, RunWords
  <2>3. words # <<>>
    <3> HIDE DEF words
    <3> QED BY <1>1, <2>1, <2>2, EmptySeq
  <2>4. run[2] + run[1] - 1 \in 1..N
    BY <1>1, <2>1
  <2>5. words \in {SubSeq(all, p[1], p[2]) : p \in (DOMAIN all) \X (DOMAIN all)}
    <3> DEFINE p == <<run[2], run[2] + run[1] - 1>>
    <3>1. p \in (DOMAIN all) \X (DOMAIN all) /\ words = SubSeq(all, p[1], p[2])
      BY <1>1, <2>1, <2>4
    <3> HIDE DEF p, words
    <3> QED BY <3>1
  <2>6. words \in Matching(attempt, asked)
    <3> HIDE DEF words
    <3> QED BY <1>4, <2>1, <2>3, <2>5 DEF Matching
  <2> QED BY <2>2, <2>3, <2>6
<1> QED BY <1>2, <1>3, <1>4

\* The first of some pairs of naturals is one of them, and no other is shorter.
LEMMA FirstIsShortest ==
  ASSUME NEW pairs \in SUBSET (Nat \X Nat), pairs # {}
  PROVE  First(pairs) \in pairs /\ \A q \in pairs : First(pairs)[1] <= q[1]
<1> DEFINE lengths == {q[1] : q \in pairs}
<1>1. lengths \in SUBSET Nat /\ lengths # {}
  OBVIOUS
<1> HIDE DEF lengths
<1>2. PICK length \in lengths : \A l \in lengths : length <= l
  BY <1>1, FirstExists
<1> USE DEF lengths
<1> DEFINE starts == {q[2] : q \in {r \in pairs : r[1] = length}}
<1>3. starts \in SUBSET Nat /\ starts # {}
  BY <1>2
<1> HIDE DEF starts
<1>4. PICK start \in starts : \A s \in starts : start <= s
  BY <1>3, FirstExists
<1> USE DEF starts
<1>5. PICK p \in pairs : p[1] = length /\ p[2] = start
  BY <1>4
<1>6. ASSUME NEW q \in pairs PROVE p[1] < q[1] \/ (p[1] = q[1] /\ p[2] <= q[2])
  <2>1. q[1] \in lengths /\ length <= q[1] /\ q[1] \in Nat /\ length \in Nat
    BY <1>2
  <2>2. q[1] = length => start <= q[2]
    BY <1>4
  <2> QED BY <1>5, <2>1, <2>2
<1> DEFINE f == First(pairs)
<1>7. f \in pairs /\ \A q \in pairs : f[1] < q[1] \/ (f[1] = q[1] /\ f[2] <= q[2])
  BY <1>6 DEF First
<1> HIDE DEF f
<1>8. \A q \in pairs : f[1] <= q[1]
  <2>1. \A q \in pairs : q[1] \in Nat
    OBVIOUS
  <2> QED BY <1>7, <2>1
<1> QED BY <1>7, <1>8 DEF f

-----------------------------------------------------------------------------
\* The first and the last pixel of a box.
LeftPixel(box) == Origin + (box[1] \div Scale)
RightPixel(box) == Origin + ((box[2] - 1) \div Scale)

\* CaptureBox goes from the first pixel of a box to its last one.
LEMMA BoxPixels ==
  ASSUME NEW box \in Box, box[1] < box[2]
  PROVE  /\ LeftPixel(box) \in Nat /\ RightPixel(box) \in Nat /\ LeftPixel(box) <= RightPixel(box)
         /\ CaptureBox(box).x = LeftPixel(box)
         /\ CaptureBox(box).x + CaptureBox(box).width = RightPixel(box) + 1
         /\ box[1] \in box[1]..(box[2] - 1) /\ box[2] - 1 \in box[1]..(box[2] - 1)
         /\ \A x \in box[1]..(box[2] - 1) :
              Origin + (x \div Scale) \in Nat /\ LeftPixel(box) <= Origin + (x \div Scale)
              /\ Origin + (x \div Scale) <= RightPixel(box)
<1>1. /\ box[1] \in Nat /\ box[2] \in Nat /\ box[2] - 1 \in Nat /\ box[1] <= box[2] - 1
      /\ Origin \in Nat /\ Scale \in Nat \ {0}
  BY BoxAssumption, ScaleAssumption
<1>2. ASSUME NEW x \in box[1]..(box[2] - 1)
      PROVE  /\ Origin + (x \div Scale) \in Nat /\ LeftPixel(box) <= Origin + (x \div Scale)
             /\ Origin + (x \div Scale) <= RightPixel(box)
  <2>1. x \in Nat /\ box[1] <= x /\ x <= box[2] - 1
    BY <1>1
  <2>2. /\ box[1] \div Scale \in Nat /\ x \div Scale \in Nat /\ (box[2] - 1) \div Scale \in Nat
        /\ box[1] \div Scale <= x \div Scale /\ x \div Scale <= (box[2] - 1) \div Scale
    BY <1>1, <2>1, QuotientGrows
  <2> DEFINE a == box[1] \div Scale
             b == x \div Scale
             c == (box[2] - 1) \div Scale
  <2>3. a \in Nat /\ b \in Nat /\ c \in Nat /\ a <= b /\ b <= c
    BY <2>2
  <2>4. LeftPixel(box) = Origin + a /\ RightPixel(box) = Origin + c
    BY DEF LeftPixel, RightPixel
  <2> HIDE DEF a, b, c
  <2>5. Origin + b \in Nat /\ Origin + a <= Origin + b /\ Origin + b <= Origin + c
    BY <1>1, <2>3
  <2> QED BY <2>4, <2>5 DEF b
<1>3. box[1] \in box[1]..(box[2] - 1) /\ box[2] - 1 \in box[1]..(box[2] - 1)
  BY <1>1
<1>4. LeftPixel(box) \in Nat /\ RightPixel(box) \in Nat /\ LeftPixel(box) <= RightPixel(box)
  <2>1. LeftPixel(box) \in Nat /\ LeftPixel(box) <= RightPixel(box)
    BY <1>2, <1>3 DEF LeftPixel
  <2>2. RightPixel(box) \in Nat
    BY <1>2, <1>3 DEF RightPixel
  <2> QED BY <2>1, <2>2
<1> DEFINE right == Origin + ((box[2] + Scale - 1) \div Scale)
<1>5. right = RightPixel(box) + 1
  <2>1. box[2] + Scale - 1 = (box[2] - 1) + Scale
    BY <1>1
  <2>2. ((box[2] - 1) + Scale) \div Scale = ((box[2] - 1) \div Scale) + 1
    BY <1>1, QuotientOfSum
  <2>3. (box[2] - 1) \div Scale \in Nat
    BY <1>1, QuotientGrows
  <2> DEFINE c == (box[2] - 1) \div Scale
  <2>4. right = Origin + (c + 1) /\ RightPixel(box) = Origin + c /\ c \in Nat
    BY <2>1, <2>2, <2>3 DEF RightPixel
  <2> HIDE DEF c, right
  <2> QED BY <1>1, <2>4
<1>6. CaptureBox(box) = [x |-> LeftPixel(box), width |-> Max({1, right - LeftPixel(box)})]
  BY DEF CaptureBox, LeftPixel
<1> HIDE DEF right
<1>7. Max({1, right - LeftPixel(box)}) = right - LeftPixel(box)
  <2> DEFINE width == right - LeftPixel(box)
  <2>1. width \in Nat /\ 1 <= width
    BY <1>4, <1>5
  <2> HIDE DEF width
  <2>2. Max({1, width}) = width
    BY <2>1, MaxIs
  <2> QED BY <2>2 DEF width
<1>8. CaptureBox(box).x = LeftPixel(box) /\ CaptureBox(box).width = right - LeftPixel(box)
  BY <1>6, <1>7
<1>9. CaptureBox(box).x + CaptureBox(box).width = RightPixel(box) + 1
  BY <1>4, <1>5, <1>8
<1> QED BY <1>2, <1>3, <1>4, <1>8, <1>9

\* The bounds of some words begin and end with a pixel of one of them.
LEMMA BoundsAreOfPixels ==
  ASSUME NEW matched \in Seq(KeptWord), matched # <<>>
  PROVE  LET bounds == unionPixelRegions({CaptureBox(w.box) : w \in ToSet(matched)})
             pixels == UNION {{Origin + (x \div Scale) : x \in w.box[1]..(w.box[2] - 1)} :
                                w \in ToSet(matched)}
         IN bounds.x = Min(pixels) /\ bounds.x + bounds.width - 1 = Max(pixels)
<1> DEFINE n == Len(matched)
           regions == {CaptureBox(w.box) : w \in ToSet(matched)}
           bounds == unionPixelRegions(regions)
           pixels == UNION {{Origin + (x \div Scale) : x \in w.box[1]..(w.box[2] - 1)} :
                              w \in ToSet(matched)}
           first == [i \in 1..n |-> LeftPixel(matched[i].box)]
           final == [i \in 1..n |-> RightPixel(matched[i].box)]
<1>1. n \in Nat /\ n # 0 /\ ToSet(matched) = {matched[i] : i \in 1..n}
  BY LenProperties, EmptySeq DEF ToSet
<1>2. \A i \in 1..n : matched[i].box \in Box /\ matched[i].box[1] < matched[i].box[2]
  <2>1. \A i \in 1..n : matched[i] \in KeptWord
    BY ElementOfSeq
  <2> QED BY <2>1 DEF KeptWord
<1> HIDE DEF n
<1>3. \A i \in 1..n : first[i] \in Nat /\ final[i] \in Nat
  BY <1>2, BoxPixels
<1>4. PICK i \in 1..n : \A j \in 1..n : first[i] <= first[j]
  <2> HIDE DEF first
  <2> QED BY <1>1, <1>3, LeastExists
<1>5. PICK k \in 1..n : \A j \in 1..n : final[j] <= final[k]
  <2> HIDE DEF final
  <2> QED BY <1>1, <1>3, GreatestExists
<1>6. ASSUME NEW p \in pixels
      PROVE  p \in Nat /\ first[i] <= p /\ p <= final[k]
  <2>1. PICK j \in 1..n : \E x \in matched[j].box[1]..(matched[j].box[2] - 1) : p = Origin + (x \div Scale)
    BY <1>1, <1>6
  <2>2. p \in Nat /\ LeftPixel(matched[j].box) <= p /\ p <= RightPixel(matched[j].box)
    BY <1>2, <2>1, BoxPixels
  <2>3. p \in Nat /\ first[j] <= p /\ p <= final[j]
    BY <2>2
  <2>4. first[i] <= first[j] /\ final[j] <= final[k]
    BY <1>4, <1>5
  <2> HIDE DEF first, final
  <2> QED BY <1>3, <2>3, <2>4
<1>7. first[i] \in pixels /\ final[k] \in pixels
  <2>1. first[i] \in {Origin + (x \div Scale) : x \in matched[i].box[1]..(matched[i].box[2] - 1)}
    BY <1>2, BoxPixels DEF LeftPixel
  <2>2. final[k] \in {Origin + (x \div Scale) : x \in matched[k].box[1]..(matched[k].box[2] - 1)}
    BY <1>2, BoxPixels DEF RightPixel
  <2>3. matched[i] \in ToSet(matched) /\ matched[k] \in ToSet(matched)
    BY <1>1
  <2> HIDE DEF first, final
  <2> QED BY <2>1, <2>2, <2>3
<1>8. Min(pixels) = first[i] /\ Max(pixels) = final[k]
  <2> HIDE DEF pixels, first, final
  <2>1. pixels \in SUBSET Int
    BY <1>6
  <2> QED BY <1>6, <1>7, <2>1, MinIs, MaxIs
<1> DEFINE xs == {r.x : r \in regions}
           ends == {r.x + r.width : r \in regions}
<1>9. regions = {CaptureBox(matched[j].box) : j \in 1..n}
  BY <1>1
<1>10. xs = {first[j] : j \in 1..n} /\ ends = {final[j] + 1 : j \in 1..n}
  <2>1. \A j \in 1..n : /\ CaptureBox(matched[j].box).x = first[j]
                        /\ CaptureBox(matched[j].box).x + CaptureBox(matched[j].box).width = final[j] + 1
    BY <1>2, BoxPixels
  <2> HIDE DEF regions, first, final
  <2> DEFINE box(j) == CaptureBox(matched[j].box)
  <2>2. xs = {box(j).x : j \in 1..n} /\ ends = {box(j).x + box(j).width : j \in 1..n}
    BY <1>9
  <2>3. \A j \in 1..n : box(j).x = first[j] /\ box(j).x + box(j).width = final[j] + 1
    BY <2>1
  <2> HIDE DEF box, xs, ends
  <2>4. {box(j).x : j \in 1..n} = {first[j] : j \in 1..n}
    BY <2>3
  <2>5. {box(j).x + box(j).width : j \in 1..n} = {final[j] + 1 : j \in 1..n}
    BY <2>3
  <2> QED BY <2>2, <2>4, <2>5
<1> HIDE DEF first, final, xs, ends
<1>11. Min(xs) = first[i]
  <2>1. xs \in SUBSET Int /\ first[i] \in xs /\ \A x \in xs : first[i] <= x
    BY <1>3, <1>4, <1>10
  <2> QED BY <2>1, MinIs
<1>12. Max(ends) = final[k] + 1
  <2>1. \A j \in 1..n : final[j] + 1 \in Int /\ final[j] + 1 <= final[k] + 1
    BY <1>3, <1>5
  <2>2. ends \in SUBSET Int /\ final[k] + 1 \in ends /\ \A x \in ends : x <= final[k] + 1
    BY <1>10, <2>1
  <2> QED BY <2>2, MaxIs
<1>13. bounds = [x |-> Min(xs), width |-> Max(ends) - Min(xs)]
  BY DEF unionPixelRegions, xs, ends
<1>14. bounds.x = first[i] /\ bounds.width = (final[k] + 1) - first[i]
  <2> HIDE DEF bounds
  <2>1. bounds.x = Min(xs)
    BY <1>13
  <2>2. bounds.width = Max(ends) - Min(xs)
    BY <1>13
  <2>3. bounds.x = first[i]
    BY <1>11, <2>1
  <2> QED BY <1>11, <1>12, <2>2, <2>3
<1> HIDE DEF bounds
<1>15. bounds.x = Min(pixels) /\ bounds.x + bounds.width - 1 = Max(pixels)
  <2> HIDE DEF pixels
  <2> QED BY <1>3, <1>8, <1>14
<1> QED BY <1>15 DEF bounds

-----------------------------------------------------------------------------
\* What MatchIsExact says of one search.
Exact(attempts, asked, match) ==
  LET Found(n) == Matching(attempts[n], asked)
      pixels == UNION {{Origin + (x \div Scale) : x \in w.box[1]..(w.box[2] - 1)} :
                         w \in ToSet(match.words)}
  IN IF match = NoMatch THEN \A n \in DOMAIN attempts : Found(n) = {}
     ELSE /\ match.words \in Found(match.attempt)
          /\ \A words \in Found(match.attempt) : Len(match.words) <= Len(words)
          /\ \A n \in 1..(match.attempt - 1) : Found(n) = {}
          /\ match.bounds.x = Min(pixels)
          /\ match.bounds.x + match.bounds.width - 1 = Max(pixels)

\* findOcrTextMatch finds the fewest words that match, and their bounds, exactly if some do.
LEMMA SearchIsExact ==
  ASSUME NEW attempts \in Seq(KeptAttempt), NEW asked
  PROVE  Exact(attempts, asked, findOcrTextMatch(attempts, asked.expected, asked.minConfidence))
<1> DEFINE match == findOcrTextMatch(attempts, asked.expected, asked.minConfidence)
           found == {n \in DOMAIN attempts :
                       /\ attempts[n].confidence >= asked.minConfidence
                       /\ Runs(attempts[n].words, asked.expected) # {}}
<1>1. /\ DOMAIN attempts = 1..Len(attempts) /\ Len(attempts) \in Nat
      /\ \A n \in DOMAIN attempts : attempts[n].words \in Seq(KeptWord)
  <2>1. \A n \in 1..Len(attempts) : attempts[n] \in KeptAttempt
    BY ElementOfSeq
  <2> QED BY <2>1, LenProperties DEF KeptAttempt
<1>2. \A n \in DOMAIN attempts : n \notin found => Matching(attempts[n], asked) = {}
  <2> SUFFICES ASSUME NEW n \in DOMAIN attempts, NEW words \in Matching(attempts[n], asked)
               PROVE  n \in found
    OBVIOUS
  <2>1. /\ attempts[n].confidence >= asked.minConfidence
        /\ \E run \in Runs(attempts[n].words, asked.expected) : run[1] = Len(words)
    BY <1>1, MatchingIsRuns
  <2> QED BY <2>1
<1>3. CASE found = {}
  <2>1. match = NoMatch
    BY <1>3 DEF findOcrTextMatch
  <2>2. \A n \in DOMAIN attempts : Matching(attempts[n], asked) = {}
    BY <1>2, <1>3
  <2> HIDE DEF match
  <2> QED BY <2>1, <2>2 DEF Exact, match
<1>4. CASE found # {}
  <2> DEFINE k == Min(found)
             attempt == attempts[k]
             runs == Runs(attempt.words, asked.expected)
             run == First(runs)
             matched == SubSeq(attempt.words, run[2], run[2] + run[1] - 1)
             bounds == unionPixelRegions({CaptureBox(w.box) : w \in ToSet(matched)})
  <2>1. k \in found /\ \A j \in found : k <= j
    <3>1. found \in SUBSET Nat
      BY <1>1
    <3>2. PICK i \in found : \A j \in found : i <= j
      <4> HIDE DEF found
      <4> QED BY <1>4, <3>1, FirstExists
    <3>3. found \in SUBSET Int
      BY <3>1
    <3> HIDE DEF found
    <3> QED BY <3>2, <3>3, MinIs
  <2>2. match = [attempt |-> k, words |-> matched, bounds |-> bounds]
    BY <1>4 DEF findOcrTextMatch
  <2>3. /\ k \in 1..Len(attempts) /\ attempt.confidence >= asked.minConfidence
        /\ attempt.words \in Seq(KeptWord) /\ runs # {}
    BY <1>1, <2>1
  <2>4. \A n \in 1..(k - 1) : Matching(attempts[n], asked) = {}
    <3> SUFFICES ASSUME NEW n \in 1..(k - 1) PROVE Matching(attempts[n], asked) = {}
      OBVIOUS
    <3>1. k \in Nat /\ n \in DOMAIN attempts /\ ~(k <= n)
      <4> HIDE DEF k
      <4> QED BY <1>1, <2>3
    <3> HIDE DEF k, found
    <3> QED BY <1>2, <2>1, <3>1
  <2> HIDE DEF k, attempt
  <2>5. /\ run \in runs /\ \A q \in runs : run[1] <= q[1]
    <3>1. runs \in SUBSET (Nat \X Nat)
      BY <2>3, MatchingIsRuns
    <3> HIDE DEF runs
    <3> QED BY <2>3, <3>1, FirstIsShortest
  <2> HIDE DEF run
  <2>6. /\ matched \in Matching(attempt, asked) /\ Len(matched) = run[1]
        /\ matched \in Seq(KeptWord) /\ matched # <<>>
    BY <2>3, <2>5, MatchingIsRuns
  <2>7. \A words \in Matching(attempt, asked) : Len(matched) <= Len(words)
    <3> SUFFICES ASSUME NEW words \in Matching(attempt, asked) PROVE Len(matched) <= Len(words)
      OBVIOUS
    <3>1. PICK q \in runs : q[1] = Len(words)
      BY <2>3, MatchingIsRuns
    <3> HIDE DEF runs, matched
    <3> QED BY <2>5, <2>6, <3>1
  <2> HIDE DEF matched
  <2> DEFINE pixels == UNION {{Origin + (x \div Scale) : x \in w.box[1]..(w.box[2] - 1)} :
                                w \in ToSet(matched)}
  <2>8. bounds.x = Min(pixels) /\ bounds.x + bounds.width - 1 = Max(pixels)
    BY <2>6, BoundsAreOfPixels
  <2> HIDE DEF match, bounds
  <2>9. match # NoMatch /\ match.attempt = k /\ match.words = matched /\ match.bounds = bounds
    <3>1. match.attempt = k /\ match.words = matched /\ match.bounds = bounds
      BY <2>2
    <3>2. NoMatch.attempt = 0 /\ k # 0
      BY <1>1, <2>3 DEF NoMatch
    <3> QED BY <3>1, <3>2
  <2>10. Exact(attempts, asked, match)
    BY <2>4, <2>6, <2>7, <2>8, <2>9 DEF Exact, attempt
  <2> QED BY <2>10 DEF match
<1> QED BY <1>3, <1>4

-----------------------------------------------------------------------------
\* What a read has recognized, and what was found in it, stay true of each other.
LEMMA SearchesStart == ReadingInit => SearchesAreTrue
<1>1. <<>> \in Seq(KeptAttempt)
  OBVIOUS
<1>2. ReadingInit => \A c \in Reading : read[c].attempts = <<>> /\ read[c].phase = "new"
  BY DEF ReadingInit
<1> QED BY <1>1, <1>2 DEF SearchesAreTrue

\* ... while one read is changed, or none.
LEMMA SearchesKept ==
  ASSUME SearchesAreTrue, ReadingTypes, [ReadingNext]_readingVars
  PROVE  SearchesAreTrue'
<1> DEFINE Same(d) == /\ read'[d].attempts = read[d].attempts
                      /\ read'[d].phase = "found" => /\ read[d].phase = "found"
                                                     /\ read'[d].asked = read[d].asked
                                                     /\ read'[d].match = read[d].match
           True(d) == /\ read'[d].attempts \in Seq(KeptAttempt)
                      /\ read'[d].phase = "found" =>
                           read'[d].match = findOcrTextMatch(read'[d].attempts, read'[d].asked.expected,
                                                             read'[d].asked.minConfidence)
<1>1. SUFFICES ASSUME NEW d \in Reading PROVE Same(d) \/ True(d)
  <2>1. \A d \in Reading : Same(d) => True(d)
    BY DEF SearchesAreTrue
  <2>2. \A d \in Reading : True(d)
    BY <1>1, <2>1
  <2> QED BY <2>2 DEF SearchesAreTrue
<1>2. d \in DOMAIN read
  BY DEF ReadingTypes
<1>3. ASSUME NEW c \in Reading, Recognize(c) \/ RefuseRead(c) \/ GetWorker(c) \/ StartRecognition(c)
      PROVE  Same(d)
  <2>1. PICK phase \in {"queued", "creating", "refused", "recognizing"} :
          \/ read' = [read EXCEPT ![c].phase = phase]
          \/ \E w : read' = [read EXCEPT ![c].phase = phase, ![c].worker = w]
    BY <1>3 DEF Recognize, RefuseRead, GetWorker, StartRecognition
  <2>2. CASE read' = [read EXCEPT ![c].phase = phase]
    BY <1>2, <2>2 DEF ReadingTypes
  <2>3. CASE \E w : read' = [read EXCEPT ![c].phase = phase, ![c].worker = w]
    <3>1. PICK w : read' = [read EXCEPT ![c].phase = phase, ![c].worker = w]
      BY <2>3
    <3>2. read'[d].attempts = read[d].attempts
      BY <1>2, <3>1 DEF ReadingTypes
    <3>3. read'[d].phase = IF d = c THEN phase ELSE read[d].phase
      BY <1>2, <3>1 DEF ReadingTypes
    <3>4. d # c => read'[d] = read[d]
      BY <1>2, <3>1
    <3> QED BY <3>2, <3>3, <3>4
  <2> QED BY <2>1, <2>2, <2>3
<1>4. ASSUME NEW c \in Reading, NEW attempts \in Seq(KeptAttempt), EndRecognition(c, attempts)
      PROVE  Same(d) \/ True(d)
  <2>1. CASE d = c
    BY <1>2, <1>4, <2>1 DEF EndRecognition, ReadingTypes
  <2>2. CASE d # c
    BY <1>2, <1>4, <2>2 DEF EndRecognition
  <2> QED BY <2>1, <2>2
<1>5. ASSUME NEW c \in Reading, WorkerFailed(c) PROVE Same(d) \/ True(d)
  <2>1. <<>> \in Seq(KeptAttempt)
    OBVIOUS
  <2> HIDE DEF Same, True
  <2> QED BY <1>4, <1>5, <2>1 DEF WorkerFailed
<1>6. ASSUME NEW c \in Reading, NEW recognized \in SeqOf(RecognitionAttempt, MaxAttempts), Recognized(c, recognized)
      PROVE  Same(d) \/ True(d)
  <2> DEFINE attempts == [n \in 1..Len(recognized) |-> [recognized[n] EXCEPT !.words = Converted(@)]]
  <2>1. recognized \in Seq(RecognitionAttempt) /\ Len(recognized) \in Nat
    BY SeqOfIsSeq, BoundsAssumption, LenProperties
  <2>2. ASSUME NEW n \in 1..Len(recognized)
        PROVE  [recognized[n] EXCEPT !.words = Converted(@)] \in KeptAttempt
    <3>1. recognized[n] \in RecognitionAttempt /\ recognized[n].words \in SeqOf(Word, MaxWords)
      <4>1. recognized[n] \in RecognitionAttempt
        BY <2>1, ElementOfSeq
      <4> QED BY <4>1 DEF RecognitionAttempt
    <3>2. recognized[n].words \in Seq(Word)
      BY <3>1, SeqOfIsSeq, BoundsAssumption
    <3>3. Converted(recognized[n].words) \in Seq(KeptWord)
      BY <3>2, ConvertedIsKept
    <3> QED BY <3>1, <3>3 DEF RecognitionAttempt, KeptAttempt
  <2>3. attempts \in Seq(KeptAttempt)
    BY <2>1, <2>2, SeqDef
  <2> HIDE DEF Same, True
  <2> QED BY <1>4, <1>6, <2>3 DEF Recognized
<1>7. ASSUME NEW c \in Reading, NEW expected \in Expectation, NEW minConfidence,
             FindText(c, expected, minConfidence)
      PROVE  Same(d) \/ True(d)
  <2>1. \/ read' = [read EXCEPT ![c].phase = "invalid"]
        \/ read' = [read EXCEPT ![c].phase = "found",
             ![c].asked = [expected |-> expected, minConfidence |-> minConfidence],
             ![c].match = findOcrTextMatch(read[c].attempts, expected, minConfidence)]
    BY <1>7 DEF FindText
  <2>2. CASE read' = [read EXCEPT ![c].phase = "invalid"]
    BY <1>2, <2>2 DEF ReadingTypes
  <2>3. CASE d # c
    BY <1>2, <2>1, <2>3
  <2>4. CASE d = c /\ read' = [read EXCEPT ![c].phase = "found",
                    ![c].asked = [expected |-> expected, minConfidence |-> minConfidence],
                    ![c].match = findOcrTextMatch(read[c].attempts, expected, minConfidence)]
    BY <1>2, <2>4 DEF ReadingTypes, SearchesAreTrue
  <2> QED BY <2>1, <2>2, <2>3, <2>4
<1>8. ASSUME WorkerStep \/ UNCHANGED readingVars PROVE Same(d)
  BY <1>8 DEF WorkerStep, Created, Release, TakeWorker, Terminate, readingVars
<1> HIDE DEF Same, True
<1> QED BY <1>3, <1>5, <1>6, <1>7, <1>8 DEF ReadingNext, ReadStep, FindStep

\* A search that was exact when it was made still is.
LEMMA SearchesAreExact == SearchesAreTrue => MatchIsExact
<1> SUFFICES ASSUME SearchesAreTrue, NEW c \in Reading, read[c].phase = "found"
             PROVE  Exact(read[c].attempts, read[c].asked, read[c].match)
  BY DEF MatchIsExact, Exact
<1> QED BY SearchIsExact DEF SearchesAreTrue

\* At every moment of every set of reads and releases, whatever texts and patterns are
\* looked for, with any boxes and scale: workers are kept, and a search finds something
\* exactly if words in a row of an attempt with enough confidence match, and then the
\* fewest of them, at the pixels of the capture they were read from
\* (createOcrWorkerController, findOcrTextMatch).
THEOREM ReadingIsAlwaysSound == ReadingSpec => []ReadingIsSound
<1>1. WorkersInvariant /\ SearchesAreTrue /\ [ReadingNext]_readingVars
        => WorkersInvariant' /\ SearchesAreTrue'
  BY WorkersKept, SearchesKept DEF WorkersInvariant
<1>2. ReadingSpec => [](WorkersInvariant /\ SearchesAreTrue)
  BY <1>1, ReadingStarts, SearchesStart, PTL DEF ReadingSpec
<1>3. WorkersInvariant /\ SearchesAreTrue => ReadingIsSound
  BY WorkersInvariantKeepsWorkers, SearchesAreExact DEF ReadingIsSound
<1> QED BY <1>2, <1>3, PTL

-----------------------------------------------------------------------------
(* Connection selection.                                                     *)

\* parseConnectionConfiguration

\* The states of the parser: once it has seen a section it is in one.
ParserState ==
  {state \in [valid : BOOLEAN, current : Name \cup {"none"}, names : SUBSET Name,
              sections : [Name -> Seq(Endpoint)]] : state.names # {} => state.current \in state.names}

\* The line that begins a section.
Header(name) == [kind |-> "section", name |-> name]

\* The endpoints of a section among the first n lines: those that no other line parts
\* from its header.
OwnUpTo(lines, n, name) ==
  {k \in 1..n : \E m \in 1..(k - 1) :
     lines[m] = Header(name) /\ \A j \in (m + 1)..k : lines[j].kind = "endpoint"}

\* What the parser knows of the first n lines.
Followed(state, lines, n) ==
  /\ state \in ParserState
  /\ \A name \in Name : name \in state.names <=> \E m \in 1..n : lines[m] = Header(name)
  /\ state.valid =>
       /\ state.names # {} => \E m \in 1..n : /\ lines[m] = Header(state.current)
                                             /\ \A j \in (m + 1)..n : lines[j].kind = "endpoint"
       /\ \A name \in Name :
            /\ ToSet(state.sections[name]) = {lines[k].endpoint : k \in OwnUpTo(lines, n, name)}
            /\ IsFiniteSet(OwnUpTo(lines, n, name))
            /\ Len(state.sections[name]) = Cardinality(OwnUpTo(lines, n, name))

\* What the lines of a file are.
LEMMA LineKinds ==
  ASSUME NEW line \in Line
  PROVE  /\ line.kind = "section" => line.name \in Name /\ line = Header(line.name)
         /\ line.kind = "endpoint" => line.endpoint \in Endpoint
         /\ \A name : line = Header(name) => line.kind = "section" /\ line.name = name
<1>1. CASE line.kind = "section"
  <2>1. line \in [kind : {"section"}, name : Name]
    BY <1>1 DEF Line
  <2> QED BY <1>1, <2>1 DEF Header
<1>2. CASE line.kind # "section"
  <2>1. line.kind = "endpoint" => line.endpoint \in Endpoint
    BY <1>2 DEF Line
  <2> QED BY <1>2, <2>1 DEF Header
<1> QED BY <1>1, <1>2

\* The parser begins before the first line.
LEMMA ParserStarts ==
  ASSUME NEW lines \in Seq(Line)
  PROVE  Followed(NoSection, lines, 0)
<1>1. /\ NoSection.valid = TRUE /\ NoSection.names = {} /\ NoSection \in ParserState
      /\ \A name \in Name : NoSection.sections[name] = <<>>
  <2>1. <<>> \in Seq(Endpoint)
    OBVIOUS
  <2> QED BY <2>1 DEF NoSection, ParserState
<1>2. \A name \in Name : OwnUpTo(lines, 0, name) = {}
  BY DEF OwnUpTo
<1>3. ToSet(<<>>) = {} /\ Len(<<>>) = 0 /\ IsFiniteSet({}) /\ Cardinality({}) = 0
  BY FS_EmptySet DEF ToSet
<1>4. ASSUME NEW name \in Name
      PROVE  /\ ToSet(NoSection.sections[name]) = {lines[k].endpoint : k \in OwnUpTo(lines, 0, name)}
             /\ IsFiniteSet(OwnUpTo(lines, 0, name))
             /\ Len(NoSection.sections[name]) = Cardinality(OwnUpTo(lines, 0, name))
  BY <1>1, <1>2, <1>3
<1>5. \A m \in 1..0 : FALSE
  OBVIOUS
<1>6. \A name \in Name : name \in NoSection.names <=> \E m \in 1..0 : lines[m] = Header(name)
  BY <1>1, <1>5
<1> QED BY <1>1, <1>4, <1>6 DEF Followed

\* The three kinds of step of the parser.
LEMMA SectionParsed ==
  ASSUME NEW state \in ParserState, NEW line \in Line, line.kind = "section"
  PROVE  LET next == ParseLine(state, line) IN
         /\ next \in ParserState /\ next.current = line.name /\ next.names = state.names \cup {line.name}
         /\ next.sections = state.sections /\ (next.valid => state.valid)
<1>1. line.name \in Name
  BY LineKinds
<1>2. ParseLine(state, line) = [state EXCEPT !.valid = @ /\ line.name \notin state.names,
                                             !.current = line.name, !.names = @ \cup {line.name}]
  BY DEF ParseLine
<1> DEFINE next == ParseLine(state, line)
<1>3. state \in [valid : BOOLEAN, current : Name \cup {"none"}, names : SUBSET Name,
                sections : [Name -> Seq(Endpoint)]]
  BY DEF ParserState
<1> HIDE DEF next
<1>4. next = [state EXCEPT !.valid = @ /\ line.name \notin state.names,
                           !.current = line.name, !.names = @ \cup {line.name}]
  BY <1>2 DEF next
<1>5. /\ next.valid <=> (state.valid /\ line.name \notin state.names)
      /\ next.current = line.name /\ next.names = state.names \cup {line.name}
      /\ next.sections = state.sections
  BY <1>3, <1>4
<1>6. next \in [valid : BOOLEAN, current : Name \cup {"none"}, names : SUBSET Name,
               sections : [Name -> Seq(Endpoint)]]
  BY <1>1, <1>3, <1>4
<1>7. next \in ParserState
  BY <1>5, <1>6 DEF ParserState
<1> QED BY <1>5, <1>7 DEF next

\* An endpoint within a section is appended to it, once.
LEMMA EndpointParsed ==
  ASSUME NEW state \in ParserState, NEW line \in Line, line.kind = "endpoint", state.names # {}
  PROVE  LET next == ParseLine(state, line) IN
         /\ next \in ParserState /\ next.current = state.current /\ next.names = state.names
         /\ next.sections = [state.sections EXCEPT ![state.current] = Append(@, line.endpoint)]
         /\ (next.valid => state.valid)
<1>1. line.endpoint \in Endpoint /\ state.current \in Name
  BY LineKinds DEF ParserState
<1>2. ParseLine(state, line) = [state EXCEPT !.sections[state.current] = Append(@, line.endpoint),
                       !.valid = @ /\ line.endpoint \notin ToSet(state.sections[state.current])]
  BY DEF ParseLine
<1>3. [state.sections EXCEPT ![state.current] = Append(@, line.endpoint)] \in [Name -> Seq(Endpoint)]
  BY <1>1, AppendProperties DEF ParserState
<1> QED BY <1>1, <1>2, <1>3 DEF ParserState

\* Any other line makes the file invalid.
LEMMA OtherParsed ==
  ASSUME NEW state \in ParserState, NEW line \in Line, line.kind # "section",
         line.kind # "endpoint" \/ state.names = {}
  PROVE  LET next == ParseLine(state, line) IN
         next \in ParserState /\ next.valid = FALSE /\ next.names = state.names
<1>1. ParseLine(state, line) = [state EXCEPT !.valid = FALSE]
  BY DEF ParseLine
<1> QED BY <1>1 DEF ParserState

\* The elements of a sequence to which one more is appended.
LEMMA ToSetOfAppend ==
  ASSUME NEW S, NEW s \in Seq(S), NEW e \in S
  PROVE  ToSet(Append(s, e)) = ToSet(s) \cup {e}
<1> DEFINE n == Len(s)
           t == Append(s, e)
<1>1. /\ n \in Nat /\ DOMAIN s = 1..n /\ DOMAIN t = 1..(n + 1) /\ t[n + 1] = e
      /\ \A i \in 1..n : t[i] = s[i]
  BY LenProperties, AppendProperties
<1>2. 1..(n + 1) = (1..n) \cup {n + 1}
  BY <1>1
<1> HIDE DEF n, t
<1> QED BY <1>1, <1>2 DEF ToSet, t

\* One more line belongs to the section that was begun last, or to none.
Belongs(lines, n, name) ==
  \E m \in 1..(n - 1) : lines[m] = Header(name) /\ \A j \in (m + 1)..n : lines[j].kind = "endpoint"

\* A line is one more endpoint of the section it belongs to.
LEMMA OwnGrows ==
  ASSUME NEW lines \in Seq(Line), NEW n \in 1..Len(lines), NEW name
  PROVE  /\ OwnUpTo(lines, n, name) = IF Belongs(lines, n, name) THEN OwnUpTo(lines, n - 1, name) \cup {n}
                                      ELSE OwnUpTo(lines, n - 1, name)
         /\ n \notin OwnUpTo(lines, n - 1, name)
<1>1. n \in Nat /\ n # 0 /\ 1..n = (1..(n - 1)) \cup {n} /\ n \notin 1..(n - 1)
  BY LenProperties
<1>2. \A k : OwnUpTo(lines, k, name) = {i \in 1..k : Belongs(lines, i, name)}
  BY DEF OwnUpTo, Belongs
<1> DEFINE P == 1..(n - 1)
           Q == 1..n
<1>3. OwnUpTo(lines, n, name) = {i \in Q : Belongs(lines, i, name)}
      /\ OwnUpTo(lines, n - 1, name) = {i \in P : Belongs(lines, i, name)}
  BY <1>2
<1>4. Q = P \cup {n} /\ n \notin P
  BY <1>1
<1> HIDE DEF P, Q
<1> QED BY <1>3, <1>4

\* ParseLine follows one more line.
LEMMA LineFollowed ==
  ASSUME NEW lines \in Seq(Line), NEW n \in 1..Len(lines), NEW state, Followed(state, lines, n - 1)
  PROVE  Followed(ParseLine(state, lines[n]), lines, n)
<1> DEFINE next == ParseLine(state, lines[n])
           Begun(name, k) == \E m \in 1..k : /\ lines[m] = Header(name)
                                             /\ \A j \in (m + 1)..k : lines[j].kind = "endpoint"
           Listed(s, k, name) ==
             /\ ToSet(s.sections[name]) = {lines[i].endpoint : i \in OwnUpTo(lines, k, name)}
             /\ IsFiniteSet(OwnUpTo(lines, k, name))
             /\ Len(s.sections[name]) = Cardinality(OwnUpTo(lines, k, name))
<1>1. lines[n] \in Line /\ state \in ParserState
      /\ n \in Nat /\ n # 0 /\ 1..n = (1..(n - 1)) \cup {n} /\ n \notin 1..(n - 1)
  BY LenProperties, ElementOfSeq DEF Followed
<1>2. \A name \in Name : (\E m \in 1..n : lines[m] = Header(name)) <=>
                           name \in state.names \/ lines[n] = Header(name)
  BY <1>1 DEF Followed
<1>3. SUFFICES /\ next \in ParserState
               /\ \A name \in Name : name \in next.names <=>
                                        name \in state.names \/ lines[n] = Header(name)
               /\ next.valid => (next.names # {} => Begun(next.current, n))
               /\ next.valid => \A name \in Name : Listed(next, n, name)
  <2> HIDE DEF next
  <2>1. Followed(next, lines, n)
    BY <1>2, <1>3 DEF Followed
  <2> QED BY <2>1 DEF next
<1>4. CASE lines[n].kind = "section"
  <2>1. /\ next \in ParserState /\ next.current = lines[n].name
        /\ next.names = state.names \cup {lines[n].name}
        /\ next.sections = state.sections /\ (next.valid => state.valid)
    BY <1>1, <1>4, SectionParsed
  <2>2. lines[n] = Header(lines[n].name) /\ lines[n].name \in Name
    BY <1>1, <1>4, LineKinds
  <2>3. \A name \in Name : lines[n] = Header(name) <=> lines[n].name = name
    BY <1>1, <2>2, LineKinds
  <2> HIDE DEF next
  <2>4. Begun(next.current, n)
    <3>1. n \in 1..n /\ \A j \in (n + 1)..n : FALSE
      BY <1>1
    <3> QED BY <2>1, <2>2, <3>1
  <2>5. ASSUME next.valid, NEW name \in Name PROVE Listed(next, n, name)
    <3>1. OwnUpTo(lines, n, name) = OwnUpTo(lines, n - 1, name)
      <4>1. \A m \in 1..(n - 1) : n \in (m + 1)..n
        BY <1>1
      <4>2. ~Belongs(lines, n, name)
        BY <1>4, <4>1 DEF Belongs
      <4> QED BY <4>2, OwnGrows
    <3>2. Listed(state, n - 1, name)
      BY <2>1, <2>5 DEF Followed
    <3> QED BY <2>1, <3>1, <3>2
  <2> QED BY <2>1, <2>3, <2>4, <2>5
<1>5. CASE lines[n].kind = "endpoint" /\ state.names # {}
  <2> DEFINE current == state.current
             e == lines[n].endpoint
  <2>1. /\ next \in ParserState /\ next.current = current /\ next.names = state.names
        /\ next.sections = [state.sections EXCEPT ![current] = Append(@, e)]
        /\ (next.valid => state.valid)
    BY <1>1, <1>5, EndpointParsed
  <2>2. current \in Name /\ e \in Endpoint /\ state.sections \in [Name -> Seq(Endpoint)]
        /\ \A name : lines[n] # Header(name)
    BY <1>1, <1>5, LineKinds DEF ParserState
  <2> HIDE DEF next, current, e
  <2>3. ASSUME next.valid
        PROVE  \E m \in 1..(n - 1) : lines[m] = Header(current) /\ \A j \in (m + 1)..n : lines[j].kind = "endpoint"
    <3>1. PICK m \in 1..(n - 1) : lines[m] = Header(current) /\ \A j \in (m + 1)..(n - 1) : lines[j].kind = "endpoint"
      BY <1>5, <2>1, <2>3 DEF Followed, current
    <3>2. \A j \in (m + 1)..n : j \in (m + 1)..(n - 1) \/ j = n
      BY <1>1
    <3> QED BY <1>5, <3>1, <3>2
  <2>4. next.valid => Begun(next.current, n)
    <3>1. \A m \in 1..(n - 1) : m \in 1..n
      BY <1>1
    <3> QED BY <2>1, <2>3, <3>1
  <2>5. ASSUME next.valid, NEW name \in Name PROVE Listed(next, n, name)
    <3>1. Listed(state, n - 1, name) /\ n \notin OwnUpTo(lines, n - 1, name)
      BY <2>1, <2>5, OwnGrows DEF Followed
    <3>2. CASE name = current
      <4>1. OwnUpTo(lines, n, name) = OwnUpTo(lines, n - 1, name) \cup {n}
        BY <2>3, <2>5, <3>2, OwnGrows DEF Belongs
      <4>2. next.sections[name] = Append(state.sections[name], e) /\ state.sections[name] \in Seq(Endpoint)
        BY <2>1, <2>2, <3>2
      <4>3. /\ Len(next.sections[name]) = Len(state.sections[name]) + 1
            /\ ToSet(next.sections[name]) = ToSet(state.sections[name]) \cup {e}
        BY <2>2, <4>2, ToSetOfAppend, AppendProperties
      <4>4. /\ IsFiniteSet(OwnUpTo(lines, n, name))
            /\ Cardinality(OwnUpTo(lines, n, name)) = Cardinality(OwnUpTo(lines, n - 1, name)) + 1
        <5> DEFINE own == OwnUpTo(lines, n - 1, name)
        <5>1. IsFiniteSet(own) /\ n \notin own
          BY <3>1
        <5> HIDE DEF own
        <5>2. IsFiniteSet(own \cup {n}) /\ Cardinality(own \cup {n}) = Cardinality(own) + 1
          BY <5>1, FS_AddElement
        <5> QED BY <4>1, <5>2 DEF own
      <4>5. {lines[i].endpoint : i \in OwnUpTo(lines, n, name)} =
              {lines[i].endpoint : i \in OwnUpTo(lines, n - 1, name)} \cup {e}
        BY <4>1 DEF e
      <4> QED BY <3>1, <4>3, <4>4, <4>5
    <3>3. CASE name # current
      <4>1. PICK m \in 1..(n - 1) : lines[m] = Header(current) /\ \A j \in (m + 1)..n : lines[j].kind = "endpoint"
        BY <2>3, <2>5
      <4>2. ASSUME NEW k \in 1..(n - 1), lines[k] = Header(name), \A j \in (k + 1)..n : lines[j].kind = "endpoint"
            PROVE  FALSE
        <5>1. lines[k].kind = "section" /\ lines[k].name = name
          BY <4>2 DEF Header
        <5>2. lines[m].kind = "section" /\ lines[m].name = current
          BY <4>1 DEF Header
        <5>3. k # m
          BY <3>3, <5>1, <5>2
        <5>4. k \in (m + 1)..n \/ m \in (k + 1)..n
          BY <1>1, <5>3
        <5> QED BY <4>1, <4>2, <5>1, <5>2, <5>4
      <4>3. OwnUpTo(lines, n, name) = OwnUpTo(lines, n - 1, name)
        BY <4>2, OwnGrows DEF Belongs
      <4>4. next.sections[name] = state.sections[name]
        BY <2>1, <2>2, <3>3
      <4> QED BY <3>1, <4>3, <4>4
    <3> QED BY <3>2, <3>3
  <2> QED BY <2>1, <2>2, <2>4, <2>5
<1>6. CASE lines[n].kind # "section" /\ (lines[n].kind # "endpoint" \/ state.names = {})
  <2>1. next \in ParserState /\ next.valid = FALSE /\ next.names = state.names
    BY <1>1, <1>6, OtherParsed
  <2>2. \A name : lines[n] # Header(name)
    BY <1>1, <1>6, LineKinds
  <2> HIDE DEF next
  <2> QED BY <2>1, <2>2
<1> QED BY <1>4, <1>5, <1>6

\* What parseConnectionConfiguration yields has followed every line.
LEMMA FileFollowed ==
  ASSUME NEW lines \in Seq(Line)
  PROVE  Followed(parseConfiguration(lines), lines, Len(lines))
<1> DEFINE N == Len(lines)
           Step == [p \in (1..N) \X ParserState |-> ParseLine(p[2], lines[p[1]])]
           Equation(f) == f = [n \in 0..N |-> IF n = 0 THEN NoSection
                                              ELSE ParseLine(f[n - 1], lines[n])]
           parsed == CHOOSE f : Equation(f)
<1>1. N \in Nat /\ \A n \in 1..N : lines[n] \in Line
  BY LenProperties, ElementOfSeq
<1>2. NoSection \in ParserState
  BY ParserStarts DEF Followed
<1>3. ASSUME NEW state \in ParserState, NEW line \in Line PROVE ParseLine(state, line) \in ParserState
  BY SectionParsed, EndpointParsed, OtherParsed
<1>4. Step \in [(1..N) \X ParserState -> ParserState]
  <2>1. \A p \in (1..N) \X ParserState : ParseLine(p[2], lines[p[1]]) \in ParserState
    BY <1>1, <1>3
  <2> QED BY <2>1
<1>5. PICK f : f \in [0..N -> ParserState] /\ f[0] = NoSection /\ \A n \in 1..N : f[n] = Step[<<n, f[n - 1]>>]
  <2> HIDE DEF Step, N
  <2>1. \E f : Unrolled(f, N, ParserState, NoSection, Step)
    BY <1>1, <1>2, <1>4, RecursionExists
  <2> QED BY <2>1 DEF Unrolled
<1>6. \A n \in 1..N : f[n] = ParseLine(f[n - 1], lines[n])
  <2>1. ASSUME NEW n \in 1..N PROVE Step[<<n, f[n - 1]>>] = ParseLine(f[n - 1], lines[n])
    <3>1. <<n, f[n - 1]>> \in (1..N) \X ParserState
      BY <1>1, <1>5
    <3> QED BY <3>1
  <2> HIDE DEF Step
  <2> QED BY <1>5, <2>1
<1>7. Equation(f)
  <2>1. \A n \in 0..N : f[n] = IF n = 0 THEN NoSection ELSE ParseLine(f[n - 1], lines[n])
    <3>1. \A n \in 0..N : n = 0 \/ n \in 1..N
      BY <1>1
    <3> QED BY <1>5, <1>6, <3>1
  <2> QED BY <1>5, <2>1
<1>8. parseConfiguration(lines) = parsed[N]
  BY DEF parseConfiguration
<1>9. Equation(parsed)
  <2> HIDE DEF Equation
  <2> QED BY <1>7
<1> HIDE DEF parsed
<1>10. parsed[0] = NoSection /\ \A n \in 1..N : parsed[n] = ParseLine(parsed[n - 1], lines[n])
  <2>1. \A n \in 0..N : parsed[n] = IF n = 0 THEN NoSection ELSE ParseLine(parsed[n - 1], lines[n])
    BY <1>9
  <2>2. 0 \in 0..N /\ \A n \in 1..N : n \in 0..N /\ n # 0
    BY <1>1
  <2> HIDE DEF N, Equation
  <2> QED BY <2>1, <2>2
<1> DEFINE B == {n \in 0..N : ~Followed(parsed[n], lines, n)}
<1>11. SUFFICES ASSUME B # {} PROVE FALSE
  <2>1. N \in 0..N
    BY <1>1
  <2> QED BY <1>8, <2>1
<1>12. B \in SUBSET Nat
  BY <1>1
<1> HIDE DEF B
<1>13. PICK n \in B : \A m \in B : n <= m
  BY <1>11, <1>12, FirstExists
<1> USE DEF B
<1>14. n \in 0..N /\ ~Followed(parsed[n], lines, n) /\ n # 0
  BY <1>10, <1>13, ParserStarts
<1>15. n \in 1..N /\ Followed(parsed[n - 1], lines, n - 1)
  <2>1. n \in 1..N /\ n - 1 \in 0..N /\ ~(n <= n - 1)
    BY <1>1, <1>14
  <2> QED BY <1>13, <2>1
<1> QED BY <1>10, <1>14, <1>15, LineFollowed

\* The endpoints that one search yields are those of one section.
LEMMA SectionIsOne ==
  ASSUME configurations \in [1..2 -> File], section \in Name, readConnectionSection # <<>>
  PROVE  /\ readConnectionSection \in Seq(Endpoint)
         /\ \E n \in DOMAIN configurations :
              /\ Names(configurations[n], section)
              /\ ToSet(readConnectionSection) = {configurations[n].lines[k].endpoint : k \in Own(configurations[n], section)}
              /\ Len(readConnectionSection) = Cardinality(Own(configurations[n], section))
              /\ \A m \in 1..(n - 1) : configurations[m].found # "unreadable" /\ ~Names(configurations[m], section)
<1> DEFINE lines(n) == configurations[n].lines
           parsed(n) == parseConfiguration(lines(n))
<1>1. \A n \in 1..2 : lines(n) \in Seq(Line)
  <2>1. ASSUME NEW n \in 1..2 PROVE lines(n) \in Seq(Line)
    <3>1. configurations[n] \in File
      OBVIOUS
    <3>2. lines(n) \in SeqOf(Line, MaxLines) \/ lines(n) = <<>>
      BY <3>1 DEF File
    <3>3. <<>> \in Seq(Line)
      OBVIOUS
    <3> QED BY <3>2, <3>3, SeqOfIsSeq, LinesAssumption
  <2> QED BY <2>1
<1>2. ASSUME NEW n \in 1..2
      PROVE  /\ parsed(n) \in ParserState
             /\ section \in parsed(n).names <=> Names(configurations[n], section)
             /\ parsed(n).valid =>
                  /\ ToSet(parsed(n).sections[section]) = {lines(n)[k].endpoint : k \in Own(configurations[n], section)}
                  /\ Len(parsed(n).sections[section]) = Cardinality(Own(configurations[n], section))
  <2>1. Followed(parsed(n), lines(n), Len(lines(n))) /\ DOMAIN lines(n) = 1..Len(lines(n))
    BY <1>1, FileFollowed, LenProperties
  <2>2. Own(configurations[n], section) = OwnUpTo(lines(n), Len(lines(n)), section)
    BY <2>1 DEF Own, OwnUpTo, Header
  <2>3. Names(configurations[n], section) <=> \E m \in 1..Len(lines(n)) : lines(n)[m] = Header(section)
    BY <2>1 DEF Names, Header
  <2> QED BY <2>1, <2>2, <2>3 DEF Followed
<1>3. Decisive # {} /\ Decisive \subseteq 1..2
  BY DEF readConnectionSection, Decisive
<1> DEFINE n == Min(Decisive)
<1>4. n \in Decisive /\ \A m \in Decisive : n <= m
  <2>1. Decisive \in SUBSET Nat /\ Decisive \in SUBSET Int
    BY <1>3
  <2>2. PICK i \in Decisive : \A m \in Decisive : i <= m
    BY <1>3, <2>1, FirstExists
  <2> QED BY <2>1, <2>2, MinIs
<1> HIDE DEF n
<1>5. n \in 1..2 /\ DOMAIN configurations = 1..2
  BY <1>3, <1>4
<1>6. /\ readConnectionSection = parsed(n).sections[section]
      /\ configurations[n].found # "unreadable" /\ parsed(n).valid
  BY <1>3 DEF readConnectionSection, n
<1>7. Names(configurations[n], section)
  BY <1>2, <1>4, <1>5, <1>6 DEF Decisive
<1>8. ASSUME NEW m \in 1..(n - 1)
      PROVE  configurations[m].found # "unreadable" /\ ~Names(configurations[m], section)
  <2>1. m \in 1..2 /\ m \notin Decisive
    BY <1>4, <1>5
  <2> QED BY <1>2, <1>5, <2>1 DEF Decisive
<1>9. readConnectionSection \in Seq(Endpoint)
  BY <1>2, <1>5, <1>6 DEF ParserState
<1> QED BY <1>2, <1>5, <1>6, <1>7, <1>8, <1>9

-----------------------------------------------------------------------------
\* The rounds of a selection.

\* The types, and that nothing but candidates is tried.
SelectionTypes ==
  /\ explicit \in BOOLEAN /\ section \in Name
  /\ ~explicit => configurations \in [1..2 -> File]
  /\ selectionPhase \in {"resolving", "trying", "delay", "connected", "failed"}
  /\ candidates \in Seq(Endpoint) /\ untried \subseteq ToSet(candidates) /\ round \in 0..MaxRetries
  /\ failures \in Seq(Retryable) /\ tried \in [Endpoint -> Nat]

\* Every candidate was tried once a round, and the round goes on with the others.
RoundsInOrder ==
  /\ selectionPhase = "resolving" =>
       /\ candidates = <<>> /\ round = 0 /\ failures = <<>> /\ \A e \in Endpoint : tried[e] = 0
  /\ selectionPhase \in {"trying", "delay"} =>
       /\ candidates # <<>>
       /\ \A e \in ToSet(candidates) : tried[e] = IF e \in untried THEN round ELSE round + 1
       /\ untried # ToSet(candidates) => failures # <<>>
  /\ selectionPhase = "delay" => untried = {} /\ round < MaxRetries
  /\ \A e \in ToSet(candidates) : tried[e] - round \in 0..1
  /\ selectionPhase = "failed" /\ candidates # <<>> /\ (explicit => error = "AGENT_BUSY")
     /\ error \in Retryable =>
       /\ \A e \in ToSet(candidates) : tried[e] = MaxRetries + 1
       /\ error \in ToSet(failures) \/ Cardinality(ToSet(failures)) > 1

\* The inductive invariant of connection selection.
SelectionInvariant == SelectionTypes /\ RoundsInOrder /\ CandidatesAreOneSection

\* A selection begins in the invariant.
LEMMA SelectionStarts == SelectionInit => SelectionInvariant
<1> SUFFICES ASSUME SelectionInit PROVE SelectionInvariant
  OBVIOUS
<1>1. <<>> \in Seq(Endpoint) /\ <<>> \in Seq(Retryable) /\ ToSet(<<>>) = {}
  BY DEF ToSet
<1>2. /\ selectionPhase = "resolving" /\ candidates = <<>> /\ round = 0 /\ untried = {} /\ failures = <<>>
      /\ tried = [e \in Endpoint |-> 0] /\ explicit \in BOOLEAN /\ section \in Name
      /\ ~explicit => configurations \in [1..2 -> File]
  BY DEF SelectionInit
<1>3. SelectionTypes
  BY <1>1, <1>2, RetriesAssumption DEF SelectionTypes
<1>4. RoundsInOrder
  BY <1>1, <1>2 DEF RoundsInOrder
<1> QED BY <1>2, <1>3, <1>4 DEF SelectionInvariant, CandidatesAreOneSection

\* Two different elements of a sequence.
LEMMA TwoCodes ==
  ASSUME NEW S, NEW s \in Seq(S), NEW n \in DOMAIN s, NEW m \in DOMAIN s, s[n] # s[m]
  PROVE  Cardinality(ToSet(s)) > 1
<1>1. Len(s) \in Nat /\ DOMAIN s = 1..Len(s)
  BY LenProperties
<1>2. IsFiniteSet(ToSet(s))
  <2>1. IsFiniteSet(1..Len(s))
    BY <1>1, FS_Interval
  <2> DEFINE f == [i \in 1..Len(s) |-> s[i]]
  <2>2. f \in Surjection(1..Len(s), ToSet(s))
    BY <1>1 DEF ToSet, Surjection
  <2> QED BY <2>1, <2>2, FS_Surjection
<1>3. {s[n], s[m]} \subseteq ToSet(s)
  BY DEF ToSet
<1>4. IsFiniteSet({s[n], s[m]}) /\ Cardinality({s[n], s[m]}) = 2
  <2>1. IsFiniteSet({s[n]}) /\ Cardinality({s[n]}) = 1
    BY FS_Singleton
  <2>2. {s[n], s[m]} = {s[n]} \cup {s[m]} /\ s[m] \notin {s[n]}
    OBVIOUS
  <2> DEFINE one == {s[n]}
  <2>3. IsFiniteSet(one) /\ Cardinality(one) = 1 /\ s[m] \notin one
    BY <2>1, <2>2
  <2> HIDE DEF one
  <2>4. IsFiniteSet(one \cup {s[m]}) /\ Cardinality(one \cup {s[m]}) = 2
    BY <2>3, FS_AddElement
  <2> QED BY <2>2, <2>4 DEF one
<1>5. Cardinality(ToSet(s)) \in Nat /\ 2 <= Cardinality(ToSet(s))
  BY <1>2, <1>3, <1>4, FS_Subset, FS_CardinalityType
<1> QED BY <1>5

\* Files, section and candidates are settled when the selection is resolved.
LEMMA CandidatesSettled ==
  ASSUME CandidatesAreOneSection, UNCHANGED <<explicit, configurations, section, candidates>>
  PROVE  CandidatesAreOneSection'
BY DEF CandidatesAreOneSection

\* The candidates of an explicit endpoint, or of one section, are settled.
LEMMA ResolveKeeps ==
  ASSUME SelectionInvariant, Resolve
  PROVE  SelectionInvariant'
<1> DEFINE found == IF explicit THEN <<CHOOSE e \in Endpoint : TRUE>> ELSE readConnectionSection
<1>0. SelectionTypes /\ RoundsInOrder
  BY DEF SelectionInvariant
<1>1. /\ selectionPhase = "resolving" /\ candidates' = found /\ untried' = ToSet(found)
      /\ IF found = <<>> THEN selectionPhase' = "failed" ELSE selectionPhase' = "trying"
      /\ explicit' = explicit /\ configurations' = configurations /\ section' = section
      /\ round' = round /\ failures' = failures /\ tried' = tried
  BY DEF Resolve, Fail
<1>2. found \in Seq(Endpoint)
  <2>1. CASE explicit
    <3>1. (CHOOSE e \in Endpoint : TRUE) \in Endpoint
      BY EndpointAssumption
    <3> QED BY <2>1, <3>1
  <2>2. CASE ~explicit
    <3>1. <<>> \in Seq(Endpoint)
      OBVIOUS
    <3> QED BY <1>0, <2>2, <3>1, SectionIsOne DEF SelectionTypes
  <2> QED BY <2>1, <2>2
<1> HIDE DEF found
<1>3. SelectionTypes'
  BY <1>0, <1>1, <1>2 DEF SelectionTypes
<1>4. ToSet(found) \subseteq Endpoint /\ (found = <<>> => ToSet(found) = {})
  <2>1. DOMAIN found = 1..Len(found) /\ \A i \in 1..Len(found) : found[i] \in Endpoint
    BY <1>2, LenProperties, ElementOfSeq
  <2>2. ToSet(<<>>) = {}
    BY DEF ToSet
  <2> QED BY <2>1, <2>2 DEF ToSet
<1>5. RoundsInOrder'
  BY <1>0, <1>1, <1>4 DEF RoundsInOrder
<1>6. CandidatesAreOneSection'
  <2>1. CASE explicit
    BY <1>1, <2>1 DEF CandidatesAreOneSection
  <2>2. CASE ~explicit /\ found # <<>>
    <3>1. found = readConnectionSection
      BY <2>2 DEF found
    <3>2. \E n \in DOMAIN configurations :
              /\ Names(configurations[n], section)
              /\ ToSet(found) = {configurations[n].lines[k].endpoint : k \in Own(configurations[n], section)}
              /\ Len(found) = Cardinality(Own(configurations[n], section))
              /\ \A m \in 1..(n - 1) : configurations[m].found # "unreadable" /\ ~Names(configurations[m], section)
      BY <1>0, <2>2, <3>1, SectionIsOne DEF SelectionTypes
    <3> QED BY <1>1, <3>2 DEF CandidatesAreOneSection
  <2>3. CASE found = <<>>
    BY <1>1, <2>3 DEF CandidatesAreOneSection
  <2> QED BY <1>0, <2>1, <2>2, <2>3 DEF SelectionTypes
<1> QED BY <1>3, <1>5, <1>6 DEF SelectionInvariant

\* One candidate is tried; it connects, is to be retried or ends the selection.
LEMMA AttemptKeeps ==
  ASSUME SelectionInvariant, NEW e \in Endpoint, NEW code,
         Connected(e) \/ Refused(e, code) \/ Broken(e, code)
  PROVE  SelectionInvariant'
<1>0. SelectionTypes /\ RoundsInOrder /\ CandidatesAreOneSection
  BY DEF SelectionInvariant
<1>1. /\ selectionPhase = "trying" /\ e \in untried /\ tried' = [tried EXCEPT ![e] = @ + 1]
      /\ explicit' = explicit /\ configurations' = configurations /\ section' = section
      /\ candidates' = candidates /\ round' = round
      /\ selectionPhase' \in {"connected", "trying", "failed"}
      /\ untried' \subseteq untried
      /\ failures' \in Seq(Retryable)
  <2>1. failures \in Seq(Retryable) /\ (code \in Retryable => Append(failures, code) \in Seq(Retryable))
    BY <1>0, AppendProperties DEF SelectionTypes
  <2>2. "AGENT_BUSY" \in Retryable
    BY DEF Retryable
  <2> QED BY <2>1, <2>2 DEF Connected, Refused, Broken, Attempt, Fail
<1>2. ToSet(candidates) \subseteq Endpoint
  <2>1. DOMAIN candidates = 1..Len(candidates) /\ \A i \in 1..Len(candidates) : candidates[i] \in Endpoint
    BY <1>0, LenProperties, ElementOfSeq DEF SelectionTypes
  <2> QED BY <2>1 DEF ToSet
<1>3. /\ tried' \in [Endpoint -> Nat] /\ tried'[e] = tried[e] + 1
      /\ \A d \in Endpoint : d # e => tried'[d] = tried[d]
  BY <1>0, <1>1 DEF SelectionTypes
<1>4. SelectionTypes'
  <2>1. untried' \subseteq ToSet(candidates')
    BY <1>0, <1>1 DEF SelectionTypes
  <2> QED BY <1>0, <1>1, <1>3, <2>1 DEF SelectionTypes
<1>5. \A d \in ToSet(candidates) : /\ tried'[d] - round \in 0..1
                                   /\ d # e => tried'[d] = IF d \in untried THEN round ELSE round + 1
                                   /\ d = e => tried'[d] = round + 1
  BY <1>0, <1>1, <1>2, <1>3 DEF SelectionTypes, RoundsInOrder
<1>6. CASE Connected(e)
  <2>1. selectionPhase' = "connected"
    BY <1>6 DEF Connected
  <2>2. RoundsInOrder'
    BY <1>1, <1>5, <2>1 DEF RoundsInOrder
  <2> QED BY <1>0, <1>1, <1>4, <2>2, CandidatesSettled DEF SelectionInvariant
<1>7. CASE Refused(e, code)
  <2>1. selectionPhase' = "trying" /\ untried' = untried \ {e} /\ failures' = Append(failures, code)
    BY <1>1, <1>7 DEF Refused
  <2>2. failures' # <<>>
    BY <1>0, <2>1, AppendProperties, EmptySeq DEF SelectionTypes
  <2>3. RoundsInOrder'
    BY <1>0, <1>1, <1>5, <2>1, <2>2 DEF RoundsInOrder
  <2> QED BY <1>0, <1>1, <1>4, <2>3, CandidatesSettled DEF SelectionInvariant
<1>8. CASE Broken(e, code)
  <2>1. selectionPhase' = "failed" /\ error' = code /\ code \notin (IF explicit THEN {"AGENT_BUSY"} ELSE Retryable)
    BY <1>8 DEF Broken, Fail
  <2>2. RoundsInOrder'
    BY <1>0, <1>1, <1>5, <2>1 DEF RoundsInOrder, SelectionTypes
  <2> QED BY <1>0, <1>1, <1>4, <2>2, CandidatesSettled DEF SelectionInvariant
<1> QED BY <1>6, <1>7, <1>8

\* A round ends with a delay or with the failure of the selection.
LEMMA EndRoundKeeps ==
  ASSUME SelectionInvariant, EndRound
  PROVE  SelectionInvariant'
<1>0. SelectionTypes /\ RoundsInOrder /\ CandidatesAreOneSection
  BY DEF SelectionInvariant
<1> DEFINE same == \A n \in DOMAIN failures : failures[n] = failures[1]
<1>1. /\ selectionPhase = "trying" /\ untried = {}
      /\ UNCHANGED <<explicit, configurations, section, candidates, round, untried, failures, tried>>
      /\ IF round >= MaxRetries
         THEN selectionPhase' = "failed" /\ error' = IF same THEN failures[1] ELSE "CONNECTION_FAILED"
         ELSE selectionPhase' = "delay"
  BY DEF EndRound, Fail
<1> HIDE DEF same
<1>2. SelectionTypes'
  BY <1>0, <1>1 DEF SelectionTypes
<1>3. /\ candidates # <<>> /\ ToSet(candidates) # {} /\ failures # <<>>
      /\ 1 \in DOMAIN failures /\ failures[1] \in ToSet(failures)
  <2>1. DOMAIN candidates = 1..Len(candidates) /\ DOMAIN failures = 1..Len(failures)
        /\ Len(candidates) \in Nat /\ Len(failures) \in Nat
    BY <1>0, LenProperties DEF SelectionTypes
  <2>2. candidates # <<>> /\ Len(candidates) # 0
    BY <1>0, <1>1, EmptySeq DEF SelectionTypes, RoundsInOrder
  <2>3. candidates[1] \in ToSet(candidates)
    BY <2>1, <2>2 DEF ToSet
  <2>4. failures # <<>> /\ Len(failures) # 0
    BY <1>0, <1>1, <2>3, EmptySeq DEF SelectionTypes, RoundsInOrder
  <2> QED BY <2>1, <2>2, <2>3, <2>4 DEF ToSet
<1>4. CASE round >= MaxRetries
  <2>1. round = MaxRetries
    BY <1>0, <1>4, RetriesAssumption DEF SelectionTypes
  <2>2. \A e \in ToSet(candidates) : tried[e] = MaxRetries + 1 /\ tried[e] - round \in 0..1
    BY <1>0, <1>1, <2>1, RetriesAssumption DEF RoundsInOrder
  <2>3. error' \in ToSet(failures) \/ Cardinality(ToSet(failures)) > 1
    <3>1. CASE same
      BY <1>1, <1>3, <1>4, <3>1
    <3>2. CASE ~same
      <4>1. PICK n \in DOMAIN failures : failures[n] # failures[1]
        BY <3>2 DEF same
      <4> QED BY <1>0, <1>3, <4>1, TwoCodes DEF SelectionTypes
    <3> QED BY <3>1, <3>2
  <2>4. RoundsInOrder'
    BY <1>1, <1>4, <2>2, <2>3 DEF RoundsInOrder
  <2> QED BY <1>0, <1>1, <1>2, <2>4, CandidatesSettled DEF SelectionInvariant
<1>5. CASE ~(round >= MaxRetries)
  <2>1. round < MaxRetries
    BY <1>0, <1>5, RetriesAssumption DEF SelectionTypes
  <2>2. RoundsInOrder'
    BY <1>0, <1>1, <1>5, <2>1 DEF RoundsInOrder
  <2> QED BY <1>0, <1>1, <1>2, <2>2, CandidatesSettled DEF SelectionInvariant
<1> QED BY <1>4, <1>5

\* The next round begins with all the candidates.
LEMMA DelayKeeps ==
  ASSUME SelectionInvariant, DelayEnds
  PROVE  SelectionInvariant'
<1>0. SelectionTypes /\ RoundsInOrder /\ CandidatesAreOneSection
  BY DEF SelectionInvariant
<1>1. /\ selectionPhase = "delay" /\ selectionPhase' = "trying" /\ round' = round + 1
      /\ untried' = ToSet(candidates) /\ failures' = <<>>
      /\ UNCHANGED <<explicit, configurations, section, candidates, tried, error>>
  BY DEF DelayEnds
<1>2. SelectionTypes'
  <2>1. round' \in 0..MaxRetries
    BY <1>0, <1>1, RetriesAssumption DEF SelectionTypes, RoundsInOrder
  <2>2. failures' \in Seq(Retryable)
    BY <1>1
  <2> QED BY <1>0, <1>1, <2>1, <2>2 DEF SelectionTypes
<1>3. \A e \in ToSet(candidates) : tried[e] = round' /\ tried[e] - round' \in 0..1
  BY <1>0, <1>1 DEF SelectionTypes, RoundsInOrder
<1>4. RoundsInOrder'
  BY <1>0, <1>1, <1>3 DEF RoundsInOrder
<1> QED BY <1>0, <1>1, <1>2, <1>4, CandidatesSettled DEF SelectionInvariant

\* Every step of a selection keeps the invariant.
LEMMA SelectionKept == SelectionInvariant /\ [SelectionNext]_selectionVars => SelectionInvariant'
<1> SUFFICES ASSUME SelectionInvariant, [SelectionNext]_selectionVars PROVE SelectionInvariant'
  OBVIOUS
<1>1. CASE UNCHANGED selectionVars
  <2>1. SelectionTypes' /\ RoundsInOrder'
    BY <1>1 DEF selectionVars, SelectionInvariant, SelectionTypes, RoundsInOrder
  <2>2. CandidatesAreOneSection'
    BY <1>1, CandidatesSettled DEF selectionVars, SelectionInvariant
  <2> QED BY <2>1, <2>2 DEF SelectionInvariant
<1> QED BY <1>1, ResolveKeeps, AttemptKeeps, EndRoundKeeps, DelayKeeps DEF SelectionNext

\* The invariant says more than the property.
LEMMA InvariantIsComplete == SelectionInvariant => SelectionIsComplete
<1> SUFFICES ASSUME SelectionInvariant PROVE EveryCandidateIsTried
  BY DEF SelectionInvariant, SelectionIsComplete
<1>1. \A n \in DOMAIN candidates : candidates[n] \in ToSet(candidates)
  BY DEF ToSet
<1> QED BY <1>1 DEF SelectionInvariant, RoundsInOrder, EveryCandidateIsTried

\* At every moment of every selection, from files of any length, over any endpoints and
\* any number of retries: the candidates are those of one section of the first file that
\* has it, and a selection fails only when every candidate was tried in every round or
\* its failure is no reason to retry (loadConnectionSection,
\* selectConnection, selectExplicitConnection).
THEOREM SelectionIsAlwaysComplete == SelectionSpec => []SelectionIsComplete
<1>1. SelectionSpec => []SelectionInvariant
  BY SelectionStarts, SelectionKept, PTL DEF SelectionSpec
<1> QED BY <1>1, InvariantIsComplete, PTL

-----------------------------------------------------------------------------
(* The comparison of images.                                                 *)

(* Rows and columns. *)
LEMMA RowAndColumn ==
  ASSUME NEW w \in Nat \ {0}, NEW h \in Nat \ {0}, NEW i \in 0..(w * h - 1)
  PROVE  i \div w \in 0..(h - 1) /\ i % w \in 0..(w - 1) /\ i = (i \div w) * w + (i % w)
OBVIOUS

\* ... an index is made of a row and a column ...
LEMMA IndexInside ==
  ASSUME NEW w \in Nat \ {0}, NEW h \in Nat \ {0}, NEW q \in 0..(h - 1), NEW r \in 0..(w - 1)
  PROVE  q * w + r \in 0..(w * h - 1)
OBVIOUS

\* ... which are those it was made of.
LEMMA IndexIsOne ==
  ASSUME NEW w \in Nat \ {0}, NEW q \in Nat, NEW r \in 0..(w - 1)
  PROVE  (q * w + r) \div w = q /\ (q * w + r) % w = r
OBVIOUS

\* The greater and the smaller of two integers.
LEMMA GreaterOfTwo ==
  ASSUME NEW a \in Int, NEW b \in Int
  PROVE  Max({a, b}) = IF a >= b THEN a ELSE b
BY DEF Max

\* ... and the smaller one.
LEMMA SmallerOfTwo ==
  ASSUME NEW a \in Int, NEW b \in Int
  PROVE  Min({a, b}) = IF a <= b THEN a ELSE b
BY DEF Min

\* The regions that validateRegion accepts lie within the capture.
Valid == {r \in Regions : validateRegion(r)}

\* The sides of such a region.
LEMMA ValidRegion ==
  ASSUME NEW r \in Valid
  PROVE  /\ r.x \in Nat /\ r.y \in Nat /\ r.width \in Nat \ {0} /\ r.height \in Nat \ {0}
         /\ r.x + r.width <= Width /\ r.y + r.height <= Height
BY SizeAssumption DEF Valid, Regions, Region, validateRegion

\* The place of an element of a region's data.
Place(i, r) == <<r.x + (i % r.width), r.y + (i \div r.width)>>

\* The place of an index lies within the region, and its index is that one.
LEMMA PlaceInside ==
  ASSUME NEW r \in Valid, NEW i \in 0..(r.width * r.height - 1)
  PROVE  /\ Place(i, r) \in (0..(Width - 1)) \X (0..(Height - 1))
         /\ Within(Place(i, r)[1], Place(i, r)[2], r)
         /\ i = (Place(i, r)[2] - r.y) * r.width + (Place(i, r)[1] - r.x)
<1> DEFINE a == i % r.width
           b == i \div r.width
           w == r.width
           h == r.height
<1>1. /\ r.x \in Nat /\ r.y \in Nat /\ w \in Nat \ {0} /\ h \in Nat \ {0}
      /\ r.x + w <= Width /\ r.y + h <= Height /\ Width \in Nat /\ Height \in Nat
  BY ValidRegion, SizeAssumption
<1>2. b \in 0..(h - 1) /\ a \in 0..(w - 1) /\ i = b * w + a
  BY <1>1, RowAndColumn
<1>3. Place(i, r) = <<r.x + a, r.y + b>>
  BY DEF Place
<1> HIDE DEF a, b, w, h
<1>4. r.x + a \in 0..(Width - 1) /\ r.y + b \in 0..(Height - 1)
  BY <1>1, <1>2
<1>5. r.x + a \in r.x..(r.x + w - 1) /\ r.y + b \in r.y..(r.y + h - 1)
  BY <1>1, <1>2
<1>6. (r.y + b) - r.y = b /\ (r.x + a) - r.x = a
  BY <1>1, <1>2
<1> QED BY <1>2, <1>3, <1>4, <1>5, <1>6 DEF Within, w, h

\* Every place within the region has an index.
LEMMA IndexOfPlace ==
  ASSUME NEW r \in Valid, NEW x \in Int, NEW y \in Int, Within(x, y, r)
  PROVE  LET i == (y - r.y) * r.width + (x - r.x) IN
         i \in 0..(r.width * r.height - 1) /\ Place(i, r) = <<x, y>>
<1> DEFINE a == x - r.x
           b == y - r.y
           w == r.width
           h == r.height
           i == b * w + a
<1>1. r.x \in Nat /\ r.y \in Nat /\ w \in Nat \ {0} /\ h \in Nat \ {0}
  BY ValidRegion
<1>2. a \in 0..(w - 1) /\ b \in 0..(h - 1) /\ b \in Nat /\ r.x + a = x /\ r.y + b = y
  BY <1>1 DEF Within
<1> HIDE DEF a, b
<1>3. i \in 0..(w * h - 1)
  BY <1>1, <1>2, IndexInside
<1>4. i \div w = b /\ i % w = a
  BY <1>1, <1>2, IndexIsOne
<1>5. Place(i, r) = <<x, y>>
  BY <1>2, <1>4 DEF Place
<1> QED BY <1>3, <1>5 DEF a, b

\* A mask blanks what lies within it and the region.
LEMMA MaskIsExact ==
  ASSUME NEW r \in Valid, NEW m \in Valid, NEW i \in 0..(r.width * r.height - 1)
  PROVE  i \in MaskedIndices(r, m) <=> Within(Place(i, r)[1], Place(i, r)[2], m)
<1> DEFINE left == Max({r.x, m.x})
           top == Max({r.y, m.y})
           right == Min({r.x + r.width, m.x + m.width})
           bottom == Min({r.y + r.height, m.y + m.height})
           p == Place(i, r)
<1>1. /\ r.x \in Nat /\ r.y \in Nat /\ r.width \in Nat \ {0} /\ r.height \in Nat \ {0}
      /\ m.x \in Nat /\ m.y \in Nat /\ m.width \in Nat \ {0} /\ m.height \in Nat \ {0}
  BY ValidRegion
<1>2. /\ left = IF r.x >= m.x THEN r.x ELSE m.x
      /\ top = IF r.y >= m.y THEN r.y ELSE m.y
  BY <1>1, GreaterOfTwo
<1>3. /\ right = IF r.x + r.width <= m.x + m.width THEN r.x + r.width ELSE m.x + m.width
      /\ bottom = IF r.y + r.height <= m.y + m.height THEN r.y + r.height ELSE m.y + m.height
  <2>1. r.x + r.width \in Int /\ m.x + m.width \in Int /\ r.y + r.height \in Int /\ m.y + m.height \in Int
    BY <1>1
  <2> QED BY <2>1, SmallerOfTwo
<1>4. MaskedIndices(r, m) =
        {(y - r.y) * r.width + (x - r.x) : x \in left..(right - 1), y \in top..(bottom - 1)}
  BY DEF MaskedIndices
<1> HIDE DEF left, top, right, bottom
<1>5. left \in Int /\ top \in Int /\ right \in Int /\ bottom \in Int
  BY <1>1, <1>2, <1>3
<1>6. \A x, y \in Int : x \in left..(right - 1) /\ y \in top..(bottom - 1) <=> Within(x, y, r) /\ Within(x, y, m)
  BY <1>1, <1>2, <1>3, <1>5 DEF Within
<1>7. /\ p[1] \in Int /\ p[2] \in Int /\ Within(p[1], p[2], r)
      /\ i = (p[2] - r.y) * r.width + (p[1] - r.x)
  <2>1. \A a \in 0..(Width - 1), b \in 0..(Height - 1) : a \in Int /\ b \in Int
    BY SizeAssumption
  <2> QED BY <2>1, PlaceInside
<1>8. ASSUME NEW x \in left..(right - 1), NEW y \in top..(bottom - 1), i = (y - r.y) * r.width + (x - r.x)
      PROVE  p = <<x, y>> /\ Within(x, y, m)
  <2>1. x \in Int /\ y \in Int
    BY <1>5
  <2> QED BY <1>6, <1>8, <2>1, IndexOfPlace
<1> HIDE DEF p
<1>9. Within(p[1], p[2], m) => i \in MaskedIndices(r, m)
  BY <1>4, <1>6, <1>7
<1>10. i \in MaskedIndices(r, m) => Within(p[1], p[2], m)
  <2>1. SUFFICES ASSUME i \in MaskedIndices(r, m) PROVE Within(p[1], p[2], m)
    OBVIOUS
  <2>2. PICK x \in left..(right - 1), y \in top..(bottom - 1) : i = (y - r.y) * r.width + (x - r.x)
    BY <1>4, <2>1
  <2>3. p = <<x, y>> /\ Within(x, y, m)
    BY <1>8, <2>2
  <2> QED BY <2>3
<1> QED BY <1>9, <1>10 DEF p

\* copyRegionData and applyMasks count the pixels that differ.
LEMMA CountIsExact ==
  ASSUME NEW input \in Inputs
  PROVE  DiffPixels(input) = Cardinality(Differing(input))
<1> DEFINE r == input.region
           Prepared(image) == applyMasks(copyRegionData(image, r), r, input.masks)
           actual == Prepared(input.actual)
           expected == Prepared(input.expected)
           D == {i \in DOMAIN actual : actual[i] # expected[i]}
           N == r.width * r.height - 1
           f == [i \in D |-> Place(i, r)]
           ValueAt(image, p) == image[p[2] * Width + p[1]]
           Blank(p) == \E m \in input.masks : Within(p[1], p[2], m)
<1>1. r \in Valid /\ input.masks \subseteq Valid
  BY DEF Inputs, Valid
<1>2. ASSUME NEW image
      PROVE  /\ DOMAIN Prepared(image) = 0..N
             /\ \A i \in 0..N : Prepared(image)[i] =
                  IF Blank(Place(i, r)) THEN 0 ELSE ValueAt(image, Place(i, r))
  <2> DEFINE data == copyRegionData(image, r)
  <2>1. DOMAIN data = 0..N /\ \A i \in 0..N : data[i] = image[(r.y + (i \div r.width)) * Width + r.x + (i % r.width)]
    BY DEF copyRegionData
  <2> HIDE DEF data, N
  <2>2. DOMAIN Prepared(image) = 0..N
        /\ \A i \in 0..N : Prepared(image)[i] = IF \E m \in input.masks : i \in MaskedIndices(r, m) THEN 0 ELSE data[i]
    BY <2>1 DEF applyMasks, data
  <2>3. ASSUME NEW i \in 0..N
        PROVE  /\ (\E m \in input.masks : i \in MaskedIndices(r, m)) <=> Blank(Place(i, r))
               /\ data[i] = ValueAt(image, Place(i, r))
    <3>1. (\E m \in input.masks : i \in MaskedIndices(r, m)) <=> Blank(Place(i, r))
      BY <1>1, MaskIsExact DEF N
    <3> DEFINE a == i % r.width
               b == i \div r.width
    <3>2. /\ r.x \in Nat /\ r.y \in Nat /\ r.width \in Nat \ {0} /\ r.height \in Nat \ {0} /\ Width \in Nat
      BY <1>1, ValidRegion, SizeAssumption
    <3>3. a \in Nat /\ b \in Nat
      <4>1. a \in 0..(r.width - 1) /\ b \in 0..(r.height - 1)
        BY <3>2, RowAndColumn DEF N
      <4> QED BY <3>2, <4>1
    <3>4. data[i] = image[(r.y + b) * Width + r.x + a] /\ Place(i, r) = <<r.x + a, r.y + b>>
      BY <2>1 DEF Place
    <3> HIDE DEF a, b
    <3>5. (r.y + b) * Width + r.x + a = (r.y + b) * Width + (r.x + a)
      BY <3>2, <3>3
    <3> QED BY <3>1, <3>4, <3>5
  <2> HIDE DEF Blank, ValueAt
  <2> QED BY <2>2, <2>3
<1> HIDE DEF Prepared, ValueAt, Blank, r, N
<1>3. D = {i \in 0..N : ~Blank(Place(i, r)) /\ ValueAt(input.actual, Place(i, r)) # ValueAt(input.expected, Place(i, r))}
  BY <1>2
<1>4. Differing(input) = {p \in (0..(Width - 1)) \X (0..(Height - 1)) :
         Within(p[1], p[2], r) /\ ~Blank(p) /\ ValueAt(input.actual, p) # ValueAt(input.expected, p)}
  BY DEF Differing, ValueAt, Blank, r
<1>5. \A i \in 0..N : /\ Place(i, r) \in (0..(Width - 1)) \X (0..(Height - 1))
                      /\ Within(Place(i, r)[1], Place(i, r)[2], r)
                      /\ i = (Place(i, r)[2] - r.y) * r.width + (Place(i, r)[1] - r.x)
  BY <1>1, PlaceInside DEF N
<1> HIDE DEF D
<1>6. f \in [D -> Differing(input)]
  BY <1>3, <1>4, <1>5
<1>7. \A i, j \in D : f[i] = f[j] => i = j
  <2>1. SUFFICES ASSUME NEW i \in D, NEW j \in D, Place(i, r) = Place(j, r) PROVE i = j
    OBVIOUS
  <2>2. i \in 0..N /\ j \in 0..N
    BY <1>3
  <2>3. i = (Place(i, r)[2] - r.y) * r.width + (Place(i, r)[1] - r.x)
    BY <1>5, <2>2
  <2>4. j = (Place(j, r)[2] - r.y) * r.width + (Place(j, r)[1] - r.x)
    BY <1>5, <2>2
  <2> QED BY <2>1, <2>3, <2>4
<1>8. ASSUME NEW p \in Differing(input)
      PROVE  \E i \in D : f[i] = p
  <2> DEFINE i == (p[2] - r.y) * r.width + (p[1] - r.x)
  <2>1. /\ p \in (0..(Width - 1)) \X (0..(Height - 1)) /\ p = <<p[1], p[2]>>
        /\ Within(p[1], p[2], r) /\ ~Blank(p) /\ ValueAt(input.actual, p) # ValueAt(input.expected, p)
    BY <1>4
  <2>2. p[1] \in Int /\ p[2] \in Int
    BY <2>1, SizeAssumption
  <2>3. i \in 0..N /\ Place(i, r) = <<p[1], p[2]>>
    BY <1>1, <2>1, <2>2, IndexOfPlace DEF N
  <2> HIDE DEF i
  <2>4. Place(i, r) = p
    BY <2>1, <2>3
  <2>5. i \in D
    BY <1>3, <2>1, <2>3, <2>4
  <2> QED BY <2>4, <2>5
<1>9. ExistsBijection(D, Differing(input))
  <2> HIDE DEF f
  <2>1. f \in Bijection(D, Differing(input))
    BY <1>6, <1>7, <1>8 DEF Bijection, Injection, Surjection, IsInjective
  <2> QED BY <2>1 DEF ExistsBijection
<1>10. IsFiniteSet(D)
  <2>1. IsFiniteSet(0..N)
    <3>1. N \in Int
      BY <1>1, ValidRegion DEF N
    <3> QED BY <3>1, FS_Interval
  <2> QED BY <1>3, <2>1, FS_Subset
<1>11. Cardinality(D) = Cardinality(Differing(input))
  BY <1>9, <1>10, FS_Bijection
<1>12. DiffPixels(input) = Cardinality(D)
  BY DEF DiffPixels, D, Prepared, r
<1> QED BY <1>11, <1>12

-----------------------------------------------------------------------------
\* The files an assertion has written when it is in a phase.
Files(phase) ==
  CASE phase \in {"context", "loaded"} -> {}
    [] phase = "actual" -> {"actual.png"}
    [] phase \in {"saved", "passed", "differs"} -> {"actual.png", "metadata.json"}
    [] phase = "expected" -> {"actual.png", "metadata.json", "expected.png"}
    [] phase = "failed" -> {"actual.png", "metadata.json", "expected.png", "diff.png"}

\* The phases of an assertion that has its number and has not failed to be written.
Writing == {"context", "loaded", "actual", "saved", "passed", "differs", "expected", "failed"}

\* The types, and that no number was given that is still to come.
ComparisonTypes ==
  /\ saving \in BOOLEAN /\ counter \in Nat
  /\ DOMAIN call = Assertion
  /\ \A c \in Assertion :
       /\ DOMAIN call[c] = {"phase", "number", "input", "diffPixels"}
       /\ call[c].phase \in Writing \cup {"new", "error"}
       /\ call[c].phase # "new" => call[c].number \in Nat /\ call[c].number < counter

\* Every assertion that began has a number of its own, and under that number the files
\* it has written so far and no others.
OwnNumbers ==
  /\ \A c, d \in Assertion :
       call[c].phase # "new" /\ call[d].phase # "new" /\ call[c].number = call[d].number => c = d
  /\ \A file \in evidence : file[1] \in Nat /\ file[1] < counter
  /\ saving => \A c \in Assertion : call[c].phase \in Writing =>
       \A file : file \in evidence /\ file[1] = call[c].number <=>
         \E name \in Files(call[c].phase) : file = <<call[c].number, name, c>>

\* What an assertion was found to differ by.
CountsAreTrue ==
  \A c \in Assertion : call[c].phase \in {"passed", "differs", "expected", "failed"} =>
    call[c].input \in Inputs /\ call[c].diffPixels = DiffPixels(call[c].input)

\* The inductive invariant of the assertions.
ComparisonInvariant == ComparisonTypes /\ OwnNumbers /\ CountsAreTrue

\* No assertion has begun.
LEMMA ComparisonStarts == ComparisonInit => ComparisonInvariant
<1> SUFFICES ASSUME ComparisonInit PROVE ComparisonInvariant
  OBVIOUS
<1>1. /\ saving \in BOOLEAN /\ counter = 0 /\ evidence = {} /\ DOMAIN call = Assertion
      /\ \A c \in Assertion : call[c].phase = "new" /\ DOMAIN call[c] = {"phase", "number", "input", "diffPixels"}
  BY DEF ComparisonInit
<1> QED BY <1>1 DEF ComparisonInvariant, ComparisonTypes, OwnNumbers, CountsAreTrue, Writing

\* One assertion goes on to another phase and writes one file or none.
Goes(c, phase) ==
  /\ DOMAIN call' = Assertion /\ DOMAIN call'[c] = DOMAIN call[c]
  /\ call'[c].phase = phase /\ call'[c].number = call[c].number
  /\ call'[c].input = call[c].input /\ call'[c].diffPixels = call[c].diffPixels
  /\ \A d \in Assertion : d # c => call'[d] = call[d]

\* A change of the phase alone.
LEMMA PhaseGoes ==
  ASSUME ComparisonTypes, NEW c \in Assertion, NEW phase, call' = [call EXCEPT ![c].phase = phase]
  PROVE  Goes(c, phase)
BY DEF ComparisonTypes, Goes

\* What an assertion was found to differ by stays true as it goes on.
LEMMA CountsKept ==
  ASSUME ComparisonInvariant, NEW c \in Assertion, NEW phase, Goes(c, phase),
         \/ phase \notin {"passed", "differs", "expected", "failed"}
         \/ call[c].phase \in {"passed", "differs", "expected", "failed"}
  PROVE  CountsAreTrue'
BY DEF ComparisonInvariant, CountsAreTrue, Goes

\* The file that an assertion writes, or none.
LEMMA FileWritten ==
  ASSUME ComparisonInvariant, NEW c \in Assertion, NEW phase \in Writing, Goes(c, phase),
         call[c].phase \in Writing, saving' = saving, counter' = counter, NEW written,
         Files(phase) = Files(call[c].phase) \cup written, written \cap Files(call[c].phase) = {},
         Write(c, written)
  PROVE  ComparisonTypes' /\ OwnNumbers'
<1> DEFINE n == call[c].number
<1>0. ComparisonTypes /\ OwnNumbers
  BY DEF ComparisonInvariant
<1>1. n \in Nat /\ n < counter /\ call[c].phase # "new" /\ phase # "new"
  BY <1>0 DEF ComparisonTypes, Writing
<1>2. ComparisonTypes'
  BY <1>0, <1>1 DEF ComparisonTypes, Goes
<1>3. \A d \in Assertion : /\ call'[d].number = call[d].number
                           /\ call'[d].phase # "new" <=> call[d].phase # "new"
                           /\ d # c => call'[d].phase = call[d].phase
  BY <1>1 DEF Goes
<1>4. \A d \in Assertion : call[d].phase # "new" /\ d # c => call[d].number # n
  BY <1>0, <1>1 DEF OwnNumbers
<1>5. CASE ~saving
  <2>1. evidence' = evidence
    BY <1>5 DEF Write
  <2> QED BY <1>0, <1>2, <1>3, <1>5, <2>1 DEF OwnNumbers
<1>6. CASE saving
  <2>1. evidence' = {file \in evidence : file[1] # n \/ file[2] \notin written} \cup {<<n, name, c>> : name \in written}
    BY <1>6 DEF Write
  <2> HIDE DEF n
  <2>2. \A file \in evidence' : file[1] \in Nat /\ file[1] < counter
    BY <1>0, <1>1, <2>1 DEF OwnNumbers
  <2>3. ASSUME NEW d \in Assertion, d # c, call[d].phase \in Writing, NEW file
        PROVE  file \in evidence' /\ file[1] = call[d].number <=>
                 \E name \in Files(call[d].phase) : file = <<call[d].number, name, d>>
    <3>1. call[d].number # n
      BY <1>4, <2>3 DEF Writing
    <3>2. file[1] = call[d].number => (file \in evidence' <=> file \in evidence)
      BY <2>1, <3>1
    <3>3. file \in evidence /\ file[1] = call[d].number <=>
            \E name \in Files(call[d].phase) : file = <<call[d].number, name, d>>
      BY <1>0, <1>6, <2>3 DEF OwnNumbers
    <3> QED BY <3>2, <3>3
  <2>4. ASSUME NEW file
        PROVE  file \in evidence' /\ file[1] = n <=> \E name \in Files(phase) : file = <<n, name, c>>
    <3>1. file \in evidence /\ file[1] = n <=> \E name \in Files(call[c].phase) : file = <<n, name, c>>
      BY <1>0, <1>6 DEF OwnNumbers, n
    <3>2. ASSUME file \in evidence', file[1] = n
          PROVE  \E name \in Files(phase) : file = <<n, name, c>>
      BY <2>1, <3>1, <3>2
    <3>3. ASSUME NEW name \in Files(phase), file = <<n, name, c>>
          PROVE  file \in evidence' /\ file[1] = n
      <4>1. file[1] = n /\ file[2] = name
        BY <3>3
      <4>2. CASE name \in written
        BY <2>1, <3>3, <4>1, <4>2
      <4>3. CASE name \in Files(call[c].phase)
        BY <2>1, <3>1, <3>3, <4>1, <4>3
      <4> QED BY <3>3, <4>2, <4>3
    <3> QED BY <3>2, <3>3
  <2>5. call'[c].number = n /\ call'[c].phase = phase
    BY DEF Goes, n
  <2>6. ASSUME NEW d \in Assertion, call'[d].phase \in Writing, NEW file
        PROVE  file \in evidence' /\ file[1] = call'[d].number <=>
                 \E name \in Files(call'[d].phase) : file = <<call'[d].number, name, d>>
    BY <1>3, <2>3, <2>4, <2>5, <2>6
  <2>7. \A d, e \in Assertion :
         call'[d].phase # "new" /\ call'[e].phase # "new" /\ call'[d].number = call'[e].number => d = e
    BY <1>0, <1>3 DEF OwnNumbers
  <2> QED BY <1>2, <2>2, <2>6, <2>7 DEF OwnNumbers
<1> QED BY <1>0, <1>5, <1>6 DEF ComparisonTypes

\* A phase that writes nothing.
LEMMA NothingWritten ==
  ASSUME ComparisonInvariant, NEW c \in Assertion, NEW phase, call[c].phase \in Writing,
         saving' = saving, counter' = counter, evidence' = evidence,
         DOMAIN call' = Assertion, DOMAIN call'[c] = DOMAIN call[c],
         call'[c].phase = phase, call'[c].number = call[c].number,
         \A d \in Assertion : d # c => call'[d] = call[d],
         phase = "error" \/ (phase \in Writing /\ Files(phase) = Files(call[c].phase))
  PROVE  ComparisonTypes' /\ OwnNumbers'
<1>0. ComparisonTypes /\ OwnNumbers
  BY DEF ComparisonInvariant
<1>1. call[c].phase # "new" /\ phase # "new" /\ phase \in Writing \cup {"error"} /\ "error" \notin Writing
  BY DEF Writing
<1>2. ComparisonTypes'
  BY <1>0, <1>1 DEF ComparisonTypes
<1>3. \A d \in Assertion : /\ call'[d].number = call[d].number
                           /\ call'[d].phase # "new" <=> call[d].phase # "new"
                           /\ call'[d].phase \in Writing => call[d].phase \in Writing
                                                           /\ Files(call'[d].phase) = Files(call[d].phase)
  BY <1>1
<1>4. OwnNumbers'
  BY <1>0, <1>3 DEF OwnNumbers
<1> QED BY <1>2, <1>4

\* An assertion takes its number.
LEMMA StartKeeps ==
  ASSUME ComparisonInvariant, NEW c \in Assertion, Start(c)
  PROVE  ComparisonInvariant'
<1>0. ComparisonTypes /\ OwnNumbers /\ CountsAreTrue
  BY DEF ComparisonInvariant
<1>1. /\ call[c].phase = "new" /\ counter' = counter + 1 /\ saving' = saving /\ evidence' = evidence
      /\ DOMAIN call' = Assertion /\ DOMAIN call'[c] = DOMAIN call[c]
      /\ call'[c].phase = "context" /\ call'[c].number = counter
      /\ \A d \in Assertion : d # c => call'[d] = call[d]
  BY <1>0 DEF Start, ComparisonTypes
<1>2. ComparisonTypes'
  BY <1>0, <1>1 DEF ComparisonTypes, Writing
<1>3. OwnNumbers'
  <2>1. \A d \in Assertion : d # c => call'[d] = call[d] /\ (call[d].phase # "new" => call[d].number # counter)
    BY <1>0, <1>1 DEF ComparisonTypes
  <2>2. \A d, e \in Assertion :
         call'[d].phase # "new" /\ call'[e].phase # "new" /\ call'[d].number = call'[e].number => d = e
    BY <1>0, <1>1, <2>1 DEF OwnNumbers
  <2>3. \A file \in evidence : file[1] \in Nat /\ file[1] < counter' /\ file[1] # counter
    BY <1>0, <1>1 DEF OwnNumbers, ComparisonTypes
  <2>4. ASSUME saving, NEW d \in Assertion, call'[d].phase \in Writing, NEW file
        PROVE  file \in evidence /\ file[1] = call'[d].number <=>
                 \E name \in Files(call'[d].phase) : file = <<call'[d].number, name, d>>
    <3>1. CASE d = c
      <4>1. Files("context") = {}
        BY DEF Files
      <4> QED BY <1>1, <2>3, <3>1, <4>1
    <3>2. CASE d # c
      BY <1>0, <2>1, <2>4, <3>2 DEF OwnNumbers
    <3> QED BY <3>1, <3>2
  <2> QED BY <1>1, <2>2, <2>3, <2>4 DEF OwnNumbers
<1>4. CountsAreTrue'
  BY <1>0, <1>1 DEF CountsAreTrue
<1> QED BY <1>2, <1>3, <1>4 DEF ComparisonInvariant

\* An assertion compares what it captured.
LEMMA CompareKeeps ==
  ASSUME ComparisonInvariant, NEW c \in Assertion, NEW input \in Inputs, Compare(c, input)
  PROVE  ComparisonInvariant'
<1>0. ComparisonTypes /\ CountsAreTrue
  BY DEF ComparisonInvariant
<1> DEFINE phase == IF isLookSimilarPass(DiffPixels(input), input) THEN "passed" ELSE "differs"
<1>1. /\ call[c].phase = "saved" /\ saving' = saving /\ counter' = counter /\ evidence' = evidence
      /\ call' = [call EXCEPT ![c].phase = phase, ![c].input = input, ![c].diffPixels = DiffPixels(input)]
  BY DEF Compare
<1>2. phase \in {"passed", "differs"} /\ phase \in Writing /\ "saved" \in Writing
      /\ Files(phase) = Files("saved")
  BY DEF Files, Writing
<1> HIDE DEF phase
<1>3. /\ DOMAIN call' = Assertion /\ DOMAIN call'[c] = DOMAIN call[c]
      /\ call'[c].phase = phase /\ call'[c].number = call[c].number
      /\ call'[c].input = input /\ call'[c].diffPixels = DiffPixels(input)
      /\ \A d \in Assertion : d # c => call'[d] = call[d]
  BY <1>0, <1>1 DEF ComparisonTypes
<1>4. ComparisonTypes' /\ OwnNumbers'
  BY <1>1, <1>2, <1>3, NothingWritten
<1>5. CountsAreTrue'
  <2>1. ASSUME NEW d \in Assertion, call'[d].phase \in {"passed", "differs", "expected", "failed"}
        PROVE  call'[d].input \in Inputs /\ call'[d].diffPixels = DiffPixels(call'[d].input)
    BY <1>0, <1>3, <2>1 DEF CountsAreTrue
  <2> QED BY <2>1 DEF CountsAreTrue
<1> QED BY <1>4, <1>5 DEF ComparisonInvariant

\* A file is written on the way from one phase to another.
LEMMA WriteKeeps ==
  ASSUME ComparisonInvariant, NEW c \in Assertion, NEW from \in Writing, NEW to \in Writing, NEW name,
         call[c].phase = from, call' = [call EXCEPT ![c].phase = to], saving' = saving, counter' = counter,
         Write(c, {name}), Files(to) = Files(from) \cup {name}, name \notin Files(from),
         to \in {"passed", "differs", "expected", "failed"} => from \in {"passed", "differs", "expected", "failed"}
  PROVE  ComparisonInvariant'
<1>1. Goes(c, to)
  BY PhaseGoes DEF ComparisonInvariant
<1>2. CountsAreTrue'
  BY <1>1, CountsKept
<1>3. {name} \cap Files(call[c].phase) = {}
  OBVIOUS
<1>4. ComparisonTypes' /\ OwnNumbers'
  BY <1>1, <1>3, FileWritten
<1> QED BY <1>2, <1>4 DEF ComparisonInvariant

\* An assertion goes on, or fails, without a file.
LEMMA PhaseKeeps ==
  ASSUME ComparisonInvariant, NEW c \in Assertion, NEW phase, call[c].phase \in Writing,
         call' = [call EXCEPT ![c].phase = phase], saving' = saving, counter' = counter, evidence' = evidence,
         phase \notin {"passed", "differs", "expected", "failed"},
         phase = "error" \/ (phase \in Writing /\ Files(phase) = Files(call[c].phase))
  PROVE  ComparisonInvariant'
<1>1. Goes(c, phase)
  BY PhaseGoes DEF ComparisonInvariant
<1>2. CountsAreTrue'
  BY <1>1, CountsKept
<1>3. ComparisonTypes' /\ OwnNumbers'
  BY <1>1, NothingWritten DEF Goes
<1> QED BY <1>2, <1>3 DEF ComparisonInvariant

\* Every step of every assertion keeps the invariant.
LEMMA ComparisonKept == ComparisonInvariant /\ [ComparisonNext]_comparisonVars => ComparisonInvariant'
<1> SUFFICES ASSUME ComparisonInvariant, [ComparisonNext]_comparisonVars PROVE ComparisonInvariant'
  OBVIOUS
<1>1. ASSUME NEW c \in Assertion, Load(c) PROVE ComparisonInvariant'
  <2>1. PICK phase \in {"loaded", "error"} : call' = [call EXCEPT ![c].phase = phase]
    BY <1>1 DEF Load
  <2>2. call[c].phase = "context" /\ "context" \in Writing /\ "loaded" \in Writing /\ Files("loaded") = Files("context")
    BY <1>1 DEF Load, Writing, Files
  <2>3. phase = "error" \/ (phase \in Writing /\ Files(phase) = Files(call[c].phase))
    BY <2>1, <2>2
  <2> QED BY <1>1, <2>1, <2>2, <2>3, PhaseKeeps DEF Load
<1>2. ASSUME NEW c \in Assertion, RefuseComparison(c) PROVE ComparisonInvariant'
  <2>1. call[c].phase \in Writing /\ "error" \notin {"passed", "differs", "expected", "failed"}
    BY <1>2 DEF RefuseComparison, Writing
  <2> QED BY <1>2, <2>1, PhaseKeeps DEF RefuseComparison
<1>3. ASSUME NEW c \in Assertion, SaveActual(c) PROVE ComparisonInvariant'
  <2>1. /\ "loaded" \in Writing /\ "actual" \in Writing /\ Files("actual") = Files("loaded") \cup {"actual.png"}
        /\ "actual.png" \notin Files("loaded")
    BY DEF Writing, Files
  <2> QED BY <1>3, <2>1, WriteKeeps DEF SaveActual
<1>4. ASSUME NEW c \in Assertion, SaveMetadata(c) PROVE ComparisonInvariant'
  <2>1. /\ "actual" \in Writing /\ "saved" \in Writing /\ Files("saved") = Files("actual") \cup {"metadata.json"}
        /\ "metadata.json" \notin Files("actual")
    BY DEF Writing, Files
  <2> QED BY <1>4, <2>1, WriteKeeps DEF SaveMetadata
<1>5. ASSUME NEW c \in Assertion, SaveExpected(c) PROVE ComparisonInvariant'
  <2>1. /\ "differs" \in Writing /\ "expected" \in Writing /\ Files("expected") = Files("differs") \cup {"expected.png"}
        /\ "expected.png" \notin Files("differs")
    BY DEF Writing, Files
  <2> QED BY <1>5, <2>1, WriteKeeps DEF SaveExpected
<1>6. ASSUME NEW c \in Assertion, SaveDiff(c) PROVE ComparisonInvariant'
  <2>1. /\ "expected" \in Writing /\ "failed" \in Writing /\ Files("failed") = Files("expected") \cup {"diff.png"}
        /\ "diff.png" \notin Files("expected")
    BY DEF Writing, Files
  <2> QED BY <1>6, <2>1, WriteKeeps DEF SaveDiff
<1>7. CASE UNCHANGED comparisonVars
  BY <1>7 DEF comparisonVars, ComparisonInvariant, ComparisonTypes, OwnNumbers, CountsAreTrue
<1> QED BY <1>1, <1>2, <1>3, <1>4, <1>5, <1>6, <1>7, StartKeeps, CompareKeeps
        DEF ComparisonNext, ComparisonStep

\* The invariant says more than the property.
LEMMA InvariantIsExact == ComparisonInvariant => ComparisonIsExact
<1> SUFFICES ASSUME ComparisonInvariant PROVE ComparisonIsExact
  OBVIOUS
<1>0. ComparisonTypes /\ OwnNumbers /\ CountsAreTrue
  BY DEF ComparisonInvariant
<1>1. DiffIsExact
  BY <1>0, CountIsExact DEF CountsAreTrue, DiffIsExact
<1>2. ASSUME saving, NEW c \in Assertion, call[c].phase \in Writing
      PROVE  {f \in evidence : f[1] = call[c].number} = {<<call[c].number, name, c>> : name \in Files(call[c].phase)}
  BY <1>0, <1>2 DEF OwnNumbers
<1>3. /\ Files("passed") = {"actual.png", "metadata.json"} /\ "passed" \in Writing /\ "failed" \in Writing
      /\ Files("failed") = {"actual.png", "metadata.json", "expected.png", "diff.png"}
  BY DEF Files, Writing
<1>4. EvidenceIsKept
  BY <1>2, <1>3 DEF EvidenceIsKept
<1> QED BY <1>1, <1>4 DEF ComparisonIsExact

\* At every moment of every set of assertions, of images of any size and any masks: what
\* is counted is the pixels that differ outside the masks, and the files of an assertion
\* are those it wrote (compareDecodedPngs, createContext, nextCounter).
THEOREM ComparisonIsAlwaysExact == ComparisonSpec => []ComparisonIsExact
<1>1. ComparisonSpec => []ComparisonInvariant
  BY ComparisonStarts, ComparisonKept, PTL DEF ComparisonSpec
<1> QED BY <1>1, InvariantIsExact, PTL
=============================================================================
