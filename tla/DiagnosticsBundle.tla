------------------------- MODULE DiagnosticsBundle -------------------------
(***************************************************************************)
(* withDiagnostics and saveDiagnostics (diagnostics.ts) over               *)
(* diagnostics.capture of the session (driver/connection.ts): an operation *)
(* fails, the session is captured by one request at a time, the            *)
(* attachments and then the files of the bundle are written, and the       *)
(* operation's error is thrown again.  Every request may fail, windows     *)
(* come and go between two requests, and the local disk may refuse.  The   *)
(* directory of the bundle may hold files already; a file is a path in it, *)
(* its content whoever wrote it last.                                      *)
(***************************************************************************)
EXTENDS Integers, Sequences, FiniteSets, SequencesExt

CONSTANTS Window,       \* window ids; Roots of them are top-level windows
          Roots,
          Below,        \* Window -> all the windows below it, at any depth
          MaxDepth,     \* maxDescendantDepth
          MaxRecent,    \* requests kept in the trace
          MaxRequests,  \* bound: requests of the operation
          Attachments,  \* sequence of [name : , kind : , optional : BOOLEAN, files : ]
          SafeSegment,  \* name of an attachment -> the directory name made of it
          Earlier       \* sets of files the directory may hold at first

ASSUME WindowAssumption ==
  /\ IsFiniteSet(Window) /\ Roots \subseteq Window /\ Below \in [Window -> SUBSET Window]
  /\ \A w \in Window : \A v \in Below[w] : Below[v] \subseteq Below[w]
ASSUME RecentAssumption == MaxRecent \in Nat \ {0}
ASSUME DepthAssumption == MaxDepth \in Nat
ASSUME AttachmentsAssumption ==
  /\ Attachments \in Seq([name : DOMAIN SafeSegment, optional : BOOLEAN,
                          kind : {"remoteFile", "remoteDirectory", "managedProcess"},
                          files : SUBSET (Seq(STRING) \ {<<>>})])
  /\ SafeSegment \in [DOMAIN SafeSegment -> STRING] /\ Earlier \subseteq SUBSET Seq(STRING)

VARIABLES
  wrapped,           \* withDiagnostics, which passes no attachments, or saveDiagnostics alone
  diagnosticsPhase,  \* where withDiagnostics is
  requests,          \* requests sent so far
  recent,            \* numbers of the requests in the trace
  open,              \* windows that exist
  visit,             \* windows still to capture: <<window, remaining depth>>
  captured,          \* the windows of the capture, in the order they were visited
  trace,             \* the trace of the capture, and the requests sent when it was taken
  attached,          \* attachments handled
  artifacts,         \* <<attachment, file>> of the bundle's list
  errors,            \* attachments listed as failed
  bundleFiles,       \* file -> attachment that wrote it last, 0 or Before
  manifest,          \* <<artifacts, errors>> of the manifest, once it is written
  save,              \* how saveDiagnostics ended
  outcome            \* how withDiagnostics ended

sent == <<requests, recent>>
captureVars == <<visit, captured, trace>>
bundleVars == <<attached, artifacts, errors, bundleFiles, manifest>>
ending == <<save, outcome>>
diagnosticsVars == <<wrapped, diagnosticsPhase, sent, open, captureVars, bundleVars, ending>>

Before == -1

DiagnosticsInit ==
  /\ wrapped \in BOOLEAN
  /\ diagnosticsPhase = "operation" /\ requests = 0 /\ recent = <<>> /\ open = Window
  /\ visit = <<>> /\ captured = <<>> /\ trace = [sent |-> 0, recent |-> <<>>]
  /\ attached = 0 /\ artifacts = {} /\ errors = {} /\ manifest = <<>>
  /\ \E files \in Earlier : bundleFiles = [path \in files |-> Before]
  /\ save = "none" /\ outcome = "none"

-----------------------------------------------------------------------------
\* The trace keeps the last requests: one is added, the oldest beyond the limit go.
appendRecent(entries, entry) ==
  LET all == Append(entries, entry) IN
  IF Len(all) > MaxRecent THEN SubSeq(all, Len(all) - MaxRecent + 1, Len(all)) ELSE all

SendRequest ==
  requests' = requests + 1 /\ recent' = appendRecent(recent, requests + 1)
SendTwoRequests ==
  /\ requests' = requests + 2
  /\ recent' = appendRecent(appendRecent(recent, requests + 1), requests + 2)

OperationRequest ==
  /\ diagnosticsPhase = "operation" /\ requests < MaxRequests /\ SendRequest
  /\ UNCHANGED <<wrapped, diagnosticsPhase, open, captureVars, bundleVars, ending>>

OperationSucceeds ==
  /\ wrapped /\ diagnosticsPhase = "operation"
  /\ diagnosticsPhase' = "done" /\ outcome' = "result"
  /\ UNCHANGED <<wrapped, sent, open, captureVars, bundleVars, save>>

\* saveDiagnostics is given a capture that was taken before.
UseCapture ==
  /\ ~wrapped /\ diagnosticsPhase = "operation" /\ diagnosticsPhase' = "attachments"
  /\ UNCHANGED <<wrapped, sent, open, captureVars, bundleVars, ending>>

OperationFails ==
  /\ diagnosticsPhase = "operation" /\ diagnosticsPhase' = "desktop"
  /\ UNCHANGED <<wrapped, sent, open, captureVars, bundleVars, ending>>

\* A window closes with the windows below it.
WindowCloses ==
  /\ diagnosticsPhase \in {"windows", "visit"}
  /\ \E w \in open : open' = open \ ({w} \cup Below[w])
  /\ UNCHANGED <<wrapped, diagnosticsPhase, sent, captureVars, bundleVars, ending>>

-----------------------------------------------------------------------------
\* saveDiagnostics ends; withDiagnostics throws the operation's error either way.
EndSave(result) ==
  /\ diagnosticsPhase' = "done" /\ save' = result
  /\ outcome' = IF wrapped THEN "operation error" ELSE result

\* A request of the capture, or a file of the bundle, fails: nothing more is done.
CaptureFails ==
  /\ diagnosticsPhase \in {"desktop", "windows", "visit", "eventLogs", "attachments", "files"}
  /\ EndSave("error")
  /\ UNCHANGED <<wrapped, sent, open, captureVars, bundleVars>>

\* agent.desktop and agent.screenshot.
CaptureDesktop ==
  /\ diagnosticsPhase = "desktop" /\ diagnosticsPhase' = "windows" /\ SendTwoRequests
  /\ UNCHANGED <<wrapped, open, captureVars, bundleVars, ending>>

ToVisit(listed, depth) == [n \in 1..Len(listed) |-> <<listed[n], depth>>]

\* Without includeDescendants no window's children are asked for.  The agent lists
\* windows from the front of the desktop to its back, so in any order.
CaptureWindows ==
  /\ diagnosticsPhase = "windows" /\ diagnosticsPhase' = "visit" /\ SendRequest
  /\ \E depth \in {0, MaxDepth}, listed \in SetToSeqs(Roots \cap open) :
       visit' = ToVisit(listed, depth)
  /\ UNCHANGED <<wrapped, open, captured, trace, bundleVars, ending>>

\* captureDiagnosticsWindow: the window is copied; with depth left its children are
\* requested, which fails when it is gone, and captured before what follows it.  The
\* agent answers with EnumChildWindows: all windows below, not only the direct children.
VisitWindow ==
  /\ diagnosticsPhase = "visit" /\ visit # <<>>
  /\ LET window == Head(visit)[1]
         depth == Head(visit)[2]
     IN /\ captured' = Append(captured, window)
        /\ IF depth <= 0
           THEN visit' = Tail(visit) /\ UNCHANGED sent
           ELSE /\ window \in open /\ SendRequest
                /\ \E listed \in SetToSeqs(Below[window] \cap open) :
                     visit' = ToVisit(listed, depth - 1) \o Tail(visit)
  /\ UNCHANGED <<wrapped, diagnosticsPhase, open, trace, bundleVars, ending>>

CaptureCursor ==
  /\ diagnosticsPhase = "visit" /\ visit = <<>> /\ diagnosticsPhase' = "eventLogs" /\ SendRequest
  /\ UNCHANGED <<wrapped, open, captureVars, bundleVars, ending>>

\* The event logs and the second agent.desktop; then the trace is copied.
CaptureEventLogs ==
  /\ diagnosticsPhase = "eventLogs" /\ diagnosticsPhase' = "attachments" /\ SendTwoRequests
  /\ trace' = [sent |-> requests', recent |-> recent']
  /\ UNCHANGED <<wrapped, open, visit, captured, bundleVars, ending>>

-----------------------------------------------------------------------------
Given == IF wrapped THEN <<>> ELSE Attachments

\* A name is trimmed and cut and its characters replaced: two names may become one
\* segment, and ".." and "." stay what they are.
safePathSegment(name) == SafeSegment[name]
AttachmentDirectory(attachment) ==
  LET segment == safePathSegment(attachment.name)
  IN CASE segment = ".." -> <<>>
       [] segment = "." -> <<"attachments">>
       [] OTHER -> <<"attachments", segment>>

\* The files an attachment is saved as; of a directory, those it may hold.
AttachmentFiles(attachment) ==
  {AttachmentDirectory(attachment) \o file :
     file \in IF attachment.kind = "managedProcess" THEN {<<"stdout.txt">>, <<"stderr.txt">>}
             ELSE attachment.files}
Complete(attachment) ==
  IF attachment.kind = "remoteDirectory" THEN SUBSET AttachmentFiles(attachment)
  ELSE {AttachmentFiles(attachment)}

BaseFiles == {<<"screen.png">>, <<"windows.json">>, <<"event-log.txt">>,
              <<"protocol-trace.json">>, <<"input-operations.json">>}
ManifestFile == <<"manifest.json">>

\* No file is a directory, and no directory a file.
CanHold(directory) == \A old \in DOMAIN bundleFiles : ~IsPrefix(old, directory)
CanWrite(paths) ==
  \A old \in DOMAIN bundleFiles, new \in paths :
    ~IsStrictPrefix(old, new) /\ ~IsStrictPrefix(new, old)
WriteFiles(paths, n) ==
  bundleFiles' = [path \in DOMAIN bundleFiles \cup paths |->
                    IF path \in paths THEN n ELSE bundleFiles[path]]

\* All files below a local directory, whoever wrote them.
listLocalArtifactFiles(directory, paths) == {path \in paths : IsStrictPrefix(directory, path)}

\* What the list gets for an attachment that wrote some files.
EntriesFor(n, written) ==
  {n} \X (IF Given[n].kind = "remoteDirectory"
          THEN listLocalArtifactFiles(AttachmentDirectory(Given[n]), DOMAIN bundleFiles \cup written)
          ELSE written)

\* Mutated: an attachment is listed before its files are written.
ListAttachment ==
  /\ diagnosticsPhase = "attachments" /\ attached < Len(Given) /\ attached' = attached + 1
  /\ \E files \in Complete(Given[attached + 1]) :
       /\ artifacts' = artifacts \cup EntriesFor(attached + 1, files) /\ UNCHANGED errors
       /\ \E written \in SUBSET files : CanWrite(written) /\ WriteFiles(written, attached + 1)
  /\ UNCHANGED <<wrapped, diagnosticsPhase, sent, open, captureVars, manifest, ending>>

\* One attachment: all of it, or some of its files and an entry among the errors,
\* whether it was optional or not.
SaveAttachment ==
  /\ diagnosticsPhase = "attachments" /\ attached < Len(Given) /\ attached' = attached + 1
  /\ LET n == attached + 1 IN
     \/ \E written \in Complete(Given[n]) :
          /\ CanHold(AttachmentDirectory(Given[n])) /\ CanWrite(written) /\ WriteFiles(written, n)
          /\ artifacts' = artifacts \cup EntriesFor(n, written) /\ UNCHANGED errors
     \/ \E written \in SUBSET AttachmentFiles(Given[n]) :
          /\ CanWrite(written) /\ WriteFiles(written, n)
          /\ errors' = errors \cup {n} /\ UNCHANGED artifacts
  /\ UNCHANGED <<wrapped, diagnosticsPhase, sent, open, captureVars, manifest, ending>>

SaveBaseFiles ==
  /\ diagnosticsPhase = "attachments" /\ attached = Len(Given) /\ diagnosticsPhase' = "files"
  /\ CanWrite(BaseFiles) /\ WriteFiles(BaseFiles, 0)
  /\ UNCHANGED <<wrapped, sent, open, captureVars, attached, artifacts, errors, manifest, ending>>

SaveManifest ==
  /\ diagnosticsPhase = "files" /\ EndSave("saved")
  /\ CanWrite({ManifestFile}) /\ WriteFiles({ManifestFile}, 0)
  /\ manifest' = <<({0} \X BaseFiles) \cup artifacts, errors>>
  /\ UNCHANGED <<wrapped, sent, open, captureVars, attached, artifacts, errors>>

DiagnosticsNext ==
  \/ OperationRequest \/ OperationSucceeds \/ OperationFails \/ UseCapture \/ WindowCloses
  \/ CaptureFails \/ CaptureDesktop \/ CaptureWindows \/ VisitWindow
  \/ CaptureCursor \/ CaptureEventLogs
  \/ SaveAttachment \/ SaveBaseFiles \/ SaveManifest

DiagnosticsSpec == DiagnosticsInit /\ [][DiagnosticsNext]_diagnosticsVars

-----------------------------------------------------------------------------
\* A manifest tells the truth about the bundle: what it lists is there, and older than
\* its attachment only below a remote directory's name or if the bundle's own files took
\* its place; of what the attachments wrote, every file still there and every file that
\* was asked for is listed, unless its attachment is listed as failed, which lists no
\* file; and the bundle's own files are those of this capture (saveDiagnostics).
ManifestIsTrue ==
  manifest # <<>> =>
    LET listed == manifest[1]
        failed == manifest[2]
    IN /\ \A a \in listed :
            /\ a[2] \in DOMAIN bundleFiles /\ a[1] \notin failed
            /\ \/ bundleFiles[a[2]] >= a[1]
               \/ a[2] \in BaseFiles \cup {ManifestFile} /\ bundleFiles[a[2]] = 0
               \/ a[1] \in DOMAIN Given /\ Given[a[1]].kind = "remoteDirectory"
       /\ \A path \in DOMAIN bundleFiles : bundleFiles[path] \in DOMAIN Given \ failed =>
            <<bundleFiles[path], path>> \in listed
       /\ \A n \in DOMAIN Given \ failed : Given[n].kind # "remoteDirectory" =>
            \A path \in AttachmentFiles(Given[n]) : <<n, path>> \in listed
       /\ \A path \in BaseFiles \cup {ManifestFile} :
            path \in DOMAIN bundleFiles /\ bundleFiles[path] = 0

\* The operation's error survives whatever happens to the diagnostics, and only a
\* failed operation leaves a bundle; the trace of a capture is the end of what was
\* sent, the requests of the capture among it, and a window below others is captured
\* only after one of them (withDiagnostics, appendRecent, captureDiagnosticsWindow).
CaptureIsTrue ==
  /\ diagnosticsPhase = "done" =>
       outcome = IF ~wrapped THEN save ELSE IF save = "none" THEN "result" ELSE "operation error"
  /\ trace.sent > 0 =>
       /\ Len(trace.recent) = IF trace.sent < MaxRecent THEN trace.sent ELSE MaxRecent
       /\ \A n \in DOMAIN trace.recent :
            trace.recent[n] = trace.sent - Len(trace.recent) + n
  /\ \A n \in DOMAIN captured :
       captured[n] \in Roots \/ \E m \in 1..(n - 1) : captured[n] \in Below[captured[m]]

\* The manifest of a bundle accounts for every file that was saved and every attachment
\* that failed, and its trace and windows are those of the capture (saveDiagnostics,
\* captureDiagnostics).
BundleIsTrue == ManifestIsTrue /\ CaptureIsTrue

\* What the attachment option `optional` says: a failed attachment that is not optional
\* is thrown, not only recorded.
RequiredAttachmentsThrow ==
  save = "saved" => \A n \in errors : Given[n].optional
=============================================================================
