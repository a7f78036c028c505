--------------------------- MODULE ArctlCommand ---------------------------
(***************************************************************************)
(* One run of arctl (arctl.ts, cli/): its arguments are parsed, a session  *)
(* is opened, one command runs and the process exits with a code; Ctrl+C   *)
(* may come at any moment, every request may fail, and other programs      *)
(* create local files meanwhile.  The transfer walks the source tree in    *)
(* order; the capture commands write one new local file.  The session is   *)
(* the SDK's (DriverConnection) and what it reports ends a step here.      *)
(***************************************************************************)
EXTENDS Integers, Sequences, FiniteSets, SequencesExt

CONSTANTS Path,      \* paths below the source and the destination; <<>> is the root
          Capturing  \* BOOLEAN values: the commands that are run, captures and transfers

\* A path is the position of each of its names among those of its directory.
ASSUME PathAssumption ==
  Path \subseteq Seq(Nat) /\ <<>> \in Path /\ \A p \in Path \ {<<>>} : Front(p) \in Path
ASSUME CapturingAssumption == Capturing \subseteq BOOLEAN

EntryTypes == {"file", "directory", "other"}
Parent(p) == Front(p)

\* Trees: what is below something that exists and is a directory.
Trees(types) ==
  {t \in [Path -> types] :
     \A p \in Path : p # <<>> /\ t[p] # "absent" => t[Parent(p)] = "directory"}

VARIABLES
  capture,      \* the command is screenshot or record
  recursive,    \* -r
  source,       \* Path -> its type, or "absent"
  target,       \* Path -> type at the destination, or "absent"
  content,      \* Path -> who wrote the destination's file: "arctl" or "other"
  before,       \* what target was when arctl started
  output,       \* who has written the capture's file, in order: "other" or "arctl"
  todo,         \* paths found and still to transfer
  copied,       \* files and directories counted
  step,         \* where the run is
  agent,        \* "none", "connected" or "released"
  interrupted,
  exit          \* the exit code, or -1

tree == <<capture, recursive, source, before>>
commandVars == <<tree, target, content, output, todo, copied, step, agent, interrupted, exit>>

CommandInit ==
  /\ capture \in Capturing /\ recursive \in BOOLEAN
  /\ source \in (IF capture THEN {[p \in Path |-> "absent"]} ELSE Trees(EntryTypes \cup {"absent"}))
  /\ target \in (IF capture THEN {[p \in Path |-> "absent"]} ELSE Trees(EntryTypes \cup {"absent"}))
  /\ before = target /\ content = [p \in Path |-> "other"]
  /\ output \in {<<>>, <<"other">>}
  /\ todo = {} /\ copied = {} /\ step = "parse" /\ agent = "none"
  /\ interrupted = FALSE /\ exit = -1

Exit(code) == exit' = code /\ agent' = (IF agent = "none" THEN "none" ELSE "released")

-----------------------------------------------------------------------------
\* SIGINT: without a session the process ends once the message is written, with one the
\* session is released.
Interrupt ==
  /\ exit = -1 /\ ~interrupted /\ interrupted' = TRUE
  /\ agent' = IF agent = "connected" THEN "released" ELSE agent
  /\ UNCHANGED <<tree, target, content, output, todo, copied, step, exit>>

EndInterrupted ==
  /\ exit = -1 /\ interrupted /\ agent = "none" /\ Exit(130)
  /\ UNCHANGED <<tree, target, content, output, todo, copied, step, interrupted>>

\* An error anywhere: 130 when interrupted, 1 once the connection was begun, 2 before.
Throw ==
  Exit(IF interrupted THEN 130 ELSE IF step = "parse" THEN 2 ELSE 1)

Parse ==
  /\ exit = -1 /\ step = "parse" /\ step' = "connect"
  /\ UNCHANGED <<tree, target, content, output, todo, copied, agent, interrupted, exit>>

\* Help and version are displayed without a session.
Display ==
  /\ exit = -1 /\ step = "parse" /\ ~interrupted /\ Exit(0) /\ step' = "displayed"
  /\ UNCHANGED <<tree, target, content, output, todo, copied, interrupted>>

Connect ==
  /\ exit = -1 /\ step = "connect" /\ agent' = "connected"
  /\ IF interrupted THEN exit' = 130 /\ UNCHANGED <<step, todo>>
     ELSE /\ step' = (IF capture THEN "prepare" ELSE "transfer")
          /\ todo' = {<<>>} /\ UNCHANGED exit
  /\ UNCHANGED <<tree, target, content, output, copied, interrupted>>

\* Invalid arguments, no such window, an unsupported capture, a refused directory, a
\* request that is refused or fails with the session.
Fails ==
  /\ exit = -1 /\ step # "result" /\ Throw
  /\ UNCHANGED <<tree, target, content, output, todo, copied, step, interrupted>>

-----------------------------------------------------------------------------
\* screenshot and record.

\* lstat of the output, which must not exist.
PrepareCapture ==
  /\ exit = -1 /\ step = "prepare" /\ ~interrupted /\ output = <<>>
  /\ step' = "capture"
  /\ UNCHANGED <<tree, target, content, output, todo, copied, agent, interrupted, exit>>

\* The window is resolved and captured; the file is written only if it is still new.
WriteCapture ==
  /\ exit = -1 /\ step = "capture" /\ ~interrupted /\ output = <<>>
  /\ output' = Append(output, "arctl") /\ step' = "result"
  /\ UNCHANGED <<tree, target, content, todo, copied, agent, interrupted, exit>>

OtherCreates ==
  /\ exit = -1 /\ output = <<>> /\ output' = <<"other">>
  /\ UNCHANGED <<tree, target, content, todo, copied, step, agent, interrupted, exit>>

-----------------------------------------------------------------------------
\* put and get, one entry of the source at a time: a directory before what is in it,
\* the entries of a directory in order.

\* What the transfer comes to first: of two paths the one above the other, or the one
\* whose name is the smaller where they part.
Precedes(p, q) ==
  \/ IsPrefix(p, q)
  \/ \E n \in DOMAIN p \cap DOMAIN q :
       p[n] < q[n] /\ \A m \in 1..(n - 1) : p[m] = q[m]

Children(p) == {q \in Path : q # <<>> /\ Parent(q) = p /\ source[q] # "absent"}

\* With -r an entry is copied as what it is; without, it must be a file.
AsDirectory(p) == IF p = <<>> THEN recursive ELSE source[p] = "directory"

Turn(p) ==
  /\ exit = -1 /\ step = "transfer" /\ ~interrupted
  /\ p \in todo /\ \A q \in todo : Precedes(p, q)

CopyDirectory(p) ==
  /\ Turn(p) /\ AsDirectory(p)
  /\ source[p] = "directory" /\ target[p] \in {"absent", "directory"}
  /\ target' = [target EXCEPT ![p] = "directory"]
  /\ copied' = copied \cup {p} /\ todo' = (todo \ {p}) \cup Children(p)
  /\ UNCHANGED <<tree, content, output, step, agent, interrupted, exit>>

\* Mutated: what is there is not looked at.
CopyFileOver(p) ==
  /\ Turn(p) /\ ~AsDirectory(p) /\ source[p] = "file"
  /\ target' = [target EXCEPT ![p] = "file"]
  /\ content' = [content EXCEPT ![p] = "arctl"]
  /\ copied' = copied \cup {p} /\ todo' = todo \ {p}
  /\ UNCHANGED <<tree, output, step, agent, interrupted, exit>>

\* The parents of a single file's destination are made too.
CopyFile(p) ==
  /\ Turn(p) /\ ~AsDirectory(p)
  /\ source[p] = "file" /\ target[p] \in {"absent", "file"}
  /\ target' = [target EXCEPT ![p] = "file"]
  /\ content' = [content EXCEPT ![p] = "arctl"]
  /\ copied' = copied \cup {p} /\ todo' = todo \ {p}
  /\ UNCHANGED <<tree, output, step, agent, interrupted, exit>>

\* A type conflict, an unsupported type or a source of the wrong type.
Conflict(p) ==
  /\ Turn(p)
  /\ \/ AsDirectory(p) /\ (source[p] # "directory" \/ target[p] \notin {"absent", "directory"})
     \/ ~AsDirectory(p) /\ (source[p] # "file" \/ target[p] \notin {"absent", "file"})
  /\ Throw
  /\ UNCHANGED <<tree, target, content, output, todo, copied, step, interrupted>>

TransferEnds ==
  /\ exit = -1 /\ step = "transfer" /\ todo = {} /\ step' = "result"
  /\ UNCHANGED <<tree, target, content, output, todo, copied, agent, interrupted, exit>>

-----------------------------------------------------------------------------
\* The result is printed, unless Ctrl+C came first.
Result ==
  /\ exit = -1 /\ step = "result" /\ Exit(IF interrupted THEN 130 ELSE 0)
  /\ UNCHANGED <<tree, target, content, output, todo, copied, step, interrupted>>

CommandNext ==
  \/ Interrupt \/ EndInterrupted \/ Parse \/ Display \/ Connect \/ Fails
  \/ PrepareCapture \/ WriteCapture \/ OtherCreates
  \/ \E p \in Path : CopyDirectory(p) \/ CopyFile(p) \/ Conflict(p)
  \/ TransferEnds \/ Result

CommandSpec == CommandInit /\ [][CommandNext]_commandVars

-----------------------------------------------------------------------------
\* A transfer merges: whatever goes wrong and whenever, no entry of the destination
\* changes its type or disappears, an entry the source lacks is not touched, a file
\* written is a file of the source, and after exit 0 the whole source is there
\* (transferArctlFiles; "A file/directory type conflict fails without deleting the
\* existing item", README.md).
TransfersMerge ==
  /\ \A p \in Path :
       /\ before[p] # "absent" => target[p] = before[p]
       /\ target[p] # before[p] \/ content[p] = "arctl" => source[p] = target[p] /\ p \in copied
  /\ exit = 0 /\ step = "result" /\ ~capture =>
       \A p \in Path : source[p] # "absent" =>
         target[p] = source[p] /\ (source[p] = "file" => content[p] = "arctl")

\* The exit code tells: 0 only with the work done and no interruption before it, 130
\* only when interrupted, 2 only before a connection was begun; and the file of a
\* capture has one writer, even when another program makes it while the capture runs
\* (main, captureArctlScreenshot).
ExitCodeTells ==
  /\ exit = 0 => /\ ~interrupted
                 /\ step = "displayed" => agent = "none" /\ copied = {}
                 /\ step # "displayed" /\ capture => output = <<"arctl">>
                 /\ step # "displayed" /\ ~capture => todo = {} /\ copied # {}
  /\ exit # -1 => (exit = 130) = interrupted
  /\ exit = 2 => agent = "none" /\ copied = {} /\ "arctl" \notin ToSet(output)
  /\ Len(output) <= 1

\* A transfer of arctl merges and never overwrites a type, and the exit code tells what
\* has happened, with Ctrl+C, failures and other programs at any moment (main).
CommandIsHonest == TransfersMerge /\ ExitCodeTells
=============================================================================
