--------------------------- MODULE ManagedProcess ---------------------------
(***************************************************************************)
(* A managed application of the driver: launchManagedProcess and           *)
(* createManagedProcessProxy of driver/connection.ts.  An agent that has   *)
(* process.launchManaged owns the process tree; with an older one the      *)
(* driver tracks the tree itself, by parent identifiers, one listing after *)
(* another.  Releasing goes through stages, keeps what a failed attempt has *)
(* finished and retries within one deadline (retryResourceOperation).      *)
(***************************************************************************)
EXTENDS Naturals, FiniteSets

CONSTANTS Proc,   \* processes; identifiers are not recycled
          Root,   \* the launched process, one of Proc
          Reader  \* concurrent calls of stdoutText and stderrText

ASSUME RootAssumption == Root \in Proc

VARIABLES native,    \* the agent has the feature process.launchManaged
          killTree,  \* killTreeOnRelease
          phase,     \* "launching", "cleanup", "failed", "aggregate" or "proxy"
          directory, \* the capture directory of the agent
          tree,      \* state of each process: "absent", "running" or "exited"
          parent,    \* its parent
          known,     \* knownProcessIds
          reading,   \* activeReads
          attempt,   \* the release under way: its stage, or "none"
          expired,   \* its deadline has passed
          started, nativeReleased, treeReleased, released,
          targets,   \* processes killTrackedProcessTree has still to kill
          rootSeen   \* the root was running when snapshot asked for it

proc == <<tree, parent>>
flags == <<started, nativeReleased, treeReleased, released>>
managedVars == <<native, killTree, phase, directory, proc, known, reading, attempt, expired,
                 flags, targets, rootSeen>>

ManagedTypeOK ==
  /\ {native, killTree, expired, started, nativeReleased, treeReleased, released, rootSeen}
       \subseteq BOOLEAN
  /\ phase \in {"launching", "cleanup", "failed", "aggregate", "proxy"}
  /\ directory \in {"none", "present", "removed"}
  /\ tree \in [Proc -> {"absent", "running", "exited"}] /\ parent \in [Proc -> Proc]
  /\ known \subseteq Proc /\ targets \subseteq Proc /\ reading \subseteq Reader
  /\ attempt \in {"none", "reads", "native", "root", "list", "kill", "rootAgain", "wait", "remove"}

(* createManagedProcessCapturePaths has made the directory, if output is   *)
(* captured at all.                                                        *)
ManagedInit ==
  /\ native \in BOOLEAN /\ killTree \in BOOLEAN
  /\ directory \in {"none", "present"} /\ phase = "launching"
  /\ tree = [p \in Proc |-> "absent"] /\ parent = [p \in Proc |-> Root]
  /\ known = {Root} /\ targets = {} /\ reading = {}
  /\ attempt = "none" /\ expired = FALSE /\ rootSeen = FALSE
  /\ started = FALSE /\ nativeReleased = FALSE /\ treeReleased = FALSE /\ released = FALSE

running(p) == tree[p] = "running"
Running == {p \in Proc : running(p)}

------------------------------------------------------------------------------
(* launchManagedProcess                                                    *)
Launch ==
  /\ phase = "launching" /\ phase' = "proxy"
  /\ tree' = [tree EXCEPT ![Root] = "running"]
  /\ UNCHANGED <<native, killTree, directory, parent, known, reading, attempt, expired,
                 flags, targets, rootSeen>>
LaunchFails ==
  /\ phase = "launching"
  /\ phase' = IF directory = "present" THEN "cleanup" ELSE "failed"
  /\ UNCHANGED <<native, killTree, directory, proc, known, reading, attempt, expired,
                 flags, targets, rootSeen>>
(* The cleanup's own failure is reported with the launch's.                *)
LaunchCleanup(ok) ==
  /\ phase = "cleanup"
  /\ directory' = IF ok THEN "removed" ELSE directory
  /\ phase' = IF ok THEN "failed" ELSE "aggregate"
  /\ UNCHANGED <<native, killTree, proc, known, reading, attempt, expired,
                 flags, targets, rootSeen>>

(* The application on the agent.                                           *)
Spawn(p, q) ==
  /\ running(p) /\ tree[q] = "absent"
  /\ tree' = [tree EXCEPT ![q] = "running"] /\ parent' = [parent EXCEPT ![q] = p]
  /\ UNCHANGED <<native, killTree, phase, directory, known, reading, attempt, expired,
                 flags, targets, rootSeen>>
Exit(p) ==
  /\ running(p) /\ tree' = [tree EXCEPT ![p] = "exited"]
  /\ UNCHANGED <<native, killTree, phase, directory, parent, known, reading, attempt, expired,
                 flags, targets, rootSeen>>

------------------------------------------------------------------------------
(* collectTrackedProcesses: the running processes reached by parents from  *)
(* the root and every process an earlier listing reached, whether or not   *)
(* that one still runs.                                                    *)
Closed(ids) == \A p \in Running \ {Root} : parent[p] \in ids => p \in ids
trackedIds ==
  {p \in Proc : \A ids \in SUBSET Proc : known \cup {Root} \subseteq ids /\ Closed(ids) => p \in ids}
collectTrackedProcesses == {p \in Running \ {Root} : parent[p] \in trackedIds}
Track == known' = trackedIds

(* snapshot, processes, windows and waitForExit list the tree and leave    *)
(* the rest alone.                                                         *)
Observe ==
  /\ phase = "proxy" /\ ~started /\ Track
  /\ UNCHANGED <<native, killTree, phase, directory, proc, reading, attempt, expired,
                 flags, targets, rootSeen>>

(* Mutated: reads are refused only once the release has succeeded.         *)
StartReadUntilReleased(r) ==
  /\ phase = "proxy" /\ ~released /\ directory = "present" /\ r \notin reading
  /\ reading' = reading \cup {r}
  /\ UNCHANGED <<native, killTree, phase, directory, proc, known, attempt, expired,
                 flags, targets, rootSeen>>

(* stdoutText, stderrText: assertNotReleased, then tracked in activeReads. *)
StartRead(r) ==
  /\ phase = "proxy" /\ ~started /\ directory = "present" /\ r \notin reading
  /\ reading' = reading \cup {r}
  /\ UNCHANGED <<native, killTree, phase, directory, proc, known, attempt, expired,
                 flags, targets, rootSeen>>
ReadSettles(r) ==
  /\ r \in reading /\ reading' = reading \ {r}
  /\ UNCHANGED <<native, killTree, phase, directory, proc, known, attempt, expired,
                 flags, targets, rootSeen>>

------------------------------------------------------------------------------
(* releaseAsync: concurrent calls join the attempt; a later one starts over *)
(* with the stages that are unfinished.                                     *)
Stages == CASE native /\ ~nativeReleased -> "native"
            [] ~native /\ ~treeReleased -> IF killTree THEN "root" ELSE "remove"
            [] OTHER -> "remove"
ReleaseProxy ==
  /\ phase = "proxy" /\ ~released /\ attempt = "none"
  /\ started' = TRUE /\ attempt' = "reads" /\ expired' = FALSE
  /\ UNCHANGED <<native, killTree, phase, directory, proc, known, reading,
                 nativeReleased, treeReleased, released, targets, rootSeen>>
ReadsSettled ==
  /\ attempt = "reads" /\ reading = {} /\ attempt' = Stages
  /\ treeReleased' = (treeReleased \/ (~native /\ ~killTree))
  /\ UNCHANGED <<native, killTree, phase, directory, proc, known, reading, expired,
                 started, nativeReleased, released, targets, rootSeen>>
ReleaseExpires ==
  /\ attempt # "none" /\ ~expired /\ expired' = TRUE
  /\ UNCHANGED <<native, killTree, phase, directory, proc, known, reading, attempt,
                 flags, targets, rootSeen>>
(* A failure that is not transient, or comes after the deadline; the wait  *)
(* for the reads fails only by its deadline.                               *)
AttemptFails ==
  /\ attempt # "none" /\ (attempt = "reads" => expired /\ reading # {})
  /\ attempt' = "none" /\ targets' = {}
  /\ UNCHANGED <<native, killTree, phase, directory, proc, known, reading, expired,
                 flags, rootSeen>>

(* process.releaseManaged: the agent ends the tree it owns, or waits for   *)
(* its end; what it lets run with killTree unset it no longer manages.     *)
ReleaseNative ==
  /\ attempt = "native" /\ (killTree \/ directory # "present" \/ Running = {})
  /\ nativeReleased' = TRUE /\ attempt' = "remove"
  /\ tree' = IF killTree THEN [p \in Proc |-> IF running(p) THEN "exited" ELSE tree[p]] ELSE tree
  /\ UNCHANGED <<native, killTree, phase, directory, parent, known, reading, expired,
                 started, treeReleased, released, targets, rootSeen>>

(* killTrackedProcessTree: the root is asked for before the list is.       *)
SeeRoot ==
  /\ attempt \in {"root", "rootAgain"} /\ rootSeen' = running(Root)
  /\ attempt' = IF attempt = "root" THEN "list" ELSE "wait"
  /\ UNCHANGED <<native, killTree, phase, directory, proc, known, reading, expired,
                 flags, targets>>
List ==
  /\ attempt = "list" /\ attempt' = "kill" /\ Track
  /\ targets' = collectTrackedProcesses \cup (IF rootSeen THEN {Root} ELSE {})
  /\ UNCHANGED <<native, killTree, phase, directory, proc, reading, expired, flags, rootSeen>>
processTreeDepth[p \in Proc] ==
  IF p # Root /\ parent[p] \in targets THEN 1 + processTreeDepth[parent[p]] ELSE 0
(* The deepest first; a process that is gone by now counts as killed.      *)
Kill(p) ==
  /\ attempt = "kill" /\ p \in targets
  /\ \A q \in targets : processTreeDepth[q] <= processTreeDepth[p]
  /\ targets' = targets \ {p}
  /\ tree' = [tree EXCEPT ![p] = "exited"]
  /\ UNCHANGED <<native, killTree, phase, directory, parent, known, reading, attempt, expired,
                 flags, rootSeen>>
AllKilled ==
  /\ attempt = "kill" /\ targets = {} /\ attempt' = "rootAgain"
  /\ UNCHANGED <<native, killTree, phase, directory, proc, known, reading, expired,
                 flags, targets, rootSeen>>
(* Mutated: the end of the root is taken for the end of the tree.          *)
AwaitRootExit ==
  /\ attempt = "wait" /\ Track
  /\ IF ~rootSeen THEN attempt' = "remove" /\ treeReleased' = TRUE
     ELSE ~expired /\ attempt' = "rootAgain" /\ UNCHANGED treeReleased
  /\ UNCHANGED <<native, killTree, phase, directory, proc, reading, expired,
                 started, nativeReleased, released, targets, rootSeen>>

(* The tree has not exited: another listing, until the deadline.           *)
AwaitExit ==
  /\ attempt = "wait" /\ Track
  /\ IF ~rootSeen /\ collectTrackedProcesses = {}
     THEN attempt' = "remove" /\ treeReleased' = TRUE
     ELSE ~expired /\ attempt' = "rootAgain" /\ UNCHANGED treeReleased
  /\ UNCHANGED <<native, killTree, phase, directory, proc, reading, expired,
                 started, nativeReleased, released, targets, rootSeen>>

RemoveDirectory ==
  /\ attempt = "remove" /\ attempt' = "none" /\ released' = TRUE
  /\ directory' = IF directory = "present" THEN "removed" ELSE directory
  /\ UNCHANGED <<native, killTree, phase, proc, known, reading, expired,
                 started, nativeReleased, treeReleased, targets, rootSeen>>

ManagedNext ==
  \/ Launch \/ LaunchFails \/ \E ok \in BOOLEAN : LaunchCleanup(ok)
  \/ \E p \in Proc : Exit(p) \/ Kill(p) \/ \E q \in Proc : Spawn(p, q)
  \/ Observe
  \/ \E r \in Reader : StartRead(r) \/ ReadSettles(r)
  \/ ReleaseProxy \/ ReadsSettled \/ ReleaseExpires \/ AttemptFails
  \/ ReleaseNative \/ SeeRoot \/ List \/ AllKilled \/ AwaitExit \/ RemoveDirectory

ManagedSpec == ManagedInit /\ [][ManagedNext]_managedVars

------------------------------------------------------------------------------
(* README "Release waits for reads already in progress": the output and the *)
(* agent's handles outlive every read, also across failed releases; and a   *)
(* capture directory always has a proxy that will remove it, or a caller    *)
(* that was told of its failed removal.                                     *)
OutputIsKept ==
  /\ reading # {} => directory = "present" /\ ~nativeReleased /\ ~treeReleased
  /\ directory = "present" => phase # "failed" /\ ~released

(* No read of a managed process's output meets a directory already removed,  *)
(* through retries, deadlines and concurrent releases.                      *)
ReadsKeepOutput == ManagedTypeOK /\ OutputIsKept

(* A successful release leaves no tracked process running: with an old      *)
(* agent, none whose parent any listing has ever reached.                   *)
ReleasedTreeIsGone ==
  released /\ killTree =>
    IF native THEN Running = {} ELSE \A p \in Running : p # Root /\ parent[p] \notin known
=============================================================================
