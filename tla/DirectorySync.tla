---------------------------- MODULE DirectorySync ----------------------------
(***************************************************************************)
(* syncDirectory of driver/connection.ts.  Both trees are listed once, and *)
(* the lists determine every request of the call: make directories, upload *)
(* files under a temporary name and rename them, delete what the local tree*)
(* lacks.  options.include and options.exclude filter both lists, entry by *)
(* entry, the temporary files earlier calls have left behind as well.  A   *)
(* request that fails for a transient reason is retried until a deadline;  *)
(* another failure ends the call with the work half done, and a later call *)
(* starts from there.  The agent's file names ignore case, the lists do    *)
(* not.                                                                    *)
(***************************************************************************)
EXTENDS Naturals, Sequences, SequencesExt

CONSTANTS Path,         \* relative paths, as sequences of names
          Canon,        \* Canon[p]: the path the agent's file system takes p for
          Filters,      \* what the patterns of a call match (see FilterAssumption)
          MaxSyncCalls  \* bound on the calls of syncDirectory

ASSUME SyncAssumption == Path \subseteq Seq(STRING) /\ <<>> \notin Path
\* A path and one below it are never the same.
ASSUME CanonAssumption == \A p, q \in Path : IsStrictPrefix(p, q) => Canon[p] # Canon[q]

(* What matches a pattern of options.include -- everything when there is    *)
(* none -- and what matches one of options.exclude: directories, files and  *)
(* the temporary files of a path, <path>.agent-rover-<time>-<index>.tmp.    *)
(* A pattern that matches the name of a file matches a directory's, too.    *)
Kind == {"dir", "file", "temporary"}
ASSUME FilterAssumption ==
  \A f \in Filters :
    /\ f \in [include : SUBSET (Path \X Kind), exclude : SUBSET (Path \X Kind)]
    /\ \A p \in Path : /\ <<p, "file">> \in f.include => <<p, "dir">> \in f.include
                       /\ <<p, "file">> \in f.exclude => <<p, "dir">> \in f.exclude

VARIABLES localTree,     \* the local tree: "none", "dir" or "new" for a file's data
          remoteTree,    \* the remote tree, by the spelling of its entries
          temporaries,   \* temporary files <<p, call>> in the remote tree; of call 0
                         \*   are those of earlier calls for other local trees
          filter,        \* what options.include and options.exclude match
          deleteExtraneous,
          remoteEntries, \* the remote tree as the call has listed it,
          remoteTemporaries, \* with the temporary files it has found
          loop,          \* the loop of syncDirectory that runs, 1..5
          entries,       \* the entries this loop has still to consider
          entry,         \* the one it considers
          steps,         \* the requests still to make for it
          sync,          \* "idle", "running", "done" or "rejected"
          syncCalls,     \* calls made so far (bound); it also names temporary files
          originalTree   \* the remote tree before the first call (history)

options == <<localTree, filter, deleteExtraneous, originalTree>>
lists == <<remoteEntries, remoteTemporaries>>
progress == <<loop, entries, entry, steps>>
syncVars == <<options, remoteTree, temporaries, lists, progress, sync, syncCalls>>

Above(p) == {q \in Path : IsStrictPrefix(q, p)}
IsTree(t) ==
  \A p \in Path : t[p] # "none" =>
    /\ \A q \in Above(p) : t[q] = "dir"
    /\ \A q \in Path \ {p} : Canon[q] = Canon[p] => t[q] = "none"

SyncInit ==
  /\ localTree \in {t \in [Path -> {"none", "dir", "new"}] : IsTree(t)}
  /\ remoteTree \in {t \in [Path -> {"none", "dir", "old", "new"}] : IsTree(t)}
  /\ filter \in Filters /\ deleteExtraneous \in BOOLEAN
  /\ temporaries \in {files \in SUBSET (Path \X {0}) :
                        \A t \in files : \A q \in Above(t[1]) : remoteTree[q] = "dir"}
  /\ originalTree = remoteTree
  /\ remoteEntries = remoteTree /\ remoteTemporaries = {}
  /\ loop = 1 /\ entries = {} /\ entry = <<>> /\ steps = <<>>
  /\ sync = "idle" /\ syncCalls = 0

-----------------------------------------------------------------------------
(* The filter, and the manifests it leaves.  buildLocalDirectoryManifest    *)
(* does not enter an excluded directory, but one that is only not included; *)
(* the remote list is filtered entry by entry.                             *)
KindOf(value) == IF value = "dir" THEN "dir" ELSE "file"
excluded(p, kind) == <<p, kind>> \in filter.exclude
included(p, kind) == <<p, kind>> \in filter.include /\ ~excluded(p, kind)

localManifest ==
  {p \in Path : /\ localTree[p] # "none" /\ included(p, KindOf(localTree[p]))
                /\ \A q \in Above(p) : ~excluded(q, "dir")}
remoteMap == {p \in Path : remoteEntries[p] # "none" /\ included(p, KindOf(remoteEntries[p]))}
(* Mutated: excluded entries are looked for in the local tree. *)
hasExcludedLocal(tree, files, p) ==
  \E q \in Path : localTree[q] # "none" /\ excluded(q, KindOf(localTree[q])) /\ p \in Above(q)
(* Entries that are only not included do not count.                        *)
hasExcludedDescendant(tree, files, p) ==
  \/ \E q \in Path : tree[q] # "none" /\ excluded(q, KindOf(tree[q])) /\ p \in Above(q)
  \/ \E t \in files : excluded(t[1], "temporary") /\ p \in Above(t[1])

(* The entries of each loop; the fourth one stands for the extraneous       *)
(* files that are temporary files of earlier calls.                        *)
Extraneous == {p \in remoteMap \ localManifest : deleteExtraneous}
extraneousTemporaries == {t \in remoteTemporaries : included(t[1], "temporary")}
EntriesOf(n) ==
  CASE n = 1 -> {p \in localManifest : localTree[p] = "dir"}
    [] n = 2 -> {p \in localManifest : localTree[p] = "new"}
    [] n = 3 -> {p \in Extraneous : remoteEntries[p] # "dir"}
    [] n = 4 -> {}
    [] n = 5 -> {p \in Extraneous :
                   /\ remoteEntries[p] = "dir"
                   /\ ~hasExcludedDescendant(remoteEntries, remoteTemporaries, p)}

(* What one round of a loop requests.                                      *)
StepsOf(n, p) ==
  CASE n = 1 /\ p \in remoteMap /\ remoteEntries[p] = "dir" -> <<>>
    [] n = 1 /\ p \in remoteMap /\ remoteEntries[p] # "dir" -> <<"remove", "mkdir">>
    [] n = 1 /\ p \notin remoteMap -> <<"mkdir">>
    [] n = 2 /\ p \in remoteMap /\ remoteEntries[p] = localTree[p] -> <<>>
    [] n = 2 /\ p \in remoteMap /\ remoteEntries[p] = "dir" -> <<"remove", "write", "rename">>
    [] n = 2 /\ ~(p \in remoteMap /\ remoteEntries[p] \in {"dir", localTree[p]}) -> <<"write", "rename">>
    [] n \in {3, 5} -> <<"remove">>

-----------------------------------------------------------------------------
(* The agent's file system: removal takes what is below along, a new entry *)
(* takes the place of one spelled otherwise, file.write makes the parents. *)
Same(p) == {q \in Path : Canon[q] = Canon[p]}
Gone(p) == Same(p) \cup {q \in Path : Above(q) \cap Same(p) # {}}
Removed(p) == [q \in Path |-> IF q \in Gone(p) THEN "none" ELSE remoteTree[q]]
Put(p, value) ==
  [q \in Path |-> CASE q = p -> value
                    [] q \in Above(p) /\ remoteTree[q] = "none" -> "dir"
                    [] q \in Same(p) \ {p} -> "none"
                    [] OTHER -> remoteTree[q]]
Holds(p, values) == \E q \in Same(p) : remoteTree[q] \in values
Reachable(p) == \A q \in Above(p) : ~Holds(q, {"old", "new"})

RemoveEntry(p) ==
  /\ remoteTree' = Removed(p)
  /\ temporaries' = {t \in temporaries : t[1] \notin Gone(p) \/ t[1] \in Same(p)}
MakeDirectory(p) ==
  /\ Reachable(p) /\ ~Holds(p, {"old", "new"})
  /\ remoteTree' = IF Holds(p, {"dir"}) THEN remoteTree ELSE Put(p, "dir")
  /\ UNCHANGED temporaries
WriteTemporary(p) ==
  /\ Reachable(p)
  /\ remoteTree' =
       [q \in Path |-> IF q \in Above(p) /\ remoteTree[q] = "none" THEN "dir" ELSE remoteTree[q]]
  /\ temporaries' = temporaries \cup {<<p, syncCalls>>}
RenameTemporary(p) ==
  /\ ~Holds(p, {"dir"})
  /\ remoteTree' = Put(p, localTree[p])
  /\ temporaries' = temporaries \ {<<p, syncCalls>>}
RemoveTemporaries ==
  /\ temporaries' = temporaries \ extraneousTemporaries
  /\ UNCHANGED remoteTree

CarryOut(request) ==
  \/ request = "remove" /\ RemoveEntry(entry)
  \/ request = "mkdir" /\ MakeDirectory(entry)
  \/ request = "write" /\ WriteTemporary(entry)
  \/ request = "rename" /\ RenameTemporary(entry)
  \/ request = "remove temporaries" /\ RemoveTemporaries

(* A removal that stops half way has taken some of what is below.          *)
RemovePart ==
  \E gone \in SUBSET Gone(entry), files \in SUBSET temporaries :
    /\ remoteTree' = [q \in Path |-> IF q \in gone THEN "none" ELSE remoteTree[q]]
    /\ temporaries' = temporaries \ files
    /\ IsTree(remoteTree')
    /\ \A t \in files : t[1] \in Gone(entry) \ Same(entry)
    /\ \A t \in temporaries' : Above(t[1]) \cap gone = {}
RemoveSomeTemporaries ==
  /\ \E files \in SUBSET extraneousTemporaries : temporaries' = temporaries \ files
  /\ UNCHANGED remoteTree

-----------------------------------------------------------------------------
SyncDirectory ==
  /\ sync # "running" /\ syncCalls < MaxSyncCalls
  /\ sync' = "running" /\ syncCalls' = syncCalls + 1
  /\ remoteEntries' = remoteTree /\ remoteTemporaries' = temporaries
  /\ loop' = 1 /\ entries' = EntriesOf(1) /\ entry' = <<>> /\ steps' = <<>>
  /\ UNCHANGED <<options, remoteTree, temporaries>>

(* directoryDepth orders the loops over directories.                       *)
InTurn(p) ==
  \A q \in entries : /\ loop = 1 => Len(p) <= Len(q)
                     /\ loop = 5 => Len(q) <= Len(p)
NextEntry(p) ==
  /\ sync = "running" /\ steps = <<>> /\ p \in entries /\ InTurn(p)
  /\ entry' = p /\ entries' = entries \ {p} /\ steps' = StepsOf(loop, p)
  /\ UNCHANGED <<options, remoteTree, temporaries, lists, loop, sync, syncCalls>>

NextLoop ==
  /\ sync = "running" /\ steps = <<>> /\ entries = {} /\ loop < 5
  /\ loop' = loop + 1 /\ entries' = EntriesOf(loop + 1) /\ entry' = <<>>
  /\ steps' = IF loop + 1 = 4 /\ deleteExtraneous THEN <<"remove temporaries">> ELSE <<>>
  /\ UNCHANGED <<options, remoteTree, temporaries, lists, sync, syncCalls>>

RequestIsMade ==
  /\ sync = "running" /\ steps # <<>>
  /\ CarryOut(Head(steps))
  /\ steps' = Tail(steps)
  /\ UNCHANGED <<options, lists, loop, entries, entry, sync, syncCalls>>

(* withLockedFileRetry ends with the failure, or does not retry it.  The    *)
(* request may have been carried out all the same, or in part.             *)
RequestFails ==
  /\ sync = "running" /\ steps # <<>>
  /\ sync' = "rejected" /\ entries' = {} /\ entry' = <<>> /\ steps' = <<>> /\ loop' = 1
  /\ \/ UNCHANGED <<remoteTree, temporaries>>
     \/ CarryOut(Head(steps))
     \/ Head(steps) = "remove" /\ RemovePart
     \/ Head(steps) = "remove temporaries" /\ RemoveSomeTemporaries
  /\ UNCHANGED <<options, lists, syncCalls>>

SyncEnds ==
  /\ sync = "running" /\ steps = <<>> /\ entries = {} /\ loop = 5
  /\ sync' = "done"
  /\ UNCHANGED <<options, remoteTree, temporaries, lists, progress, syncCalls>>

SyncNext ==
  \/ SyncDirectory \/ NextLoop \/ RequestIsMade \/ RequestFails \/ SyncEnds
  \/ \E p \in Path : NextEntry(p)
SyncSpec == SyncInit /\ [][SyncNext]_syncVars

-----------------------------------------------------------------------------
(* A local file takes the place of a directory above p.                    *)
Replaced(p) == \E q \in Above(p) : q \in localManifest /\ localTree[q] = "new"
(* A mirror deletes an included directory above p that the local tree lacks. *)
Swept(p) == deleteExtraneous /\ \E q \in Above(p) : included(q, "dir") /\ q \notin localManifest

(* A call that succeeds has made the remote tree agree with the local one  *)
(* wherever it is included, whatever was there and whatever earlier calls  *)
(* had left half done; a mirror also leaves nothing else that is included, *)
(* no temporary file either, but the directories above what is excluded    *)
(* (README: "Synchronizes a local directory to the connected machine").    *)
Synchronized ==
  sync = "done" =>
    /\ \A p \in localManifest : remoteTree[p] = localTree[p]
    /\ deleteExtraneous =>
         /\ \A t \in temporaries : ~included(t[1], "temporary")
         /\ \A p \in Path \ localManifest :
              remoteTree[p] # "none" /\ included(p, KindOf(remoteTree[p])) =>
                hasExcludedDescendant(remoteTree, temporaries, p)

(* What is not included keeps its remote state through any number of calls, *)
(* unless it lies below a directory that a local file has to replace.  What *)
(* is merely not included also goes with an included directory that a       *)
(* mirror deletes; what is excluded keeps such a directory.                *)
OthersAreKept ==
  \A p \in Path :
    originalTree[p] # "none" /\ ~included(p, KindOf(originalTree[p])) =>
      \/ remoteTree[p] = originalTree[p]
      \/ Replaced(p)
      \/ Swept(p) /\ ~excluded(p, KindOf(originalTree[p]))

(* No two of the names differ in case only: the lists would take for two   *)
(* what is one for the agent.                                              *)
Existing == {p \in Path : localTree[p] # "none" \/ originalTree[p] # "none"}
NamesAreApart == \A p, q \in Existing : Canon[p] = Canon[q] => p = q

(* syncDirectory mirrors what is included and keeps the rest, also after    *)
(* calls that ended half way, of trees whose names are apart.              *)
MirrorIsExact == NamesAreApart => Synchronized /\ OthersAreKept
=============================================================================
