----------------------------- MODULE WindowProbe -----------------------------
(***************************************************************************)
(* The probes of the driver's window waits (driver/connection.ts): the      *)
(* methods of a window proxy, waitForWindow and waitForNoWindow.  A probe   *)
(* is several requests and the desktop changes between any two of them; a   *)
(* probe that fails is repeated by waitForResult (module WaitRetry).        *)
(***************************************************************************)
EXTENDS Naturals

CONSTANTS StableIterations, \* stableIterations
          MaxChanges        \* bound on the changes of the desktop

ASSUME StableAssumption == StableIterations \in Nat

VARIABLES kind,         \* which wait
          child,        \* the window is no top-level window
          strict,       \* query.strict
          withRevision, \* expected.desktopRevision is given
          window,       \* the desktop: "shown", "hidden" or "gone"
          place,        \* where the window is; 1 is the place expected
          revised,      \* the desktop no longer has the revision expected
          matches,      \* the number of windows that match the query
          changes,      \* changes of the desktop so far (bound)
          step,         \* the next request of the probe, "judge" or "done"
          seen, listed, \* what the probe has found: the window's state; its place, or a count
          previousKey, stableIterations,
          probeOutcome, \* "none", "resolved" or "rejected"
          truth,        \* the window's state when the answer was formed (history)
          streak        \* snapshots in a row that did match (history)

wait == <<kind, child, strict, withRevision>>
desktop == <<window, place, revised, matches, changes>>
counts == <<previousKey, stableIterations>>
probeVars == <<wait, desktop, step, seen, listed, counts, probeOutcome, truth, streak>>

Window == {"shown", "hidden", "gone"}
ByQuery == {"window", "noWindow"}
Start == IF kind = "placement" THEN "before" ELSE "list"

ProbeInit ==
  /\ kind \in {"closed", "hidden", "visible", "stable", "placement"} \cup ByQuery
  /\ child \in (IF kind \in ByQuery THEN {FALSE} ELSE BOOLEAN)
  /\ strict \in (IF kind = "window" THEN {"true", "false", "unset"} ELSE {"unset"})
  /\ withRevision \in (IF kind = "placement" THEN BOOLEAN ELSE {FALSE})
  /\ window \in {"shown", "hidden"} /\ place \in 1..2 /\ revised = FALSE
  /\ matches \in (IF kind \in ByQuery THEN 0..2 ELSE {0})
  /\ step = Start /\ seen = "gone" /\ listed = 0
  /\ previousKey = 0 /\ stableIterations = 0
  /\ probeOutcome = "none" /\ truth = window /\ streak = 0 /\ changes = 0

(* The window is shown, hidden, moved or closed, monitors are rearranged,   *)
(* other windows come and go.  A closed window's identifier never comes back.*)
Change ==
  /\ changes < MaxChanges /\ changes' = changes + 1
  /\ \/ window # "gone" /\ window' \in Window \ {window} /\ UNCHANGED <<place, revised, matches>>
     \/ place' = 3 - place /\ UNCHANGED <<window, revised, matches>>
     \/ withRevision /\ revised' = TRUE /\ UNCHANGED <<window, place, matches>>
     \/ kind \in ByQuery /\ matches' \in 0..2 /\ UNCHANGED <<window, place, revised>>
  /\ UNCHANGED <<wait, step, seen, listed, counts, probeOutcome, truth, streak>>

Retry == step' = Start /\ UNCHANGED probeOutcome
Resolve == step' = "done" /\ probeOutcome' = "resolved"
Reject == step' = "done" /\ probeOutcome' = "rejected"

------------------------------------------------------------------------------
(* waitForPlacement: the revision is read before and after the snapshot,    *)
(* and another one (DESKTOP_CHANGED) ends the wait.                         *)
readDesktop(at, next) ==
  /\ kind = "placement" /\ step = at
  /\ IF withRevision /\ revised THEN Reject ELSE step' = next /\ UNCHANGED probeOutcome
  /\ UNCHANGED <<wait, desktop, seen, listed, counts, truth, streak>>
Snapshot ==
  /\ step = "snapshot" /\ step' = "after"
  /\ seen' = window /\ listed' = place
  /\ streak' = IF window = "shown" /\ place = 1 /\ ~revised THEN streak + 1 ELSE 0
  /\ UNCHANGED <<wait, desktop, counts, probeOutcome, truth>>
Matching == seen = "shown" /\ listed = 1
(* Mutated: a failed observation leaves the count.                          *)
PlacementMissedCounting ==
  /\ kind = "placement"
  /\ step \in {"before", "snapshot", "after"} \/ (step = "judge" /\ ~Matching)
  /\ streak' = 0
  /\ Retry
  /\ UNCHANGED <<wait, desktop, seen, listed, counts, truth>>

(* A failed observation breaks consecutiveness.                             *)
PlacementMissed ==
  /\ kind = "placement"
  /\ step \in {"before", "snapshot", "after"} \/ (step = "judge" /\ ~Matching)
  /\ stableIterations' = 0 /\ streak' = 0
  /\ Retry
  /\ UNCHANGED <<wait, desktop, seen, listed, previousKey, truth>>
PlacementMatched ==
  /\ kind = "placement" /\ step = "judge" /\ Matching
  /\ stableIterations' = stableIterations + 1
  /\ IF stableIterations' >= StableIterations THEN Resolve ELSE Retry
  /\ UNCHANGED <<wait, desktop, seen, listed, previousKey, truth, streak>>

------------------------------------------------------------------------------
(* findWindowById: the top-level windows, then the children of each of them.*)
Look(there) ==
  /\ seen' = IF there THEN window ELSE "gone"
  /\ listed' = IF kind \in ByQuery THEN matches ELSE place
  /\ truth' = window
  /\ UNCHANGED <<wait, desktop, counts, probeOutcome, streak>>
listTopLevelWindows ==
  /\ step = "list" /\ Look(~child)
  /\ step' = IF child THEN "children" ELSE "judge"
collectWindows == step = "children" /\ step' = "judge" /\ Look(TRUE)
(* Whatever makes the request for children fail, the search goes on.        *)
ChildrenPassedOver == step = "children" /\ step' = "judge" /\ Look(FALSE)

(* waitForClosed, waitForHidden, waitForVisible                             *)
Wanted == CASE kind = "closed" -> {"gone"}
            [] kind = "hidden" -> {"gone", "hidden"}
            [] OTHER -> {"shown"}
JudgeState ==
  /\ kind \in {"closed", "hidden", "visible"} /\ step = "judge"
  /\ IF seen \in Wanted THEN Resolve ELSE Retry
  /\ UNCHANGED <<wait, desktop, seen, listed, counts, truth, streak>>
(* waitForStableBounds: a probe that misses the window leaves the count.    *)
JudgeBounds ==
  /\ kind = "stable" /\ step = "judge"
  /\ IF seen = "gone" THEN UNCHANGED counts /\ Retry
     ELSE /\ previousKey' = listed
          /\ stableIterations' = IF previousKey = listed THEN stableIterations + 1 ELSE 1
          /\ IF stableIterations' >= StableIterations THEN Resolve ELSE Retry
  /\ UNCHANGED <<wait, desktop, seen, listed, truth, streak>>
(* waitForWindowByQuery and waitForNoWindowByQuery                          *)
JudgeQuery ==
  /\ kind \in ByQuery /\ step = "judge"
  /\ CASE kind = "noWindow" -> IF listed = 0 THEN Resolve ELSE Retry
       [] kind = "window" /\ (listed = 1 \/ (listed > 1 /\ strict # "true")) -> Resolve
       [] kind = "window" /\ listed > 1 /\ strict = "true" -> Reject
       [] OTHER -> Retry
  /\ UNCHANGED <<wait, desktop, seen, listed, counts, truth, streak>>

ProbeNext ==
  \/ Change
  \/ readDesktop("before", "snapshot") \/ readDesktop("after", "judge")
  \/ Snapshot \/ PlacementMissed \/ PlacementMatched
  \/ listTopLevelWindows \/ collectWindows \/ ChildrenPassedOver
  \/ JudgeState \/ JudgeBounds \/ JudgeQuery
ProbeSpec == ProbeInit /\ [][ProbeNext]_probeVars

------------------------------------------------------------------------------
(* waitForPlacement resolves only after as many consecutive snapshots as    *)
(* asked for did show the window in its place, under the revision it was    *)
(* chosen for, with no failed observation and no other desktop in between.  *)
PlacementIsConsecutive ==
  kind = "placement" /\ probeOutcome = "resolved" => streak >= StableIterations

(* A wait for a window to be closed, hidden or visible resolves only if the *)
(* desktop was in that state when the answer was formed.  Only a child is   *)
(* taken for closed or hidden without: when the windows it belongs to could *)
(* not be searched.                                                         *)
AnswerWasTrue ==
  probeOutcome = "resolved" /\ kind \in {"closed", "hidden", "visible"} =>
    truth \in Wanted \/ (child /\ kind # "visible")

(* The waits of a window resolve on what the desktop did show:              *)
(* waitForPlacement on consecutive observations, the others on the state    *)
(* they waited for (createWindowProxy).                                     *)
WaitsAreTrue == PlacementIsConsecutive /\ AnswerWasTrue
=============================================================================
