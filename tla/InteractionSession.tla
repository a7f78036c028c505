------------------------- MODULE InteractionSession -------------------------
(***************************************************************************)
(* An interaction session of the driver: createInteractionSession and      *)
(* withInteractionSession of driver/connection.ts.  The session remembers  *)
(* the keys and buttons it holds and lifts them when it is released.  Every*)
(* input is a request: one connection's requests are performed in the order*)
(* they were sent, and answered in that order, but callers need not await  *)
(* one call before they make the next.                                     *)
(***************************************************************************)
EXTENDS Naturals, Sequences, SequencesExt

CONSTANTS Id,       \* keys and buttons: `keyboard:${key}`, `mouse:${button}`
          MaxCalls  \* bound on the calls of the application

ASSUME CallsAssumption == {"none", "cursor"} \cap Id = {} /\ MaxCalls \in Nat

VARIABLES requests,   \* input requests sent and not yet performed, in order
          answers,    \* answers on their way back, in order
          pressed,    \* the keys and buttons down on the remote desktop
          heldIds,    \* heldIds
          heldInputs, \* heldInputs, by their ids
          release,    \* releasePromise; "failing": pending with a first error
          plan,       \* the inputs releaseOwnedInputs has still to consider
          owned,      \* heldIds when the release began (history)
          caller,     \* of withInteractionSession: what has become of operation
          calls       \* number of calls made (bound)

interactionVars == <<requests, answers, pressed, heldIds, heldInputs, release, plan, owned, caller, calls>>

Op == {"down", "up", "tap", "move", "lift", "cursor"}
Request == [op: Op, id: Id \cup {"none"}]

InteractionTypeOK ==
  /\ requests \in Seq(Request) /\ answers \in Seq(Request \X BOOLEAN)
  /\ pressed \subseteq Id /\ heldIds \subseteq Id /\ owned \subseteq Id
  /\ heldInputs \in Seq(Id)
  /\ release \in {"none", "pending", "ok", "failed", "failing"}
  /\ plan \in Seq(Id \cup {"cursor"})
  /\ caller \in {"running", "succeeded", "failed", "returned", "rejected"}
  /\ calls \in 0..MaxCalls

(* The session is returned once the cursor's position has been read. *)
InteractionInit ==
  /\ requests = <<>> /\ answers = <<>> /\ pressed = {}
  /\ heldIds = {} /\ heldInputs = <<>>
  /\ release = "none" /\ plan = <<>> /\ owned = {}
  /\ caller = "running" /\ calls = 0

releasing == release # "none"
Outstanding(op, id) ==
  \/ \E i \in DOMAIN requests : requests[i] = [op |-> op, id |-> id]
  \/ \E i \in DOMAIN answers : answers[i][1] = [op |-> op, id |-> id]

removeHeldInput(id) ==
  heldInputs' = IF Contains(heldInputs, id) THEN RemoveFirst(heldInputs, id) ELSE heldInputs

------------------------------------------------------------------------------
(* The application's calls.  assertActive comes first; a call that has     *)
(* nothing to do returns without a request.                                *)
Send(op, id) == requests' = Append(requests, [op |-> op, id |-> id])
performInput(op, id) ==
  /\ ~releasing /\ calls < MaxCalls
  /\ calls' = calls + 1
  /\ Send(op, id)
  /\ UNCHANGED <<answers, pressed, heldIds, heldInputs, release, plan, owned, caller>>

Down(id) == id \notin heldIds /\ performInput("down", id)
Up(id) == id \in heldIds /\ performInput("up", id)
(* keyboard.press, mouse.click and mouse.drag end with the key or button up. *)
Tap(id) == performInput("tap", id)
MoveOrWheel == performInput("move", "none")

(* withInteractionSession: operation settles, whatever it left unanswered. *)
OperationSettles(result) ==
  /\ caller = "running" /\ caller' = result
  /\ UNCHANGED <<requests, answers, pressed, heldIds, heldInputs, release, plan, owned, calls>>

(* releaseAsync: later calls join the same promise, even a rejected one.   *)
ReleaseInteraction(restoreCursor) ==
  /\ release = "none"
  /\ release' = "pending" /\ owned' = heldIds
  /\ plan' = Reverse(heldInputs) \o (IF restoreCursor THEN <<"cursor">> ELSE <<>>)
  /\ UNCHANGED <<requests, answers, pressed, heldIds, heldInputs, caller, calls>>

Lifting == Outstanding("cursor", "none") \/ \E id \in Id : Outstanding("lift", id)

(* releaseOwnedInputs: one input after the other, then the cursor.         *)
LiftNext ==
  /\ release \in {"pending", "failing"} /\ plan # <<>> /\ ~Lifting
  /\ plan' = Tail(plan)
  /\ CASE Head(plan) = "cursor" -> Send("cursor", "none")
       [] Head(plan) \in heldIds -> Send("lift", Head(plan))
       [] OTHER -> UNCHANGED requests
  /\ UNCHANGED <<answers, pressed, heldIds, heldInputs, release, owned, caller, calls>>

ReleaseSettles ==
  /\ release \in {"pending", "failing"} /\ plan = <<>> /\ ~Lifting
  /\ release' = IF release = "pending" THEN "ok" ELSE "failed"
  /\ UNCHANGED <<requests, answers, pressed, heldIds, heldInputs, plan, owned, caller, calls>>

(* The operation's error wins; without one a failed release is reported.   *)
WithSettles ==
  /\ caller \in {"succeeded", "failed"} /\ release \in {"ok", "failed"}
  /\ caller' = IF caller = "succeeded" /\ release = "ok" THEN "returned" ELSE "rejected"
  /\ UNCHANGED <<requests, answers, pressed, heldIds, heldInputs, release, plan, owned, calls>>

------------------------------------------------------------------------------
(* The agent performs the next request, or answers with an error and leaves *)
(* the desktop as it was.                                                   *)
Perform(ok) ==
  /\ requests # <<>>
  /\ LET r == Head(requests) IN
       /\ requests' = Tail(requests)
       /\ answers' = Append(answers, <<r, ok>>)
       /\ pressed' = IF ~ok THEN pressed
                     ELSE IF r.op = "down" THEN pressed \cup {r.id} ELSE pressed \ {r.id}
  /\ UNCHANGED <<heldIds, heldInputs, release, plan, owned, caller, calls>>

(* The answer resumes the call that waits for it.                          *)
AfterDown(r, ok) ==
  /\ r.op = "down" /\ ok
  /\ heldIds' = heldIds \cup {r.id} /\ heldInputs' = Append(heldInputs, r.id)
  /\ UNCHANGED release
AfterUp(r, ok) ==
  /\ r.op \in {"up", "lift"} /\ ok
  /\ heldIds' = heldIds \ {r.id} /\ removeHeldInput(r.id)
  /\ UNCHANGED release
(* Mutated: a failed lift is forgotten.                                    *)
AfterOtherForgetting(r, ok) ==
  /\ r.op \in {"tap", "move", "cursor"} \/ ~ok
  /\ UNCHANGED <<release, heldIds, heldInputs>>

AfterOther(r, ok) ==
  /\ r.op \in {"tap", "move", "cursor"} \/ ~ok
  /\ release' = IF r.op \in {"lift", "cursor"} /\ ~ok THEN "failing" ELSE release
  /\ UNCHANGED <<heldIds, heldInputs>>
AcceptAnswer ==
  /\ answers # <<>> /\ answers' = Tail(answers)
  /\ LET r == Head(answers)[1]
         ok == Head(answers)[2]
     IN AfterDown(r, ok) \/ AfterUp(r, ok) \/ AfterOther(r, ok)
  /\ UNCHANGED <<requests, pressed, plan, owned, caller, calls>>

InteractionNext ==
  \/ \E id \in Id : Down(id) \/ Up(id) \/ Tap(id)
  \/ MoveOrWheel
  \/ \E result \in {"succeeded", "failed"} : OperationSettles(result)
  \/ \E restoreCursor \in BOOLEAN : ReleaseInteraction(restoreCursor)
  \/ LiftNext \/ ReleaseSettles \/ WithSettles
  \/ \E ok \in BOOLEAN : Perform(ok)
  \/ AcceptAnswer

InteractionSpec == InteractionInit /\ [][InteractionNext]_interactionVars

------------------------------------------------------------------------------
(* A key that is down is known to the session, or the answer to its down is *)
(* on the way, whichever calls overlap or fail; and what the session        *)
(* believes to hold has an entry that a release will lift.                  *)
HeldIsTracked ==
  /\ \A id \in pressed : id \in heldIds \/ Outstanding("down", id)
  /\ heldIds \subseteq Range(heldInputs)

(* A release that succeeded has lifted every input the session held when it *)
(* began, although calls made before were still being answered.             *)
ReleaseLiftsOwned == release = "ok" => pressed \cap owned = {}

(* The calls of a session, in any order and overlapping, leave its record of *)
(* held keys and buttons true, and a release lifts them                     *)
(* (createInteractionSession, releaseOwnedInputs).                          *)
InteractionIsSafe == InteractionTypeOK /\ HeldIsTracked /\ ReleaseLiftsOwned

(* README: interaction.with "releases session-owned input state afterward". *)
(* Once the release has succeeded and nothing is on its way, no key is down.*)
NothingLeftPressed ==
  release = "ok" /\ requests = <<>> /\ answers = <<>> => pressed = {}
=============================================================================
