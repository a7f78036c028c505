---------------------------- MODULE RestartPolicy ----------------------------
(***************************************************************************)
(* When the monitor starts its host, and when it gives a host up for       *)
(* stuck: ReserveSupervisorStart (supervisor_limits.h), Supervise and      *)
(* WatchProgress (supervisor.cpp).  RecoveryRegistry has what happens to   *)
(* the workers between two hosts; this module has the clocks.  A timer may *)
(* fire late, and races the pulse and the exit it was set against.  The    *)
(* names carry no instance so that a module may extend this one and others.*)
(***************************************************************************)
EXTENDS Integers, Sequences

CONSTANTS
  Window,        \* 60000 ms of ReserveSupervisorStart
  MaxStarts,     \* starts in a window
  Startup,       \* allowance of a new host
  Allowance,     \* allowance after a pulse
  RestartDelay,  \* delay before a replacement
  MaxTime        \* bound on the clock

ASSUME PolicyAssumption ==
  /\ Window \in Nat \ {0} /\ MaxStarts \in Nat \ {0} /\ MaxTime \in Nat
  /\ Startup \in Nat /\ Allowance \in Nat /\ Allowance <= Startup /\ RestartDelay \in Nat

VARIABLES
  now,        \* the steady clock
  starts,     \* the start times ReserveSupervisorStart keeps
  monitor,    \* "reserving", "delayed", "configuring", "watching", "stopping" or "ended"
  deadline,   \* when the delay, or the allowance of the watched host, is over
  expired,    \* watch->expired
  pulse,      \* the auto-reset event
  hosted,     \* a host process exists
  pulsed,     \* the host has set the event itself (history)
  started     \* the times of all starts (history)

supervision == <<now, starts, monitor, deadline, expired, pulse, hosted, pulsed, started>>

SupervisionInit ==
  /\ now = 0 /\ starts = <<>> /\ monitor = "reserving" /\ deadline = 0 /\ expired = FALSE
  /\ pulse = FALSE /\ hosted = FALSE /\ pulsed = FALSE /\ started = <<>>

Tick ==
  /\ now < MaxTime /\ now' = now + 1
  /\ UNCHANGED <<starts, monitor, deadline, expired, pulse, hosted, pulsed, started>>

-----------------------------------------------------------------------------
(* Mutated: a start leaves the window one tick late.                       *)
PrunedLate(k) ==
  /\ \A i \in 1..k : now - starts[i] > Window
  /\ k < Len(starts) => now - starts[k + 1] <= Window

(* The first k start times have left the window, the next one has not.     *)
Pruned(k) ==
  /\ \A i \in 1..k : now - starts[i] >= Window
  /\ k < Len(starts) => now - starts[k + 1] < Window

(* A start is reserved when the delay is 0.  The steady clock does not go  *)
(* back, so that the code's other delay, a whole window, is never returned.*)
Reserve(kept) ==
  IF Len(kept) >= MaxStarts
  THEN [starts |-> kept, delay |-> Window - (now - kept[1])]
  ELSE [starts |-> Append(kept, now), delay |-> 0]

(* The event is reset before the new host has a handle to it; the start    *)
(* may fail.                                                               *)
StartHost ==
  /\ pulse' = FALSE /\ pulsed' = FALSE /\ expired' = FALSE
  /\ started' = Append(started, now) /\ UNCHANGED deadline
  /\ \/ hosted' = TRUE /\ monitor' = "configuring"
     \/ hosted' = FALSE /\ monitor' = "stopping"

Backoff(delay) ==
  /\ monitor' = "delayed" /\ deadline' = now + delay
  /\ UNCHANGED <<expired, pulse, hosted, pulsed, started>>

ReserveSupervisorStart(k) ==
  LET reserved == Reserve(SubSeq(starts, k + 1, Len(starts))) IN
  /\ monitor = "reserving" /\ Pruned(k)
  /\ starts' = reserved.starts
  /\ IF reserved.delay = 0 THEN StartHost ELSE Backoff(reserved.delay)
  /\ UNCHANGED now

DelayEnds ==
  /\ monitor = "delayed" /\ now >= deadline /\ monitor' = "reserving"
  /\ UNCHANGED <<now, starts, deadline, expired, pulse, hosted, pulsed, started>>

-----------------------------------------------------------------------------
(* WriteWorker(HostConfiguration) ends, and the watch begins; it may fail. *)
ConfigureHost ==
  /\ monitor = "configuring"
  /\ monitor' = "watching" /\ deadline' = now + Startup
  /\ UNCHANGED <<now, starts, expired, pulse, hosted, pulsed, started>>

ConfigurationFails ==
  /\ monitor = "configuring" /\ monitor' = "stopping"
  /\ UNCHANGED <<now, starts, deadline, expired, pulse, hosted, pulsed, started>>

(* A host whose configuration has arrived pulses until its stop is confirmed.*)
PulseSupervisor ==
  /\ hosted
  /\ pulse' = TRUE /\ pulsed' = TRUE
  /\ UNCHANGED <<now, starts, monitor, deadline, expired, hosted, started>>

HostExits ==
  /\ hosted /\ hosted' = FALSE
  /\ UNCHANGED <<now, starts, monitor, deadline, expired, pulse, pulsed, started>>

SeePulse ==
  /\ monitor = "watching" /\ pulse
  /\ pulse' = FALSE /\ deadline' = now + Allowance
  /\ UNCHANGED <<now, starts, monitor, expired, hosted, pulsed, started>>

(* The deadline wins, even over a pulse or an exit of the same moment.     *)
AllowanceEnds ==
  /\ monitor = "watching" /\ now >= deadline
  /\ monitor' = "stopping" /\ expired' = TRUE
  /\ UNCHANGED <<now, starts, deadline, pulse, hosted, pulsed, started>>

SeeExit ==
  /\ monitor = "watching" /\ ~hosted /\ monitor' = "stopping"
  /\ UNCHANGED <<now, starts, deadline, expired, pulse, hosted, pulsed, started>>

(* The stop is confirmed: the end, after exit code 0 or a chosen Exit, or a *)
(* replacement after a delay.                                              *)
HostStopped ==
  /\ monitor = "stopping" /\ hosted' = FALSE
  /\ \/ monitor' = "ended" /\ UNCHANGED deadline
     \/ monitor' = "delayed" /\ deadline' = now + RestartDelay
  /\ UNCHANGED <<now, starts, expired, pulse, pulsed, started>>

SupervisionNext ==
  \/ Tick
  \/ \E k \in 0..MaxStarts : k <= Len(starts) /\ ReserveSupervisorStart(k)
  \/ DelayEnds
  \/ ConfigureHost \/ ConfigurationFails
  \/ PulseSupervisor \/ HostExits
  \/ SeePulse \/ AllowanceEnds \/ SeeExit
  \/ HostStopped

SupervisionSpec == SupervisionInit /\ [][SupervisionNext]_supervision

-----------------------------------------------------------------------------
(* Every start counts: no more than MaxStarts of them lie within a window, *)
(* whenever hosts fail and however late the timers are (Supervise).        *)
StartsAreLimited ==
  \A n \in DOMAIN started :
    n > MaxStarts => started[n] - started[n - MaxStarts] >= Window

(* A host is given up for stuck only after its allowance: a new host that  *)
(* has not pulsed yet has the longer one, whatever pulse its predecessor   *)
(* left behind (WatchProgress).                                            *)
StuckIsDeserved ==
  expired => now - started[Len(started)] >= IF pulsed THEN Allowance ELSE Startup

(* Replacements are paced, and a new host is not judged by another's pulse. *)
RestartsArePaced == StartsAreLimited /\ StuckIsDeserved
=============================================================================
