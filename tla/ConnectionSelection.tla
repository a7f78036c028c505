------------------------ MODULE ConnectionSelection ------------------------
(***************************************************************************)
(* From connection options to a session: options and .agent-rover files    *)
(* are resolved to one endpoint or to the candidates of one section        *)
(* (driver/configuration.ts, resolveConnectionTarget), and the candidates  *)
(* are tried in shuffled rounds, or the endpoint alone while it is busy    *)
(* (driver/selection.ts).  An attempt, connectRemoteAgentOnce, is          *)
(* DriverConnection's and ends here with any of its outcomes.              *)
(***************************************************************************)
EXTENDS Integers, Sequences, FiniteSets, SequencesExt, FiniteSetsExt

CONSTANTS Endpoint,    \* host:port identities
          Name,        \* section names
          MaxLines,    \* bound: lines of a configuration file
          MaxRetries   \* rounds, or busy retries, after the first

ASSUME EndpointAssumption == Endpoint # {}
ASSUME RetriesAssumption == MaxRetries \in Nat
ASSUME LinesAssumption == MaxLines \in Nat

Retryable == {"AGENT_BUSY", "CONNECTION_FAILED", "AUTHENTICATION_FAILED", "HANDSHAKE_FAILED",
              "DISCONNECTED", "PROTOCOL_ERROR"}
Refusals == {"AGENT_BUSY", "CONNECTION_FAILED", "TIMEOUT"}  \* outcomes the runs tell apart

\* A line that is neither blank nor a comment: a section, an endpoint, or neither.
Line == [kind : {"section"}, name : Name] \cup [kind : {"endpoint"}, endpoint : Endpoint]
        \cup {[kind |-> "invalid"]}
File == [found : {"text"}, lines : SeqOf(Line, MaxLines)]
        \cup [found : {"missing", "unreadable"}, lines : {<<>>}]

VARIABLES
  explicit,        \* an endpoint was given
  configurations,  \* the configuration files, in priority order
  section,         \* the section asked for
  selectionPhase,  \* "resolving", "trying", "delay", "connected" or "failed"
  candidates,      \* the endpoints of the target, in order
  round,           \* rounds completed
  untried,         \* candidates not tried in this round
  failures,        \* their codes in this round, in order
  tried,           \* Endpoint -> attempts made
  error            \* the code it failed with

selectionVars == <<explicit, configurations, section, selectionPhase, candidates, round,
  untried, failures, tried, error>>

SelectionInit ==
  /\ explicit \in BOOLEAN /\ section \in Name
  /\ configurations \in (IF explicit THEN {<<>>} ELSE [1..2 -> File])
  /\ selectionPhase = "resolving" /\ candidates = <<>> /\ round = 0
  /\ untried = {} /\ failures = <<>> /\ tried = [e \in Endpoint |-> 0] /\ error = "none"

-----------------------------------------------------------------------------
\* parseConnectionConfiguration: the sections of a file, or that it is not valid.
NoSection ==
  [valid |-> TRUE, current |-> "none", names |-> {}, sections |-> [name \in Name |-> <<>>]]

ParseLine(state, line) ==
  CASE line.kind = "section" ->
         [state EXCEPT !.valid = @ /\ line.name \notin state.names,
                       !.current = line.name, !.names = @ \cup {line.name}]
    [] line.kind = "endpoint" /\ state.names # {} ->
         [state EXCEPT !.sections[state.current] = Append(@, line.endpoint),
                       !.valid = @ /\ line.endpoint \notin ToSet(state.sections[state.current])]
    [] OTHER -> [state EXCEPT !.valid = FALSE]

parseConfiguration(lines) ==
  LET parsed[n \in 0..Len(lines)] ==
        IF n = 0 THEN NoSection ELSE ParseLine(parsed[n - 1], lines[n])
  IN parsed[Len(lines)]

\* readConnectionSection: the first file that has the section; a missing file or section
\* goes on to the next file, anything else that is wrong ends the search.
Decisive ==
  {n \in DOMAIN configurations :
     LET parsed == parseConfiguration(configurations[n].lines) IN
     \/ configurations[n].found = "unreadable"
     \/ ~parsed.valid
     \/ section \in parsed.names}

readConnectionSection ==
  IF Decisive = {} THEN <<>>
  ELSE LET file == configurations[Min(Decisive)]
           parsed == parseConfiguration(file.lines)
       IN IF file.found = "unreadable" \/ ~parsed.valid THEN <<>>
          ELSE parsed.sections[section]

Fail(code) == selectionPhase' = "failed" /\ error' = code

Resolve ==
  LET found == IF explicit THEN <<CHOOSE e \in Endpoint : TRUE>>
               ELSE readConnectionSection
  IN /\ selectionPhase = "resolving"
     /\ candidates' = found /\ untried' = ToSet(found)
     /\ IF found = <<>> THEN Fail("INVALID_ARGUMENT")
        ELSE selectionPhase' = "trying" /\ UNCHANGED error
     /\ UNCHANGED <<explicit, configurations, section, round, failures, tried>>

-----------------------------------------------------------------------------
\* One attempt at any candidate left: the shuffle makes every order possible.
Attempt(e) ==
  /\ selectionPhase = "trying" /\ e \in untried
  /\ tried' = [tried EXCEPT ![e] = @ + 1]

Connected(e) ==
  /\ Attempt(e) /\ selectionPhase' = "connected"
  /\ UNCHANGED <<explicit, configurations, section, candidates, round, untried, failures, error>>

\* A failure that another candidate, or another round, may not have.
Refused(e, code) ==
  /\ Attempt(e)
  /\ code \in (IF explicit THEN {"AGENT_BUSY"} ELSE Retryable)
  /\ untried' = untried \ {e} /\ failures' = Append(failures, code)
  /\ UNCHANGED <<explicit, configurations, section, selectionPhase, candidates, round, error>>

Broken(e, code) ==
  /\ Attempt(e)
  /\ code \notin (IF explicit THEN {"AGENT_BUSY"} ELSE Retryable)
  /\ Fail(code)
  /\ UNCHANGED <<explicit, configurations, section, candidates, round, untried, failures>>

\* Mutated: a round too many is tried.
EndRoundLate ==
  /\ selectionPhase = "trying" /\ untried = {}
  /\ IF round > MaxRetries THEN Fail(failures[1]) ELSE selectionPhase' = "delay" /\ UNCHANGED error
  /\ UNCHANGED <<explicit, configurations, section, candidates, round, untried, failures, tried>>

\* The round is over: wait, or give up with the code all failures share.
EndRound ==
  /\ selectionPhase = "trying" /\ untried = {}
  /\ IF round >= MaxRetries
     THEN Fail(IF \A n \in DOMAIN failures : failures[n] = failures[1]
               THEN failures[1] ELSE "CONNECTION_FAILED")
     ELSE selectionPhase' = "delay" /\ UNCHANGED error
  /\ UNCHANGED <<explicit, configurations, section, candidates, round, untried, failures, tried>>

DelayEnds ==
  /\ selectionPhase = "delay" /\ selectionPhase' = "trying"
  /\ round' = round + 1 /\ untried' = ToSet(candidates) /\ failures' = <<>>
  /\ UNCHANGED <<explicit, configurations, section, candidates, tried, error>>

SelectionNext ==
  \/ Resolve
  \/ \E e \in Endpoint :
       \/ Connected(e)
       \/ \E code \in Refusals : Refused(e, code) \/ Broken(e, code)
  \/ EndRound
  \/ DelayEnds

SelectionSpec == SelectionInit /\ [][SelectionNext]_selectionVars

-----------------------------------------------------------------------------
\* The lines of a file that belong to a section.
Own(file, name) ==
  {n \in DOMAIN file.lines : \E m \in 1..(n - 1) :
     /\ file.lines[m] = [kind |-> "section", name |-> name]
     /\ \A k \in (m + 1)..n : file.lines[k].kind = "endpoint"}
Names(file, name) ==
  \E n \in DOMAIN file.lines : file.lines[n] = [kind |-> "section", name |-> name]

\* The candidates are exactly the endpoints one file lists under the section, and no
\* file before it has the section or is broken: files are never merged
\* (loadConnectionSection).
CandidatesAreOneSection ==
  ~explicit /\ candidates # <<>> =>
    \E n \in DOMAIN configurations :
      /\ Names(configurations[n], section)
      /\ ToSet(candidates) = {configurations[n].lines[k].endpoint : k \in Own(configurations[n], section)}
      /\ Len(candidates) = Cardinality(Own(configurations[n], section))
      /\ \A m \in 1..(n - 1) : configurations[m].found # "unreadable" /\ ~Names(configurations[m], section)

\* No candidate is left out: at every moment each one was tried once per completed
\* round and at most once in this one, and the selection gives up on retryable
\* failures only after MaxRetries more rounds over all of them, with a code that some
\* attempt of the last round had unless the codes differ (selectConnection,
\* selectExplicitConnection).
EveryCandidateIsTried ==
  /\ \A n \in DOMAIN candidates : tried[candidates[n]] - round \in 0..1
  /\ selectionPhase = "failed" /\ candidates # <<>> /\ (explicit => error = "AGENT_BUSY")
     /\ error \in Retryable =>
       /\ \A n \in DOMAIN candidates : tried[candidates[n]] = MaxRetries + 1
       /\ error \in ToSet(failures) \/ Cardinality(ToSet(failures)) > 1

\* The candidates come from the first file that has the section, and every one of them
\* is tried in every round before the selection gives up (selectConnection).
SelectionIsComplete == CandidatesAreOneSection /\ EveryCandidateIsTried
=============================================================================
