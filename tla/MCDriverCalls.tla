---------------------------- MODULE MCDriverCalls -----------------------------
(***************************************************************************)
(* Small instances of the driver's calls for TLC: each behaviour runs one  *)
(* of the components, chosen at the start; the others rest in a first      *)
(* state.                                                                  *)
(***************************************************************************)
EXTENDS WaitRetry, InteractionSession, ClipboardText, ManagedProcess, WindowProbe,
        DirectorySync, FrameTransfer

\* A directory with one file, and another file with two spellings of its name.
Paths == {<<"d">>, <<"d", "e">>, <<"f">>, <<"F">>}
Canons == [p \in Paths |-> IF p = <<"F">> THEN <<"f">> ELSE p]

\* What the patterns of options.include and options.exclude match.
Named == {"dir", "file"}
Anything == Paths \X {"dir", "file", "temporary"}
Include(matched) == [include |-> matched, exclude |-> {}]
Exclude(matched) == [include |-> Anything, exclude |-> matched]
FilterSets == {
  Include(Anything),
  Exclude({<<"d", "e">>} \X Named),               \* "d/e"
  Exclude({<<"d", "e">>} \X {"dir", "file", "temporary"}), \* "d/**"
  Exclude({<<"d">>} \X Named),                    \* "d"
  Exclude({<<<<"d">>, "dir">>}),                  \* "d/"
  Exclude({<<"f">>} \X Named),                    \* "f"
  Exclude(Paths \X {"temporary"}),                \* "**/*.tmp"
  Include({<<"d", "e">>, <<"f">>} \X Named),      \* "d/e", "f"
  Include({<<<<"d">>, "dir">>}),                  \* "d/"
  Include({<<"d", "e">>} \X {"dir", "file", "temporary"}), \* "d/**"
  [include |-> {<<"d">>} \X Named, exclude |-> {<<"d", "e">>} \X {"temporary"}] }

\* A payload of two chunks and an empty one.
Payloads == [a |-> <<1, 2, 3>>, b |-> <<>>]

VARIABLE part  \* the component that runs

-----------------------------------------------------------------------------
MCInit ==
  /\ part \in {"interaction", "clipboard", "managed", "probe", "sync", "frames", "wait"}
  /\ Init /\ InteractionInit /\ ClipboardInit /\ ManagedInit /\ ProbeInit
  /\ part = "managed" \/ (native /\ killTree /\ directory = "none")
  /\ part = "probe" \/ (kind = "closed" /\ ~child /\ window = "shown" /\ place = 1)
  /\ \/ part = "sync" /\ temporaries \in SUBSET {<<<<"d", "e">>, 0>>}
     \/ /\ part # "sync" /\ temporaries = {} /\ deleteExtraneous = FALSE
        /\ localTree = [p \in Path |-> "none"] /\ remoteTree = localTree
        /\ filter = Include(Anything)
  /\ SyncInit
  /\ FrameInit

MCNext ==
  /\ UNCHANGED part
  /\ IF part = "wait" THEN Next ELSE UNCHANGED vars
  /\ IF part = "interaction" THEN InteractionNext ELSE UNCHANGED interactionVars
  /\ IF part = "clipboard" THEN ClipboardNext ELSE UNCHANGED clipboardVars
  /\ IF part = "managed" THEN ManagedNext ELSE UNCHANGED managedVars
  /\ IF part = "probe" THEN ProbeNext ELSE UNCHANGED probeVars
  /\ IF part = "sync" THEN SyncNext ELSE UNCHANGED syncVars
  /\ IF part = "frames" THEN FrameNext ELSE UNCHANGED frameVars

MCvars == <<part, vars, interactionVars, clipboardVars, managedVars, probeVars, syncVars,
             frameVars>>
MCSpec == MCInit /\ [][MCNext]_MCvars
=============================================================================
