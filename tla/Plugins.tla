------------------------------- MODULE Plugins -------------------------------
(***************************************************************************)
(* Plugin executables: loading them when the daemon starts, and calling    *)
(* their tools for agents, while the files on disk are being replaced.     *)
(* A version stands for what a file is and holds: its identity and its     *)
(* digest.  Whoever replaces the file may put any version at the path, the *)
(* one that was there before too (a rename away and back).                 *)
(***************************************************************************)
EXTENDS Naturals, FiniteSets

CONSTANTS
    Plugs,      \* names of plugins
    NoPlug,
    PlugCalls,  \* concurrent requests
    CallSlots,  \* capacity of Manager.callSlots (8 in the code)
    MaxBuilds   \* bound: versions of one file

ASSUME PluginsAssumption == NoPlug \notin Plugs /\ CallSlots \in Nat \ {0} /\ MaxBuilds \in Nat \ {0}

NotPinned == 0

VARIABLES
    installed,   \* per plugin: the version at its path
    loader,      \* Load: the plugin it is at, and what it saw of it
    loaded,      \* Manager.plugins: the pinned version, or NotPinned
    describedBy, \* history: the version whose describe output is offered
    serving,     \* New has returned: requests come in
    sink,        \* the durable sink is installed
    trail,       \* history: the calls whose start is on record
    invocation,  \* per request: pc, plugin, and the version that ran
    putBack      \* history: the loads (of a plugin) and the calls during which the
                 \* pinned version came back to its path

plugVars == <<installed, loader, loaded, describedBy, serving, sink, trail, invocation, putBack>>

Quiet  == [pc |-> "idle", plug |-> NoPlug, ran |-> NotPinned]
AtRest == [pc |-> "idle", plug |-> NoPlug, pinned |-> NotPinned, ran |-> NotPinned]

PlugInit ==
    /\ installed = [p \in Plugs |-> 1]
    /\ loader = AtRest /\ serving = FALSE
    /\ loaded = [p \in Plugs |-> NotPinned] /\ describedBy = [p \in Plugs |-> NotPinned]
    /\ sink = FALSE /\ trail = {}
    /\ invocation = [c \in PlugCalls |-> Quiet]
    /\ putBack = [loads |-> {}, calls |-> {}]

\* Between the first look at the file and the last.
LoadWindow(p) == loader.pc \in {"pinned", "described"} /\ loader.plug = p
CallWindow(c, p) == invocation[c].pc \in {"checked", "ran"} /\ invocation[c].plug = p

\* Somebody installs another version over the path, edits the file, or puts back
\* what was there.
Replace(p, v) ==
    /\ v # installed[p]
    /\ installed' = [installed EXCEPT ![p] = v]
    /\ putBack' =
         [loads |-> putBack.loads \cup {q \in {p} : LoadWindow(q) /\ loader.pinned = v},
          calls |-> putBack.calls \cup {c \in PlugCalls : CallWindow(c, p) /\ loaded[p] = v}]
    /\ UNCHANGED <<loader, loaded, describedBy, serving, sink, trail, invocation>>

-----------------------------------------------------------------------------
(* Manager.Load, one directory entry at a time.                            *)

\* pinPluginFile and the first digest: the file is open from here on.
Pin(p) ==
    /\ ~serving /\ loader.pc = "idle" /\ loaded[p] = NotPinned
    /\ loader' = [AtRest EXCEPT !.pc = "pinned", !.plug = p, !.pinned = installed[p]]
    /\ putBack' = [putBack EXCEPT !.loads = @ \ {p}]
    /\ UNCHANGED <<installed, loaded, describedBy, serving, sink, trail, invocation>>

\* The describe process runs whatever is at the path.
Describe ==
    /\ loader.pc = "pinned"
    /\ loader' = [loader EXCEPT !.pc = "described", !.ran = installed[loader.plug]]
    /\ UNCHANGED <<installed, loaded, describedBy, serving, sink, trail, invocation, putBack>>

\* It failed, timed out, or described nothing usable: the entry is skipped.
DescribeFails ==
    /\ loader.pc \in {"pinned", "described"}
    /\ loader' = AtRest
    /\ UNCHANGED <<installed, loaded, describedBy, serving, sink, trail, invocation, putBack>>

\* Kept only if the path still holds the pinned file.
Keep ==
    /\ loader.pc = "described"
    /\ loader' = AtRest
    /\ IF installed[loader.plug] = loader.pinned
       THEN /\ loaded' = [loaded EXCEPT ![loader.plug] = loader.pinned]
            /\ describedBy' = [describedBy EXCEPT ![loader.plug] = loader.ran]
       ELSE UNCHANGED <<loaded, describedBy>>
    /\ UNCHANGED <<installed, serving, sink, trail, invocation, putBack>>

\* The daemon installs its durable sink and serves.
Serve ==
    /\ ~serving /\ loader.pc = "idle"
    /\ serving' = TRUE /\ sink' = TRUE
    /\ UNCHANGED <<installed, loader, loaded, describedBy, trail, invocation, putBack>>

\* shutdownServices takes the sink away; calls in flight are not waited for.
SinkGone ==
    /\ sink /\ sink' = FALSE
    /\ UNCHANGED <<installed, loader, loaded, describedBy, serving, trail, invocation, putBack>>

-----------------------------------------------------------------------------
(* hPluginCall and Manager.Call.                                           *)

Reply(c) == invocation' = [invocation EXCEPT ![c] = Quiet]

\* The policy allowed the call (a denial, and the need of a human, end it) and
\* its start was published: on record if there is a sink, else merely published.
RecordCall(c, p) ==
    /\ serving /\ invocation[c].pc = "idle"
    /\ invocation' = [invocation EXCEPT ![c] = [pc |-> "recorded", plug |-> p, ran |-> NotPinned]]
    /\ trail' = IF sink THEN trail \cup {c} ELSE trail \ {c}
    /\ UNCHANGED <<installed, loader, loaded, describedBy, serving, sink, putBack>>

Running == {c \in PlugCalls : invocation[c].pc \in {"slot", "checked", "ran"}}

\* Under the read lock: the plugin must be loaded, a slot must be free.
TakeSlot(c) ==
    /\ invocation[c].pc = "recorded"
    /\ IF loaded[invocation[c].plug] # NotPinned /\ Cardinality(Running) < CallSlots
       THEN invocation' = [invocation EXCEPT ![c].pc = "slot"]
       ELSE Reply(c)
    /\ UNCHANGED <<installed, loader, loaded, describedBy, serving, sink, trail, putBack>>

Unchanged(c) == installed[invocation[c].plug] = loaded[invocation[c].plug]

\* safePluginFile and pluginDigest before the process starts.
CheckBefore(c) ==
    /\ invocation[c].pc = "slot"
    /\ IF Unchanged(c) THEN invocation' = [invocation EXCEPT ![c].pc = "checked"] ELSE Reply(c)
    /\ putBack' = [putBack EXCEPT !.calls = @ \ {c}]
    /\ UNCHANGED <<installed, loader, loaded, describedBy, serving, sink, trail>>

\* run: by path, so it is the version of that moment.
Run(c) ==
    /\ invocation[c].pc = "checked"
    /\ invocation' = [invocation EXCEPT ![c].pc = "ran", ![c].ran = installed[invocation[c].plug]]
    /\ UNCHANGED <<installed, loader, loaded, describedBy, serving, sink, trail, putBack>>

\* Mutant: what was checked before is not checked again.
CheckAfter_Trusts(c) ==
    /\ invocation[c].pc = "ran"
    /\ invocation' = [invocation EXCEPT ![c].pc = "ok"]
    /\ UNCHANGED <<installed, loader, loaded, describedBy, serving, sink, trail, putBack>>

\* The same checks after it ended; only then is its output an answer.
CheckAfter(c) ==
    /\ invocation[c].pc = "ran"
    /\ IF Unchanged(c) THEN invocation' = [invocation EXCEPT ![c].pc = "ok"] ELSE Reply(c)
    /\ UNCHANGED <<installed, loader, loaded, describedBy, serving, sink, trail, putBack>>

\* plugin.finished is published, the result goes to the agent.
Finish(c) ==
    /\ invocation[c].pc = "ok"
    /\ Reply(c)
    /\ UNCHANGED <<installed, loader, loaded, describedBy, serving, sink, trail, putBack>>

\* The process failed, was killed at its timeout, or printed too much.
RunFails(c) ==
    /\ invocation[c].pc \in {"checked", "ran"}
    /\ Reply(c)
    /\ UNCHANGED <<installed, loader, loaded, describedBy, serving, sink, trail, putBack>>

PlugNext ==
    \/ \E p \in Plugs : Pin(p) \/ \E v \in 1..MaxBuilds : Replace(p, v)
    \/ Describe \/ DescribeFails \/ Keep \/ Serve \/ SinkGone
    \/ \E c \in PlugCalls :
          \/ \E p \in Plugs : RecordCall(c, p)
          \/ TakeSlot(c) \/ CheckBefore(c) \/ Run(c) \/ CheckAfter(c) \/ Finish(c) \/ RunFails(c)

PlugSpec == PlugInit /\ [][PlugNext]_plugVars

-----------------------------------------------------------------------------
(* Properties.                                                             *)

\* Every tool on offer was described by the executable that is pinned, and
\* every answer an agent gets was computed by it, however often the file is
\* replaced between the checks and the processes they guard (Manager.Load,
\* Manager.Call).  What compares a file at two moments cannot see that another one
\* was at the path in between: only loads and calls during which the pinned file
\* was not put back are spoken of.
AnswerIsPinned ==
    /\ \A p \in Plugs \ putBack.loads : loaded[p] # NotPinned => describedBy[p] = loaded[p]
    /\ \A c \in PlugCalls \ putBack.calls :
          invocation[c].pc = "ok" => invocation[c].ran = loaded[invocation[c].plug]

\* No process runs for an agent without the record of its start.  A call that
\* is still being admitted when shutdownServices removes the sink runs without.
CallsAreRecorded == \A c \in PlugCalls : invocation[c].pc = "ran" => c \in trail
=============================================================================
