------------------------------- MODULE EventBus -------------------------------
(***************************************************************************)
(* The event bus: publishers one at a time under publishMu, reliable sinks *)
(* called in between, a ring of recent events and best-effort channels     *)
(* filled under mu; and the browser's event stream built on it, which      *)
(* subscribes first, replays the ring after its cursor, and tells the      *)
(* browser to reload when the ring no longer reaches back that far.        *)
(*                                                                         *)
(* An event is its sequence number.  A channel that is full drops its      *)
(* oldest event, which the code allows; the streams that lost one are      *)
(* remembered, as no promise is made to them.                              *)
(***************************************************************************)
EXTENDS Naturals, Sequences, FiniteSets

CONSTANTS
    Sinks,        \* reliable subscribers
    Streams,      \* browsers
    RingCap,      \* ringCap (500 in the code)
    ReplayMax,    \* limit of RecentAfter in hEvents (256)
    Buffer,       \* capacity of a stream's channel (256)
    MaxEvents     \* bound: events published

VARIABLES
    nextSeq,      \* Bus.nextSeq
    publishing,   \* the event being delivered to the sinks, or 0: publishMu
    todo,         \* the sinks it has still to reach
    ring,         \* Bus.ring
    sink,         \* each reliable sink: "new", "on" or "off"
    heard,        \* the events each sink was called with
    since,        \* history: nextSeq when the sink was registered
    accepted,     \* history: the events every sink had to hear
    stream,       \* each browser's request: [at, cursor, replay, gap]
    chan,         \* its channel, while subscribed
    known,        \* what the browser knows: [all, some, revision]
    lossy         \* history: streams whose channel dropped an event

busVars == <<nextSeq, publishing, todo, ring, sink, heard, since, accepted, stream, chan, known, lossy>>

Off == [at |-> "off", cursor |-> 0, replay |-> <<>>, gap |-> FALSE]

Init ==
    /\ nextSeq = 0 /\ publishing = 0 /\ todo = {} /\ ring = <<>>
    /\ sink = [s \in Sinks |-> "new"] /\ heard = [s \in Sinks |-> <<>>]
    /\ since = [s \in Sinks |-> 0] /\ accepted = {}
    /\ stream = [c \in Streams |-> Off] /\ chan = [c \in Streams |-> <<>>]
    /\ known = [c \in Streams |-> [all |-> 0, some |-> {}, revision |-> 0]]
    /\ lossy = {}

busOnly == <<stream, known>>
streamOnly == <<nextSeq, publishing, todo, ring, sink, heard, since, accepted>>

-----------------------------------------------------------------------------
(* Publish.                                                                *)

\* The event gets its number and goes to the sinks registered now.
PublishBegin ==
    /\ publishing = 0 /\ nextSeq < MaxEvents
    /\ nextSeq' = nextSeq + 1
    /\ publishing' = nextSeq + 1
    /\ todo' = {s \in Sinks : sink[s] = "on"}
    /\ UNCHANGED <<ring, sink, heard, since, accepted, chan, lossy>> /\ UNCHANGED busOnly

\* Too large or not encodable: the number is used up.
PublishRefused ==
    /\ publishing = 0 /\ nextSeq < MaxEvents
    /\ nextSeq' = nextSeq + 1
    /\ UNCHANGED <<publishing, todo, ring, sink, heard, since, accepted, chan, lossy>> /\ UNCHANGED busOnly

Deliver(s) ==
    /\ s \in todo
    /\ heard' = [heard EXCEPT ![s] = Append(@, publishing)]
    /\ todo' = todo \ {s}
    /\ UNCHANGED <<nextSeq, publishing, ring, sink, since, accepted, chan, lossy>> /\ UNCHANGED busOnly

LastOf(q, n) == IF Len(q) > n THEN SubSeq(q, Len(q) - n + 1, Len(q)) ELSE q

Subscribed(c) == stream[c].at # "off"

\* Ring and channels are filled in one critical section of mu.
FanOut ==
    /\ publishing # 0 /\ todo = {}
    /\ ring' = LastOf(Append(ring, publishing), RingCap)
    /\ chan' = [c \in Streams |-> IF Subscribed(c) THEN LastOf(Append(chan[c], publishing), Buffer) ELSE chan[c]]
    /\ lossy' = lossy \cup {c \in Streams : Subscribed(c) /\ Len(chan[c]) = Buffer}
    /\ accepted' = accepted \cup {publishing}
    /\ publishing' = 0
    /\ UNCHANGED <<nextSeq, todo, sink, heard, since>> /\ UNCHANGED busOnly

-----------------------------------------------------------------------------
(* SubscribeReliable and its cancel function both wait for publishMu.      *)

SubscribeReliable(s) ==
    /\ publishing = 0 /\ sink[s] = "new"
    /\ sink' = [sink EXCEPT ![s] = "on"] /\ since' = [since EXCEPT ![s] = nextSeq]
    /\ UNCHANGED <<nextSeq, publishing, todo, ring, heard, accepted, chan, lossy>> /\ UNCHANGED busOnly

\* A mutant: the handler is deleted under mu alone.
CancelReliable_NoWait(s) ==
    /\ sink[s] = "on"
    /\ sink' = [sink EXCEPT ![s] = "off"]
    /\ UNCHANGED <<nextSeq, publishing, todo, ring, heard, since, accepted, chan, lossy>> /\ UNCHANGED busOnly

CancelReliable(s) ==
    /\ publishing = 0 /\ sink[s] = "on"
    /\ sink' = [sink EXCEPT ![s] = "off"]
    /\ UNCHANGED <<nextSeq, publishing, todo, ring, heard, since, accepted, chan, lossy>> /\ UNCHANGED busOnly

-----------------------------------------------------------------------------
(* The browser: hDashboardState gives it a revision, hEvents its events.   *)

\* Sequence waits for publishMu; whatever was published shows in the snapshot.
Bootstrap(c) ==
    /\ ~Subscribed(c) /\ publishing = 0
    /\ known' = [known EXCEPT ![c] = [all |-> nextSeq, some |-> {}, revision |-> nextSeq]]
    /\ lossy' = lossy \ {c}
    /\ UNCHANGED <<stream, chan>> /\ UNCHANGED streamOnly

Subscribe(c) ==
    /\ ~Subscribed(c) /\ known[c].revision > 0
    /\ stream' = [stream EXCEPT ![c] = [Off EXCEPT !.at = "subscribed", !.cursor = known[c].revision]]
    /\ chan' = [chan EXCEPT ![c] = <<>>]
    /\ UNCHANGED <<known, lossy>> /\ UNCHANGED streamOnly

\* What is newer than n: the events are in the order of their numbers.
After(q, n) ==
    LET newer == {i \in DOMAIN q : q[i] > n}
    IN  IF newer = {} THEN <<>>
        ELSE SubSeq(q, CHOOSE i \in newer : \A k \in newer : i <= k, Len(q))

\* A mutant: the cursor next to the ring's oldest event counts as a gap only one later.
Gap_OffByOne(n) == ring # <<>> /\ (n + 2 < ring[1] \/ Len(After(ring, n)) > ReplayMax)

\* RecentAfter: the ring does not reach back to the cursor, or holds too much.
Gap(n) == ring # <<>> /\ (n + 1 < ring[1] \/ Len(After(ring, n)) > ReplayMax)

Replay(c) ==
    /\ stream[c].at = "subscribed"
    /\ stream' = [stream EXCEPT ![c].at = "replay", ![c].gap = Gap(stream[c].cursor),
                                ![c].replay = LastOf(After(ring, stream[c].cursor), ReplayMax)]
    /\ UNCHANGED <<chan, known, lossy>> /\ UNCHANGED streamOnly

\* The browser skips what is not newer than its revision.
Learns(k, e) == IF e <= k.revision THEN k ELSE [k EXCEPT !.some = @ \cup {e}, !.revision = e]

\* The resync event carries the latest number; the browser then reloads its state.
Resync(c) ==
    /\ stream[c].at = "replay" /\ stream[c].gap /\ publishing = 0
    /\ known' = [known EXCEPT ![c] = [all |-> nextSeq, some |-> {},
                                      revision |-> IF nextSeq > @.revision THEN nextSeq ELSE @.revision]]
    /\ stream' = [stream EXCEPT ![c].gap = FALSE]
    /\ UNCHANGED <<chan, lossy>> /\ UNCHANGED streamOnly

SendReplay(c) ==
    /\ stream[c].at = "replay" /\ ~stream[c].gap
    /\ IF stream[c].replay = <<>>
       THEN stream' = [stream EXCEPT ![c].at = "live"] /\ UNCHANGED known
       ELSE /\ known' = [known EXCEPT ![c] = Learns(@, Head(stream[c].replay))]
            /\ stream' = [stream EXCEPT ![c].replay = Tail(@)]
    /\ UNCHANGED <<chan, lossy>> /\ UNCHANGED streamOnly

SendLive(c) ==
    /\ stream[c].at = "live" /\ chan[c] # <<>>
    /\ known' = [known EXCEPT ![c] = Learns(@, Head(chan[c]))]
    /\ chan' = [chan EXCEPT ![c] = Tail(@)]
    /\ UNCHANGED <<stream, lossy>> /\ UNCHANGED streamOnly

\* The connection is lost; EventSource comes back with the last id it saw.
Disconnect(c) ==
    /\ Subscribed(c)
    /\ stream' = [stream EXCEPT ![c] = Off] /\ chan' = [chan EXCEPT ![c] = <<>>]
    /\ UNCHANGED <<known, lossy>> /\ UNCHANGED streamOnly

Next ==
    \/ PublishBegin \/ PublishRefused \/ FanOut
    \/ \E s \in Sinks : Deliver(s) \/ SubscribeReliable(s) \/ CancelReliable(s)
    \/ \E c \in Streams :
          \/ Bootstrap(c) \/ Subscribe(c) \/ Replay(c) \/ Resync(c)
          \/ SendReplay(c) \/ SendLive(c) \/ Disconnect(c)

Spec == Init /\ [][Next]_busVars

-----------------------------------------------------------------------------
(* What must hold.                                                         *)

\* A reliable sink hears every accepted event published while it was
\* registered, once and in order, and none once its cancel function returned.
SinksHearAll ==
    \A s \in Sinks :
        /\ \A i \in 1..Len(heard[s]) - 1 : heard[s][i] < heard[s][i + 1]
        /\ s \in todo => sink[s] = "on"
        /\ sink[s] = "on" => {e \in accepted : e > since[s]} \subseteq {heard[s][i] : i \in DOMAIN heard[s]}

\* A browser that has received what its stream holds knows of every accepted
\* event: it was in the state it loaded, replayed, or sent live, whenever it
\* subscribed and however often it reconnected, unless its channel overflowed.
StreamMissesNothing ==
    \A c \in Streams :
        stream[c].at = "live" /\ chan[c] = <<>> /\ c \notin lossy =>
            \A e \in accepted : e <= known[c].all \/ e \in known[c].some
===============================================================================
