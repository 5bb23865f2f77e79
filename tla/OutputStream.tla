---------------------------- MODULE OutputStream ----------------------------
(***************************************************************************)
(* What a command prints, on its way to those who follow it: the ring of   *)
(* the job's own buffer and of its session's, the operator's live streams  *)
(* over both, and the agent that polls the job by its id.                  *)
(*                                                                         *)
(* A byte is named by its offset in the command's output; `text` says      *)
(* which of them begin a rune, and of how many bytes.  Buffers hold names, *)
(* so a page tells which bytes it carries.  The caps are positive.         *)
(***************************************************************************)
EXTENDS Integers, Sequences, FiniteSets, SequencesExt, FiniteSetsExt

CONSTANTS
    Cap,          \* max retained bytes of a buffer
    MinCapacity,  \* first allocation of a ring (4096 in the code)
    PageLimit,    \* maxOutputBytes, at least RuneMax
    Widths,       \* lengths a rune may have; the longest is utf8.UTFMax
    MaxBytes      \* bound: bytes the command prints

ASSUME OutputAssumption ==
    /\ {Cap, MinCapacity, PageLimit, MaxBytes} \subseteq Nat \ {0}
    /\ Widths \subseteq 1..PageLimit /\ Widths \subseteq 1..Cap /\ Widths # {}

Bufs == {"job", "session"}

VARIABLES
    text,       \* text[o+1]: length of the rune that begins at byte o, 0 inside one
    printed,    \* bytes the reader goroutine has fed to the cleaners
    buf,        \* the two Buffers: data, start, size, discarded, closed
    over,       \* over["job"]: the status is terminal; over["session"]: Session.closed
    listed,     \* the manager's registry still knows the job
    held,       \* Job.holdOutput
    who,        \* who follows the output: the stream of a buffer, or the agent; readers
                \* share nothing but the buffers, so a behaviour has one
    follower    \* the follower: cursor, bytes got, gap seen, done, pc

outVars == <<text, printed, buf, over, listed, held, who, follower>>

\* Well-formed UTF-8, possibly cut at its end.
Texts == {t \in [1..MaxBytes -> Widths \cup {0}] :
            \A i \in 1..MaxBytes : t[i] = 0 <=> \E j \in 1..(i - 1) : t[j] > i - j}

Continuation(byte) == text[byte + 1] = 0

NewBuffer == [data |-> <<>>, start |-> 0, size |-> 0, discarded |-> 0, closed |-> FALSE]
NewReader == [cursor |-> 0, got |-> <<>>, gap |-> FALSE, done |-> FALSE, pc |-> "idle"]

OutputInit ==
    /\ text \in Texts /\ printed = 0
    /\ buf = [b \in Bufs |-> NewBuffer]
    /\ over = [b \in Bufs |-> FALSE]
    /\ listed = TRUE /\ held = FALSE
    /\ who \in Bufs \cup {"agent"} /\ follower = NewReader

-----------------------------------------------------------------------------
(* The ring.                                                               *)

Total(f) == f.discarded + f.size

\* Slot of the i-th retained byte (slots count from 0, sequences from 1).
Slot(f, i) == 1 + ((f.start + i) % Len(f.data))
ByteAt(f, i) == f.data[Slot(f, i)]

\* copyLocked: n bytes from the i-th retained one on.
Copied(f, i, n) == [k \in 1..n |-> ByteAt(f, i + k - 1)]

\* ensureCapacityLocked: doubles the ring, never past the cap, oldest byte first.
Grown(f, needed) ==
    IF Len(f.data) >= needed THEN f
    ELSE LET capacity == Min({Cap, Max({2 * Len(f.data), MinCapacity, needed})})
             kept == Copied(f, 0, f.size)
         IN  [f EXCEPT !.start = 0,
                       !.data = [k \in 1..capacity |-> IF k <= f.size THEN kept[k] ELSE -1]]

Dropped(f, n) ==
    IF n = 0 THEN f ELSE
    [f EXCEPT !.start = (@ + n) % Len(f.data), !.size = @ - n, !.discarded = @ + n]

\* trimLeadingContinuationLocked: retention never begins inside a rune.
Trimmed(f) ==
    LET lead == {i \in 0..(f.size - 1) : ~Continuation(ByteAt(f, i))}
    IN  Dropped(f, IF lead = {} THEN f.size ELSE Min(lead))

\* The bytes of p behind the retained ones, around the ring.
Appended(f, p) ==
    [f EXCEPT !.size = @ + Len(p),
              !.data = [s \in DOMAIN f.data |->
                          LET k == (s - 1 - f.start - f.size) % Len(f.data)
                          IN  IF k < Len(p) THEN p[k + 1] ELSE f.data[s]]]

\* The last bytes of p, a cap of them, instead of the retained ones.
Replaced(f, p) ==
    [f EXCEPT !.data = [k \in DOMAIN f.data |->
                          IF k <= Cap THEN p[Len(p) - Cap + k] ELSE f.data[k]],
              !.start = 0, !.size = Cap, !.discarded = Total(f) + Len(p) - Cap]

\* Buffer.Write.  A write of the cap or more replaces the ring by its tail.
BufferWith(f, p) ==
    IF p = <<>> THEN f
    ELSE IF Len(p) >= Cap THEN Trimmed(Replaced(Grown(f, Cap), p))
    ELSE LET g == Grown(f, Min({Cap, f.size + Len(p)}))
             drop == f.size + Len(p) - Cap
         IN  Appended(IF drop > 0 THEN Trimmed(Dropped(g, drop)) ELSE g, p)

-----------------------------------------------------------------------------
(* Buffer.ReadFromLimit.                                                   *)

\* completeUTF8Prefix: the length of p without a rune cut at its end.
CompletePrefix(p) ==
    LET starts == {k \in 1..Len(p) : ~Continuation(p[k])} \cup {1}
        last == Max(starts)
    IN  IF text[p[last] + 1] > Len(p) - last + 1 THEN last - 1 ELSE Len(p)

\* Where reading begins: among the retained bytes, at the lead byte of its rune.
ReadStart(f, offset) ==
    LET inside == Max({f.discarded, Min({offset, Total(f)})})
    IN  IF inside = Total(f) THEN inside
        ELSE Max({f.discarded} \cup
                 {o \in f.discarded..inside : ~Continuation(ByteAt(f, o - f.discarded))})

\* A fragment of a rune at the front of the ring is skipped for good.
Aligned(f, offset) == IF ReadStart(f, offset) = f.discarded THEN Trimmed(f) ELSE f

\* The page, the next offset, and whether there was a gap or there is more.
Page(f, offset) ==
    LET at == ReadStart(f, offset)
        n == Min({Total(f) - at, PageLimit})
        out == Copied(f, at - f.discarded, n)
        cut == Total(f) - at > n
        safe == IF out # <<>> /\ (cut \/ ~f.closed) THEN CompletePrefix(out) ELSE n
    IN  [chunk |-> SubSeq(out, 1, safe), next |-> at + safe, gap |-> at # Min({offset, Total(f)}),
         more |-> cut \/ safe < n]

\* Mutant: the page limit is applied, and nobody is told of the rest.
ReadPage_NoMore(b, offset) == [Page(Aligned(buf[b], offset), offset) EXCEPT !.more = FALSE]

ReadPage(b, offset) == Page(Aligned(buf[b], offset), offset)

\* What a reader knows after one more page; Ended is the status read with it.
Advanced(r, page, ended) ==
    [r EXCEPT !.cursor = page.next, !.got = @ \o page.chunk, !.gap = @ \/ page.gap,
              !.done = ended /\ ~page.more]

-----------------------------------------------------------------------------
(* The session's reader goroutine.                                         *)

Bytes(from, to) == [k \in 1..(to - from) |-> from + k - 1]

\* What the cleaner has not released yet: the unterminated line.
Unwritten(b) == Bytes(Total(buf[b]), printed)

\* consume: n more bytes printed; the cleaners release some of them, of both
\* buffers alike.
Feed(n, released) ==
    /\ ~over["job"] /\ ~over["session"] /\ printed + n <= MaxBytes
    /\ printed' = printed + n
    /\ released \in Total(buf["job"])..printed'
    /\ buf' = [b \in Bufs |-> BufferWith(buf[b], Bytes(Total(buf[b]), released))]
    /\ UNCHANGED <<text, over, listed, held, who, follower>>

\* sessionFlush: the unterminated line is final, the command is over.
Flushed(f) == BufferWith(f, Bytes(Total(f), printed))

\* The completion marker: both lines are flushed, the job is over with its
\* buffer closed, the session goes on.
Complete ==
    /\ ~over["job"] /\ ~over["session"]
    /\ buf' = [buf EXCEPT !["session"] = Flushed(@), !["job"] = [Flushed(@) EXCEPT !.closed = TRUE]]
    /\ over' = [over EXCEPT !["job"] = TRUE]
    /\ UNCHANGED <<text, printed, listed, held, who, follower>>

\* terminate: the session's part first, under its own lock ...
TerminateSession ==
    /\ ~over["session"]
    /\ buf' = [buf EXCEPT !["session"] = [(IF over["job"] THEN @ ELSE Flushed(@)) EXCEPT !.closed = TRUE]]
    /\ over' = [over EXCEPT !["session"] = TRUE]
    /\ UNCHANGED <<text, printed, listed, held, who, follower>>

\* ... then the job's.
FinalizeJob ==
    /\ over["session"] /\ ~over["job"]
    /\ buf' = [buf EXCEPT !["job"] = [Flushed(@) EXCEPT !.closed = TRUE]]
    /\ over' = [over EXCEPT !["job"] = TRUE]
    /\ UNCHANGED <<text, printed, listed, held, who, follower>>

\* Hold: only while the job is its session's current command.
Hold(on) ==
    /\ listed /\ ~over["job"] /\ ~over["session"]
    /\ held' = on
    /\ UNCHANGED <<text, printed, buf, over, listed, who, follower>>

\* Collection or eviction of a finished job.
Forget ==
    /\ over["job"] /\ listed
    /\ listed' = FALSE
    /\ UNCHANGED <<text, printed, buf, over, held, who, follower>>

-----------------------------------------------------------------------------
(* Who reads.                                                              *)

\* One page of buffer b: the reader moves on, a fragment at the front goes.
Read(b, ended) ==
    LET page == ReadPage(b, follower.cursor)
    IN  /\ follower' = [Advanced(follower, page, ended) EXCEPT !.pc = "idle"]
        /\ buf' = [buf EXCEPT ![b] = Aligned(@, follower.cursor)]
        /\ UNCHANGED <<text, printed, over, listed, held, who>>

\* hExecStream: status and page in one critical section of the job, through a
\* handle that outlives its place in the registry.
StreamJob ==
    /\ who = "job" /\ ~follower.done
    /\ Read("job", over["job"])

\* hSessionStream: the same over the session.
StreamSession ==
    /\ who = "session" /\ ~follower.done
    /\ Read("session", over["session"])

\* JobTailHandle.Poll, first half: the job is looked up and its hold is read.
\* A held answer carries no byte and leaves the cursor alone.
AgentLooks ==
    /\ who = "agent" /\ follower.pc = "idle" /\ ~follower.done
    /\ follower' = [follower EXCEPT !.pc = IF ~listed THEN "lost" ELSE IF held THEN "idle" ELSE "reading"]
    /\ UNCHANGED <<text, printed, buf, over, listed, held, who>>

\* Second half: the page and the status.  PollWait polls again, with the same
\* cursor, while there is nothing to tell.
AgentReads ==
    /\ follower.pc = "reading"
    /\ Read("job", over["job"])

\* Tail (logs_tail): the same two halves, a page without a status.
AgentTails ==
    /\ follower.pc = "reading"
    /\ Read("job", FALSE)

OutputNext ==
    \/ \E n \in 1..MaxBytes, released \in 0..MaxBytes : Feed(n, released)
    \/ Complete \/ TerminateSession \/ FinalizeJob
    \/ \E on \in BOOLEAN : Hold(on)
    \/ Forget
    \/ StreamJob \/ StreamSession
    \/ AgentLooks \/ AgentReads \/ AgentTails

OutputSpec == OutputInit /\ [][OutputNext]_outVars

-----------------------------------------------------------------------------
(* Properties.                                                             *)

\* Nobody is shown a byte twice, out of order, or after a hole no page
\* reported; no page ends inside a rune unless the output itself does; and a
\* reader that was told the output is over has all of it that was retained,
\* down to the unterminated last line.
StreamIsLossless ==
    /\ \A k \in 1..(Len(follower.got) - 1) :
         IF follower.gap THEN follower.got[k] < follower.got[k + 1]
         ELSE follower.got[k] + 1 = follower.got[k + 1]
    /\ follower.got # <<>> =>
         IF follower.gap THEN follower.cursor > Last(follower.got)
         ELSE follower.cursor = Last(follower.got) + 1 /\ follower.got[1] = 0
    /\ follower.cursor < printed => ~Continuation(follower.cursor)
    /\ follower.done => follower.cursor = printed

\* Hold: once the operator holds the output, no later byte reaches the agent.
\* Poll reads the hold and the page in two critical sections, so it can fail.
HeldIsWithheld == [][who = "agent" /\ follower'.got # follower.got => ~held]_outVars
=============================================================================
