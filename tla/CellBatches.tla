------------------------------- MODULE CellBatches -------------------------------
(***************************************************************************)
(* How the AI cells of one step are paid for: the batch driver, the        *)
(* fallbacks and the rate limiter of headless/index.ts (runCellBatches and *)
(* the loop of applyMutateLlm, evalLlmBatch, callLlmCells, callLlmCell,    *)
(* rateLimiter).                                                           *)
(*                                                                         *)
(* Items are split into batches, and a group of batches is in flight at a  *)
(* time.  A batch is one call; a reply that does not parse is asked again  *)
(* cell by cell, and so is, where the caller captures failures, a batch    *)
(* that failed.  Nothing stops the calls of a batch that was given up on.  *)
(* Time is counted in the limiter's polls, and a call is known by its age. *)
(***************************************************************************)
EXTENDS Integers, FiniteSets, Sequences, SequencesExt, FiniteSetsExt, Picks

CONSTANTS
    ItemCount,      \* items: rows, groups or sort keys
    PromptCount,     \* distinct prompts they render to
    BatchSize,
    ChunkSize,   \* batches in flight
    Limit,       \* calls a window admits
    Window       \* its length in polls

ASSUME SizesAssumption ==
    /\ ItemCount \in Nat /\ PromptCount \in Nat \ {0}
    /\ BatchSize \in Nat \ {0} /\ ChunkSize \in Nat \ {0}
    /\ Limit \in Nat \ {0} /\ Window \in Nat \ {0}

VARIABLES
    capture,     \* whether the caller captures failures (onCellFail)
    cellCache,   \* the prompts with a cached answer
    batches,     \* of each batch, how far it is
    group,       \* groups begun
    out,         \* the results so far
    status,      \* of the pass: "running", "done", "failed" or "cancelled"
    aborted,     \* the signal
    calls,       \* calls that await the limiter or their reply
    timestamps,  \* the limiter's, as ages, oldest first
    recent       \* history: ages of the calls of the last window

passVars == <<capture, batches, group, out, status>>
batchesVars == <<passVars, cellCache, aborted, calls, timestamps, recent>>

Items == 1..ItemCount
Count == (ItemCount + BatchSize - 1) \div BatchSize
FailedCell == 0

\* The items in the first b batches, and the batches in the first g groups: a
\* slice ends where its size says or where the list does.
Through(b) == IF b * BatchSize <= ItemCount THEN b * BatchSize ELSE ItemCount
Begun(g) == IF g * ChunkSize <= Count THEN g * ChunkSize ELSE Count

ItemsOf(b) == Through(b - 1) + 1 .. Through(b)
Members(g) == {b \in 1..Count : Begun(g - 1) < b /\ b <= Begun(g)}

\* What an item renders to; items may share a prompt.
prompt == [i \in Items |-> 1 + ((i - 1) % PromptCount)]

Fresh == [phase |-> "queued", round |-> 0, pending |-> <<>>, ok |-> {}, bad |-> {}]

BatchesInit ==
    /\ capture \in BOOLEAN
    /\ cellCache \in SUBSET (1..PromptCount)
    /\ batches = [b \in 1..Count |-> Fresh]
    /\ group = 0 /\ out = <<>> /\ status = "running" /\ aborted = FALSE
    /\ calls = {} /\ timestamps = <<>> /\ recent = <<>>

-----------------------------------------------------------------------------
(* The rate limiter.                                                       *)

\* Ages, oldest first, from the first that is within the window.
Oldest(ages) == CHOOSE n \in 1..Len(ages) + 1 :
    /\ n <= Len(ages) => ages[n] <= Window
    /\ \A m \in 1..Len(ages) : m < n => ages[m] > Window
Within(ages) == SubSeq(ages, Oldest(ages), Len(ages))

\* Mutant: a stamp goes when it is as old as the window.
HeldShort == SelectSeq(timestamps, LAMBDA age : age < Window)

\* The stamps older than a window go before the slots are counted.
Held == Within(timestamps)
FreeSlot == Len(Held) < Limit

\* Mutant: the signal is looked at when the step begins only.
AcquireDeaf(c) ==
    /\ c \in calls /\ c.stage = "waiting"
    /\ FreeSlot
    /\ timestamps' = Append(Held, 0)
    /\ recent' = Append(recent, 0)
    /\ calls' = (calls \ {c}) \cup {[c EXCEPT !.stage = "sent"]}
    /\ UNCHANGED <<passVars, cellCache, aborted>>

\* acquire: a waiter that finds a slot takes it, and its call goes out.
Acquire(c) ==
    /\ c \in calls /\ c.stage = "waiting"
    /\ ~aborted /\ FreeSlot
    /\ timestamps' = Append(Held, 0)
    /\ recent' = Append(recent, 0)
    /\ calls' = (calls \ {c}) \cup {[c EXCEPT !.stage = "sent"]}
    /\ UNCHANGED <<passVars, cellCache, aborted>>

\* A poll's time goes by.
Tick ==
    /\ timestamps # <<>> /\ \E n \in DOMAIN timestamps : timestamps[n] <= Window
    /\ timestamps' = [n \in DOMAIN timestamps |->
         IF timestamps[n] > Window THEN timestamps[n] ELSE timestamps[n] + 1]
    /\ recent' = Within([n \in DOMAIN recent |-> recent[n] + 1])
    /\ UNCHANGED <<passVars, cellCache, aborted, calls>>

-----------------------------------------------------------------------------
(* Batches.                                                                *)

Call(b, k, r) == [batch |-> b, slot |-> k, round |-> r, stage |-> "waiting"]

\* A call for each of the cells a batch pushed, known by its place there.
CellCalls(b, pending, r) == {Call(b, k, r) : k \in DOMAIN pending}

\* One call for the whole batch, or, when one cell is left, for that cell.
FirstCalls(b, pending) ==
    IF Len(pending) = 1 THEN CellCalls(b, pending, 1) ELSE {Call(b, 0, 0)}

\* The items whose prompts the cache does not have, in the order they are pushed.
Uncached(b) == Picked([i \in Items |-> i], {i \in ItemsOf(b) : prompt[i] \notin cellCache})

\* The replies, in the order of the prompts that were sent.
Fetched(pending, bad) ==
    [k \in DOMAIN pending |-> IF k \in bad THEN FailedCell ELSE prompt[pending[k]]]

\* Mutant: a reply is written at its own place and not at its item's.
MergedFromFirst(b, pending, bad) ==
    [n \in 1..Through(b) - Through(b - 1) |->
       IF n \in DOMAIN pending THEN Fetched(pending, bad)[n] ELSE prompt[Through(b - 1) + n]]

\* The results of a batch: each reply at the index its prompt was pushed
\* with, over what the cache had at the others.
Merged(b, pending, bad) ==
    [n \in 1..Through(b) - Through(b - 1) |->
       LET i == Through(b - 1) + n
           slots == {k \in DOMAIN pending : pending[k] = i}
       IN  IF slots # {} THEN Fetched(pending, bad)[CHOOSE k \in slots : TRUE] ELSE prompt[i]]

\* A batch that is begun: it waits for what the cache does not have.
Begin(b, pending) ==
    [phase |-> IF pending = <<>> THEN "done" ELSE "asking",
     round |-> IF Len(pending) = 1 THEN 1 ELSE 0,
     pending |-> pending, ok |-> {}, bad |-> {}]

\* The next group of batches: all of them look into the cache before any of
\* them is answered.
StartGroup ==
    /\ status = "running" /\ ~aborted
    /\ \A b \in Members(group) : batches[b].phase = "out"
    /\ Members(group + 1) # {}
    /\ group' = group + 1
    /\ batches' = [b \in 1..Count |->
         IF b \notin Members(group + 1) THEN batches[b]
         ELSE Begin(b, Uncached(b))]
    /\ calls' = calls \cup UNION {FirstCalls(b, Uncached(b)) :
         b \in {m \in Members(group + 1) : Uncached(m) # <<>>}}
    /\ UNCHANGED <<capture, out, status, cellCache, aborted, timestamps, recent>>

\* A reply its batch still waits for.
Awaited(c) ==
    /\ batches[c.batch].phase = "asking"
    /\ batches[c.batch].round = c.round

\* The end of a batch: what was answered is cached, failures are not.
Finish(b, bad) ==
    /\ batches' = [batches EXCEPT ![b].phase = "done", ![b].bad = bad]
    /\ cellCache' = cellCache \cup {prompt[batches[b].pending[k]] : k \in DOMAIN batches[b].pending \ bad}

\* A round of calls, one for each cell that is pending.
AskCells(b, r, settled) ==
    /\ batches' = [batches EXCEPT ![b].round = r, ![b].ok = {}, ![b].bad = {}]
    /\ calls' = (calls \ {settled}) \cup CellCalls(b, batches[b].pending, r)

Sent(c) == c \in calls /\ c.stage = "sent" /\ ~aborted

BatchReplies(c, parses) ==
    /\ Sent(c) /\ c.round = 0
    /\ IF parses
       THEN Finish(c.batch, {}) /\ calls' = calls \ {c}
       ELSE AskCells(c.batch, 1, c) /\ UNCHANGED cellCache
    /\ UNCHANGED <<capture, group, out, status, aborted, timestamps, recent>>

\* An error reaches evalLlmBatch: captured, every pending cell is called on
\* its own; else the batch rejects.
BatchThrows(b, c) ==
    /\ IF capture
       THEN AskCells(b, 2, c)
       ELSE /\ batches' = [batches EXCEPT ![b].phase = "failed"]
            /\ calls' = calls \ {c}
    /\ UNCHANGED cellCache

BatchFails(c) ==
    /\ Sent(c) /\ c.round = 0
    /\ BatchThrows(c.batch, c)
    /\ UNCHANGED <<capture, group, out, status, aborted, timestamps, recent>>

\* Mutant: a batch waits for an answer from every cell.
AllInAnswered(b, ok, bad) == ok = DOMAIN batches[b].pending

AllIn(b, ok, bad) == ok \cup bad = DOMAIN batches[b].pending

\* A cell is answered, or fails where failures are captured; the last one
\* ends the batch.  Nobody waits for the reply of a round that was given up.
CellSettles(c, answered) ==
    /\ Sent(c) /\ c.round > 0
    /\ LET b == c.batch
           ok == IF answered THEN batches[b].ok \cup {c.slot} ELSE batches[b].ok
           bad == IF answered THEN batches[b].bad ELSE batches[b].bad \cup {c.slot}
       IN  \/ /\ ~Awaited(c)
              /\ calls' = calls \ {c}
              /\ UNCHANGED <<batches, cellCache>>
           \/ /\ Awaited(c) /\ ~answered /\ c.round = 1
              /\ BatchThrows(b, c)
           \/ /\ Awaited(c) /\ (answered \/ c.round = 2)
              /\ calls' = calls \ {c}
              /\ IF AllIn(b, ok, bad)
                 THEN Finish(b, bad)
                 ELSE /\ batches' = [batches EXCEPT ![b].ok = ok, ![b].bad = bad]
                      /\ UNCHANGED cellCache
    /\ UNCHANGED <<capture, group, out, status, aborted, timestamps, recent>>

\* What the batches of the group came back with, in their order.
Results ==
    [k \in 1..Begun(group) - Begun(group - 1) |->
       LET b == Begun(group - 1) + k IN Merged(b, batches[b].pending, batches[b].bad)]

\* Every batch of the group is in: the results are laid out in the order of
\* the batches, whichever came first.
GroupEnds ==
    /\ status = "running" /\ ~aborted /\ group > 0
    /\ \A b \in Members(group) : batches[b].phase = "done"
    /\ out' = out \o FlattenSeq(Results)
    /\ batches' = [b \in 1..Count |->
         IF b \in Members(group) THEN [batches[b] EXCEPT !.phase = "out"] ELSE batches[b]]
    /\ UNCHANGED <<capture, group, status, cellCache, aborted, calls, timestamps, recent>>

\* A batch that rejects fails the pass at once; its siblings go on.
PassFails ==
    /\ status = "running" /\ ~aborted
    /\ \E b \in Members(group) : batches[b].phase = "failed"
    /\ status' = "failed"
    /\ UNCHANGED <<capture, batches, group, out, cellCache, aborted, calls, timestamps,
                   recent>>

PassEnds ==
    /\ status = "running" /\ ~aborted
    /\ \A b \in 1..Count : batches[b].phase = "out"
    /\ status' = "done"
    /\ UNCHANGED <<capture, batches, group, out, cellCache, aborted, calls, timestamps,
                   recent>>

\* Stop.  Every wait of the pass ends in a cancellation: a waiter of the
\* limiter at its next poll, a request that was sent at once.
Abort ==
    /\ status = "running" /\ ~aborted
    /\ aborted' = TRUE
    /\ UNCHANGED <<passVars, cellCache, calls, timestamps, recent>>

Cancelled ==
    /\ aborted /\ status = "running"
    /\ status' = "cancelled"
    /\ calls' = {}
    /\ UNCHANGED <<capture, batches, group, out, cellCache, aborted, timestamps, recent>>

-----------------------------------------------------------------------------
Settles(c) ==
    \/ \E parses \in BOOLEAN : BatchReplies(c, parses)
    \/ BatchFails(c)
    \/ \E answered \in BOOLEAN : CellSettles(c, answered)

Driver == StartGroup \/ GroupEnds \/ PassFails \/ PassEnds \/ Cancelled

BatchesNext ==
    \/ Tick \/ Abort \/ Driver
    \/ \E c \in calls : Acquire(c) \/ Settles(c)

\* Timers fire, so that waiters poll; a call that was sent settles (its SDK
\* gives up); the driver's continuations run.
Fairness ==
    /\ WF_batchesVars(Tick) /\ WF_batchesVars(Driver)
    /\ WF_batchesVars(\E c \in calls : Acquire(c))
    /\ WF_batchesVars(\E c \in calls : Settles(c))

BatchesSpec == BatchesInit /\ [][BatchesNext]_batchesVars /\ Fairness

-----------------------------------------------------------------------------
(* Properties.                                                             *)

BatchesTypeOK ==
    /\ cellCache \subseteq 1..PromptCount
    /\ \A b \in 1..Count :
         /\ batches[b].phase \in {"queued", "asking", "done", "failed", "out"}
         /\ batches[b].ok \cup batches[b].bad \subseteq DOMAIN batches[b].pending
    /\ out \in Seq(0..PromptCount) /\ Len(out) <= ItemCount
    /\ \A c \in calls : c.batch \in 1..Count /\ c.slot \in 0..ItemCount /\ c.round \in 0..2
    /\ timestamps \in Seq(0..Window + 1) /\ recent \in Seq(0..Window)

\* No window sees more calls than the limiter admits, however many waiters
\* wake at once and whatever becomes of the batches that asked.
RateHeld == Len(recent) <= Limit

\* The results come in the order of the items: each is the answer to its own
\* prompt or a failure, though only what the cache lacks is asked for and
\* replies are counted among themselves, through batches that come back out
\* of order and fallbacks.
ResultsInOrder ==
    /\ \A n \in DOMAIN out : out[n] \in {prompt[n], FailedCell}
    /\ status = "done" => Len(out) = ItemCount

\* After Stop no call goes out, not even one that was asleep in the limiter.
NoCallAfterStop == [][aborted => Len(recent') <= Len(recent)]_batchesVars

\* A pass ends, though a window may fill on the way.
PassIsOver == <>(status # "running")

=============================================================================
