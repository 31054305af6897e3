------------------------------ MODULE CellsProofs ------------------------------
(***************************************************************************)
(* The cells of an AI column: the batches of one pass (CellBatches) and    *)
(* the passes over a table (LazyEval), for any number of rows, prompts,    *)
(* groups and waiters.                                                     *)
(*                                                                         *)
(* The limiter counts its own stamps, the promise is about the calls of    *)
(* the last window.  The two agree because the stamps are in order of age  *)
(* (Ordered), so that dropping the old ones from the front leaves exactly  *)
(* the calls of the window (Counted).                                      *)
(*                                                                         *)
(* The cells of a pass leave in the order of their rows because the groups *)
(* do, whatever order their batches and calls finish in: OInv says that    *)
(* the groups leave in turn, each as a whole, with every batch of it laid. *)
(*                                                                         *)
(* What a replay leaves is known by induction over its steps (RunIs): a    *)
(* row's cell is the filter's wherever the AI step is among them.  EvalInv *)
(* then relates the grid to the cell cache and to the plan.                *)
(***************************************************************************)
EXTENDS CellBatches, LazyEval, SequenceLemmas, SequenceTheorems,
        FiniteSetTheorems, WellFoundedInduction, TLAPS

Ordered == \A m, n \in DOMAIN timestamps : m <= n => timestamps[m] >= timestamps[n]
Counted == recent = Within(timestamps)
LimiterTypeOK == timestamps \in Seq(Nat) /\ recent \in Seq(Nat) /\ aborted \in BOOLEAN
LInv == LimiterTypeOK /\ Ordered /\ Counted /\ RateHeld

------------------------------------------------------------------------------
(* Ages and windows.                                                       *)

\* What the first age within the window is known by.
IsOldest(ages, n) ==
    /\ n <= Len(ages) => ages[n] <= Window
    /\ \A m \in 1..Len(ages) : m < n => ages[m] > Window

\* Every sequence of ages has a first one within the window, or an end.
LEMMA OldestExists ==
  ASSUME NEW ages \in Seq(Nat)
  PROVE  /\ Oldest(ages) \in 1..Len(ages) + 1
         /\ IsOldest(ages, Oldest(ages))
<1> DEFINE young == {n \in 1..Len(ages) + 1 : n <= Len(ages) => ages[n] <= Window}
<1>1. Len(ages) \in Nat
  OBVIOUS
<1>2. young \subseteq Nat /\ Len(ages) + 1 \in young
  BY <1>1
<1>3. PICK n \in young : \A m \in young : ~(<<m, n>> \in OpToRel(<, Nat))
  BY <1>2, NatLessThanWellFounded, WFMin
<1>4. \A m \in young : ~(m < n)
  BY <1>2, <1>3 DEF OpToRel
<1>5. \A m \in 1..Len(ages) : m < n => ages[m] > Window
  <2> SUFFICES ASSUME NEW m \in 1..Len(ages), m < n PROVE ages[m] > Window
    OBVIOUS
  <2>1. m \notin young
    BY <1>4
  <2>2. ages[m] \in Nat /\ Window \in Nat
    BY SizesAssumption
  <2> QED
    BY <1>1, <2>1, <2>2
<1>6. n \in 1..Len(ages) + 1 /\ IsOldest(ages, n)
  BY <1>5 DEF IsOldest
<1> QED
  BY <1>6 DEF Oldest, IsOldest

\* There is only one.
LEMMA OldestUnique ==
  ASSUME NEW ages \in Seq(Nat), NEW n \in 1..Len(ages) + 1, IsOldest(ages, n)
  PROVE  Oldest(ages) = n
<1> DEFINE o == Oldest(ages)
<1>1. o \in 1..Len(ages) + 1 /\ IsOldest(ages, o)
  BY OldestExists
<1>2. Len(ages) \in Nat /\ Window \in Nat /\ \A m \in 1..Len(ages) : ages[m] \in Nat
  BY SizesAssumption
<1> HIDE DEF o
<1>3. ~(o < n)
  BY <1>1, <1>2 DEF IsOldest
<1>4. ~(n < o)
  BY <1>1, <1>2 DEF IsOldest
<1>5. o = n
  BY <1>1, <1>2, <1>3, <1>4
<1> QED
  BY <1>5 DEF o

\* What is within the window are the ages from the first one on.
LEMMA WithinIs ==
  ASSUME NEW ages \in Seq(Nat)
  PROVE  /\ Within(ages) \in Seq(Nat)
         /\ Len(Within(ages)) = Len(ages) + 1 - Oldest(ages)
         /\ \A i \in 1..Len(Within(ages)) : Within(ages)[i] = ages[Oldest(ages) + i - 1]
<1>1. Oldest(ages) \in 1..Len(ages) + 1 /\ Len(ages) \in Nat
  BY OldestExists
<1>2. \A i \in Oldest(ages)..Len(ages) : ages[i] \in Nat
  BY <1>1
<1>3. /\ Within(ages) \in Seq(Nat)
      /\ Len(Within(ages)) = IF Oldest(ages) <= Len(ages) THEN Len(ages) - Oldest(ages) + 1 ELSE 0
      /\ \A i \in 1..Len(ages) - Oldest(ages) + 1 : Within(ages)[i] = ages[Oldest(ages) + i - 1]
  BY <1>1, <1>2, SubSeqProperties DEF Within
<1> QED
  BY <1>1, <1>3

------------------------------------------------------------------------------
(* A call that goes out.                                                   *)

\* The new stamp goes behind those of the window, which are all kept.
LEMMA AcquireKeeps == LInv /\ (\E c \in calls : Acquire(c)) => LInv'
<1> SUFFICES ASSUME LInv, NEW c \in calls, Acquire(c) PROVE LInv'
  OBVIOUS
<1> DEFINE held == Within(timestamps)
<1>1. /\ timestamps \in Seq(Nat) /\ recent = held /\ aborted \in BOOLEAN
      /\ timestamps' = Append(held, 0) /\ recent' = Append(recent, 0)
      /\ aborted' = aborted /\ Len(held) < Limit
  BY DEF LInv, LimiterTypeOK, Counted, Acquire, Held, FreeSlot
<1>2. /\ held \in Seq(Nat)
      /\ Len(held) = Len(timestamps) + 1 - Oldest(timestamps)
      /\ \A i \in 1..Len(held) : held[i] = timestamps[Oldest(timestamps) + i - 1]
  BY <1>1, WithinIs
<1>3. /\ Oldest(timestamps) \in 1..Len(timestamps) + 1
      /\ IsOldest(timestamps, Oldest(timestamps))
  BY <1>1, OldestExists
<1> HIDE DEF held
<1>4. /\ timestamps' \in Seq(Nat) /\ Len(timestamps') = Len(held) + 1
      /\ \A i \in 1..Len(held) : timestamps'[i] = held[i]
      /\ timestamps'[Len(held) + 1] = 0
  BY <1>1, <1>2, AppendProperties
<1>5. LimiterTypeOK'
  BY <1>1, <1>4 DEF LimiterTypeOK
<1>6. Ordered'
  <2> SUFFICES ASSUME NEW m \in 1..Len(held) + 1, NEW n \in 1..Len(held) + 1, m <= n
               PROVE  timestamps'[m] >= timestamps'[n]
    BY <1>4 DEF Ordered
  <2>1. \A i \in 1..Len(held) + 1 : timestamps'[i] \in Nat
    BY <1>4
  <2>2. CASE n = Len(held) + 1
    BY <1>4, <2>1, <2>2
  <2>3. CASE n # Len(held) + 1
    <3> DEFINE o == Oldest(timestamps)
    <3>1. m \in 1..Len(held) /\ n \in 1..Len(held)
      BY <1>2, <2>3
    <3>2. timestamps'[m] = timestamps[o + m - 1] /\ timestamps'[n] = timestamps[o + n - 1]
      BY <1>2, <1>4, <3>1
    <3>3. /\ DOMAIN timestamps = 1..Len(timestamps) /\ Len(timestamps) \in Nat
          /\ o \in 1..Len(timestamps) + 1 /\ Len(held) = Len(timestamps) + 1 - o
      BY <1>1, <1>2, <1>3
    <3> HIDE DEF o
    <3>4. o + m - 1 \in DOMAIN timestamps /\ o + n - 1 \in DOMAIN timestamps
          /\ o + m - 1 <= o + n - 1
      BY <3>1, <3>3
    <3> QED
      BY <3>2, <3>4 DEF LInv, Ordered, o
  <2> QED
    BY <2>2, <2>3
<1>7. Counted'
  <2>1. timestamps'[1] <= Window
    <3>1. CASE Len(held) = 0
      BY <1>4, <3>1, SizesAssumption
    <3>2. CASE Len(held) # 0
      <4>1. 1 \in 1..Len(held) /\ Oldest(timestamps) <= Len(timestamps)
        BY <1>1, <1>2, <1>3, <3>2
      <4>2. timestamps'[1] = timestamps[Oldest(timestamps)]
        BY <1>2, <1>3, <1>4, <4>1
      <4> QED
        BY <1>3, <4>1, <4>2 DEF IsOldest
    <3> QED
      BY <3>1, <3>2
  <2>2. 1 \in 1..Len(timestamps') + 1 /\ IsOldest(timestamps', 1)
    BY <1>2, <1>4, <2>1 DEF IsOldest
  <2>3. Oldest(timestamps') = 1
    BY <1>4, <2>2, OldestUnique
  <2>4. Within(timestamps') \in Seq(Nat) /\ Len(Within(timestamps')) = Len(timestamps')
        /\ \A i \in 1..Len(timestamps') : Within(timestamps')[i] = timestamps'[i]
    BY <1>2, <1>4, <2>3, WithinIs
  <2>5. Within(timestamps') = timestamps'
    BY <1>4, <2>4, SeqEqual
  <2> QED
    BY <1>1, <2>5 DEF Counted
<1>8. RateHeld'
  BY <1>1, <1>2, <1>4, SizesAssumption DEF RateHeld
<1> QED
  BY <1>5, <1>6, <1>7, <1>8 DEF LInv

------------------------------------------------------------------------------
(* Time.                                                                   *)

\* The stamps a poll later: those that are out of the window stay as they are.
Aged(ages) == [n \in DOMAIN ages |-> IF ages[n] > Window THEN ages[n] ELSE ages[n] + 1]
Older(ages) == [n \in DOMAIN ages |-> ages[n] + 1]

\* What is within the window a poll later are those of the ages within it
\* now that are, and they are not more.
LEMMA WithinAged ==
  ASSUME NEW ages \in Seq(Nat),
         \A m, n \in DOMAIN ages : m <= n => ages[m] >= ages[n]
  PROVE  /\ Aged(ages) \in Seq(Nat)
         /\ \A m, n \in DOMAIN Aged(ages) : m <= n => Aged(ages)[m] >= Aged(ages)[n]
         /\ Within(Older(Within(ages))) = Within(Aged(ages))
         /\ Within(Older(Within(ages))) \in Seq(Nat)
         /\ Len(Within(Older(Within(ages)))) <= Len(Within(ages))
<1> DEFINE W == Within(ages)
           f == Oldest(ages)
           later == Older(W)
           g == Oldest(later)
           aged == Aged(ages)
<1>1. /\ Len(ages) \in Nat /\ Window \in Nat /\ DOMAIN ages = 1..Len(ages)
      /\ \A n \in 1..Len(ages) : ages[n] \in Nat
  BY SizesAssumption
<1>2. f \in 1..Len(ages) + 1 /\ IsOldest(ages, f)
  BY OldestExists
<1>3. /\ W \in Seq(Nat) /\ Len(W) = Len(ages) + 1 - f
      /\ \A i \in 1..Len(W) : W[i] = ages[f + i - 1]
  BY WithinIs
<1> HIDE DEF W, f
<1>4. /\ later \in Seq(Nat) /\ Len(later) = Len(W)
      /\ \A i \in 1..Len(W) : later[i] = W[i] + 1
  <2>1. later = [n \in 1..Len(W) |-> W[n] + 1]
    BY <1>3 DEF Older
  <2>2. Len(W) \in Nat /\ \A n \in 1..Len(W) : W[n] \in Nat
    BY <1>3
  <2> QED
    BY <2>1, <2>2
<1> HIDE DEF later
<1>5. g \in 1..Len(later) + 1 /\ IsOldest(later, g)
  BY <1>4, OldestExists
<1>6. /\ Within(later) \in Seq(Nat) /\ Len(Within(later)) = Len(later) + 1 - g
      /\ \A i \in 1..Len(Within(later)) : Within(later)[i] = later[g + i - 1]
  BY <1>4, WithinIs
<1> HIDE DEF g
<1>7. /\ aged \in Seq(Nat) /\ Len(aged) = Len(ages)
      /\ \A n \in 1..Len(ages) : aged[n] = IF ages[n] > Window THEN ages[n] ELSE ages[n] + 1
  BY <1>1 DEF Aged
<1> HIDE DEF aged
<1>8. \A m, n \in DOMAIN aged : m <= n => aged[m] >= aged[n]
  <2>0. DOMAIN aged = 1..Len(ages)
    BY <1>7
  <2> SUFFICES ASSUME NEW m \in 1..Len(ages), NEW n \in 1..Len(ages), m <= n
               PROVE  aged[m] >= aged[n]
    BY <2>0
  <2>1. ages[m] >= ages[n] /\ ages[m] \in Nat /\ ages[n] \in Nat
    BY <1>1
  <2> QED
    BY <1>1, <1>7, <2>1
<1>9. \A n \in f..Len(ages) : ages[n] <= Window /\ aged[n] = ages[n] + 1
  <2> SUFFICES ASSUME NEW n \in f..Len(ages) PROVE ages[n] <= Window
    BY <1>1, <1>2, <1>7
  <2>1. f \in DOMAIN ages /\ n \in DOMAIN ages /\ f <= n
    BY <1>1, <1>2
  <2>2. ages[f] >= ages[n] /\ ages[f] <= Window
    BY <1>1, <1>2, <2>1 DEF IsOldest
  <2> QED
    BY <1>1, <2>1, <2>2
<1>10. \A i \in 1..Len(W) : later[i] = aged[f + i - 1]
  <2> SUFFICES ASSUME NEW i \in 1..Len(W) PROVE later[i] = aged[f + i - 1]
    OBVIOUS
  <2>1. f + i - 1 \in f..Len(ages)
    BY <1>1, <1>2, <1>3
  <2> QED
    BY <1>3, <1>4, <1>9, <2>1
<1>11. f + g - 1 \in 1..Len(aged) + 1
  BY <1>1, <1>2, <1>3, <1>4, <1>5, <1>7
<1>12. f + g - 1 <= Len(aged) => aged[f + g - 1] <= Window
  <2> SUFFICES ASSUME f + g - 1 <= Len(aged) PROVE aged[f + g - 1] <= Window
    OBVIOUS
  <2>1. g \in 1..Len(W) /\ g <= Len(later)
    BY <1>1, <1>2, <1>3, <1>4, <1>5, <1>7
  <2> QED
    BY <1>5, <1>10, <2>1 DEF IsOldest
<1>13. \A m \in 1..Len(aged) : m < f + g - 1 => aged[m] > Window
  <2> SUFFICES ASSUME NEW m \in 1..Len(aged), m < f + g - 1 PROVE aged[m] > Window
    OBVIOUS
  <2>1. CASE m < f
    BY <1>1, <1>2, <1>7, <2>1 DEF IsOldest
  <2>2. CASE ~(m < f)
    <3>1. m - f + 1 \in 1..Len(W) /\ m - f + 1 < g /\ f + (m - f + 1) - 1 = m
      BY <1>1, <1>2, <1>3, <1>4, <1>5, <1>7, <2>2
    <3>2. later[m - f + 1] = aged[m]
      BY <1>10, <3>1
    <3> QED
      BY <1>4, <1>5, <3>1, <3>2 DEF IsOldest
  <2> QED
    BY <2>1, <2>2
<1>14. Oldest(aged) = f + g - 1
  BY <1>7, <1>11, <1>12, <1>13, OldestUnique DEF IsOldest
<1>15. /\ Within(aged) \in Seq(Nat)
       /\ Len(Within(aged)) = Len(aged) + 1 - (f + g - 1)
       /\ \A i \in 1..Len(Within(aged)) : Within(aged)[i] = aged[f + g - 1 + i - 1]
  BY <1>7, <1>14, WithinIs
<1>16. Len(Within(aged)) = Len(Within(later))
  BY <1>1, <1>2, <1>3, <1>4, <1>5, <1>6, <1>7, <1>15
<1>17. \A i \in 1..Len(Within(later)) : Within(later)[i] = Within(aged)[i]
  <2> SUFFICES ASSUME NEW i \in 1..Len(Within(later)) PROVE Within(later)[i] = Within(aged)[i]
    OBVIOUS
  <2>1. g + i - 1 \in 1..Len(W)
    BY <1>3, <1>4, <1>5, <1>6
  <2>2. Within(later)[i] = aged[f + (g + i - 1) - 1]
    BY <1>6, <1>10, <2>1
  <2>3. f + (g + i - 1) - 1 = f + g - 1 + i - 1
    BY <1>1, <1>2, <1>5, <1>3, <1>4
  <2> QED
    BY <1>15, <1>16, <2>2, <2>3
<1>18. Within(later) = Within(aged)
  BY <1>6, <1>15, <1>16, <1>17, SeqEqual
<1>19. Len(Within(later)) <= Len(W)
  BY <1>3, <1>4, <1>5, <1>6, <1>1, <1>2
<1>20. Within(Older(Within(ages))) = Within(later)
  BY DEF later, W
<1> QED
  BY <1>6, <1>7, <1>8, <1>18, <1>19, <1>20 DEF aged, W

\* A poll's time drops stamps and calls alike.
LEMMA TickKeeps == LInv /\ Tick => LInv' /\ Len(recent') <= Len(recent)
<1> SUFFICES ASSUME LInv, Tick PROVE LInv' /\ Len(recent') <= Len(recent)
  OBVIOUS
<1>1. /\ timestamps \in Seq(Nat) /\ recent = Within(timestamps) /\ aborted \in BOOLEAN
      /\ \A m, n \in DOMAIN timestamps : m <= n => timestamps[m] >= timestamps[n]
  BY DEF LInv, LimiterTypeOK, Counted, Ordered
<1>2. /\ timestamps' = Aged(timestamps) /\ recent' = Within(Older(Within(timestamps)))
      /\ aborted' = aborted
  BY <1>1 DEF Tick, Aged, Older
<1>3. /\ timestamps' \in Seq(Nat) /\ recent' \in Seq(Nat)
      /\ \A m, n \in DOMAIN timestamps' : m <= n => timestamps'[m] >= timestamps'[n]
      /\ recent' = Within(timestamps')
      /\ Len(recent') <= Len(recent)
  BY <1>1, <1>2, WithinAged
<1>4. Len(recent) <= Limit /\ Len(recent) \in Nat /\ Len(recent') \in Nat
  BY <1>3 DEF LInv, RateHeld, LimiterTypeOK
<1>5. RateHeld'
  BY <1>3, <1>4, SizesAssumption DEF RateHeld
<1> QED
  BY <1>1, <1>2, <1>3, <1>5 DEF LInv, LimiterTypeOK, Counted, Ordered

------------------------------------------------------------------------------
(* The rest of a pass leaves the limiter alone.                            *)

\* Only a waiter that finds a slot, time and Stop touch what LInv is about.
LEMMA StepCases ==
  ASSUME [BatchesNext]_batchesVars
  PROVE  \/ \E c \in calls : Acquire(c)
         \/ Tick
         \/ timestamps' = timestamps /\ recent' = recent /\ aborted' \in {aborted, TRUE}
<1>1. CASE Abort
  BY <1>1 DEF Abort
<1>2. CASE Driver
  BY <1>2 DEF Driver, StartGroup, GroupEnds, PassFails, PassEnds, Cancelled
<1>3. CASE \E c \in calls : Settles(c)
  BY <1>3 DEF Settles, BatchReplies, BatchFails, CellSettles
<1>4. CASE UNCHANGED batchesVars
  BY <1>4 DEF batchesVars
<1> QED
  BY <1>1, <1>2, <1>3, <1>4 DEF BatchesNext

\* A step that leaves the stamps and the calls keeps the invariant.
LEMMA OthersKeep ==
  ASSUME LInv, timestamps' = timestamps, recent' = recent, aborted' \in {aborted, TRUE}
  PROVE  LInv'
BY DEF LInv, LimiterTypeOK, Ordered, Counted, RateHeld

\* The invariant holds of an empty limiter.
LEMMA LimiterStarts == BatchesInit => LInv
<1> SUFFICES ASSUME BatchesInit PROVE LInv
  OBVIOUS
<1>1. timestamps = <<>> /\ recent = <<>> /\ aborted = FALSE
  BY DEF BatchesInit
<1>2. timestamps \in Seq(Nat) /\ Len(timestamps) = 0 /\ DOMAIN timestamps = {}
  BY <1>1
<1>3. Within(timestamps) = <<>>
  <2>1. Within(timestamps) \in Seq(Nat)
        /\ Len(Within(timestamps)) = Len(timestamps) + 1 - Oldest(timestamps)
    BY <1>2, WithinIs
  <2>2. Oldest(timestamps) \in 1..Len(timestamps) + 1
    BY <1>2, OldestExists
  <2>3. Len(Within(timestamps)) = 0
    BY <1>2, <2>1, <2>2
  <2> QED
    BY <2>1, <2>3, EmptySeq
<1>4. RateHeld
  BY <1>1, SizesAssumption DEF RateHeld
<1> QED
  BY <1>1, <1>2, <1>3, <1>4 DEF LInv, LimiterTypeOK, Ordered, Counted

\* Stamps and calls agree at all times.
THEOREM LimiterCounts == BatchesSpec => []LInv
<1>1. LInv /\ [BatchesNext]_batchesVars => LInv'
  BY StepCases, AcquireKeeps, TickKeeps, OthersKeep
<1> QED
  BY LimiterStarts, <1>1, PTL DEF BatchesSpec

\* No window sees more calls than the limit, however many waiters wake at
\* once and whatever becomes of the batches that asked (headless/index.ts,
\* rateLimiter).
THEOREM RateAlwaysHeld == BatchesSpec => []RateHeld
<1>1. LInv => RateHeld
  BY DEF LInv
<1> QED
  BY LimiterCounts, <1>1, PTL

\* Once Stop is pressed no call goes out, from wherever in the limiter or the
\* batches it waits (acquire looks at the signal at every poll).
THEOREM StopEndsCalls == BatchesSpec => NoCallAfterStop
<1>1. LInv /\ [BatchesNext]_batchesVars => [aborted => Len(recent') <= Len(recent)]_batchesVars
  <2> SUFFICES ASSUME LInv, [BatchesNext]_batchesVars, aborted PROVE Len(recent') <= Len(recent)
    OBVIOUS
  <2>1. Len(recent) \in Nat
    BY DEF LInv, LimiterTypeOK
  <2>2. ~\E c \in calls : Acquire(c)
    BY DEF Acquire
  <2>3. CASE Tick
    BY <2>3, TickKeeps
  <2>4. CASE recent' = recent
    BY <2>1, <2>4
  <2> QED
    BY <2>2, <2>3, <2>4, StepCases
<1> QED
  BY LimiterCounts, <1>1, PTL DEF BatchesSpec, NoCallAfterStop

------------------------------------------------------------------------------
(* Slices.                                                                 *)

\* There are batches for all the items, and none that is empty.
LEMMA CountIs ==
  /\ Count \in Nat /\ ItemCount \in Nat /\ BatchSize \in Nat \ {0}
  /\ ItemCount <= Count * BatchSize
  /\ \A b \in 1..Count : (b - 1) * BatchSize < ItemCount
<1>1. /\ ItemCount \in Nat /\ BatchSize \in Nat \ {0}
  BY SizesAssumption
<1> DEFINE up == ItemCount + BatchSize - 1
<1>2. up \in Nat /\ up = ItemCount + BatchSize - 1
  BY <1>1
<1> HIDE DEF up
<1>3. (up \div BatchSize) \in Nat /\ (up \div BatchSize) * BatchSize <= up
      /\ up < (up \div BatchSize) * BatchSize + BatchSize
  BY <1>1, <1>2
<1>4. Count = up \div BatchSize
  BY DEF Count, up
<1>5. ASSUME NEW b \in 1..Count PROVE (b - 1) * BatchSize < ItemCount
  <2>1. b * BatchSize <= Count * BatchSize
    BY <1>1, <1>3, <1>4
  <2>2. (b - 1) * BatchSize = b * BatchSize - BatchSize
    BY <1>1
  <2> QED
    BY <1>1, <1>2, <1>3, <1>4, <2>1, <2>2
<1> QED
  BY <1>1, <1>2, <1>3, <1>4, <1>5

\* The slices of the items follow one another, from the first item to the last.
LEMMA ThroughIs ==
  /\ Through(0) = 0 /\ Through(Count) = ItemCount
  /\ \A b \in 0..Count : Through(b) \in 0..ItemCount
  /\ \A b \in 1..Count : Through(b - 1) < Through(b)
<1>1. Through(0) = 0
  BY CountIs DEF Through
<1>2. Through(Count) = ItemCount
  BY CountIs DEF Through
<1>3. ASSUME NEW b \in 0..Count PROVE Through(b) \in 0..ItemCount
  <2>1. b * BatchSize \in Nat
    BY CountIs
  <2> QED
    BY <2>1, CountIs DEF Through
<1>4. ASSUME NEW b \in 1..Count PROVE Through(b - 1) < Through(b)
  <2>1. (b - 1) * BatchSize < ItemCount /\ b \in Nat
    BY CountIs
  <2>2. b * BatchSize = (b - 1) * BatchSize + BatchSize
    BY CountIs, <2>1
  <2>3. b * BatchSize \in Nat /\ (b - 1) * BatchSize \in Int
    BY CountIs, <2>1
  <2> QED
    BY CountIs, <2>1, <2>2, <2>3 DEF Through
<1> QED
  BY <1>1, <1>2, <1>3, <1>4

\* And so do the groups of the batches.
LEMMA BegunIs ==
  /\ Begun(0) = 0 /\ \A b \in 1..Count : ~(b <= Begun(0 - 1))
  /\ \A g \in Nat : Begun(g) \in 0..Count /\ Begun(g) <= Begun(g + 1)
<1>1. ChunkSize \in Nat \ {0} /\ Count \in Nat
  BY SizesAssumption, CountIs
<1>2. Begun(0) = 0
  BY <1>1 DEF Begun
<1>3. ASSUME NEW b \in 1..Count PROVE ~(b <= Begun(0 - 1))
  <2>1. (0 - 1) * ChunkSize < 0 /\ (0 - 1) * ChunkSize \in Int
    BY <1>1
  <2> QED
    BY <1>1, <2>1 DEF Begun
<1>4. ASSUME NEW g \in Nat PROVE Begun(g) \in 0..Count /\ Begun(g) <= Begun(g + 1)
  <2>1. g * ChunkSize \in Nat /\ (g + 1) * ChunkSize = g * ChunkSize + ChunkSize
    BY <1>1
  <2> QED
    BY <1>1, <2>1 DEF Begun
<1> QED
  BY <1>2, <1>3, <1>4

\* The groups as they come: where one ends the next begins.
LEMMA MembersAre ==
  /\ Members(0) = {}
  /\ \A g \in Nat : Members(g + 1) = Begun(g) + 1 .. Begun(g + 1)
<1>1. ASSUME NEW g \in Nat PROVE Members(g + 1) = Begun(g) + 1 .. Begun(g + 1)
  <2>1. /\ Begun(g) \in 0..Count /\ Begun(g + 1) \in 0..Count /\ Count \in Nat
        /\ (g + 1) - 1 = g
    BY BegunIs, CountIs
  <2> QED
    BY <2>1 DEF Members
<1>2. Members(0) = {}
  <2>1. Begun(0) = 0 /\ Count \in Nat
    BY BegunIs, CountIs
  <2> QED
    BY <2>1 DEF Members
<1> QED
  BY <1>1, <1>2

------------------------------------------------------------------------------
(* The passage of the batches.                                             *)

\* Places among the cells a batch pushed.
Slots == Nat \ {0}

Batch == [phase : {"queued", "asking", "done", "failed", "out"}, round : 0..2,
          pending : Seq(Items), ok : SUBSET Slots, bad : SUBSET Slots]

PassTypeOK ==
    /\ capture \in BOOLEAN
    /\ batches \in [1..Count -> Batch]
    /\ group \in Nat
    /\ out \in Seq(0..PromptCount)
    /\ status \in {"running", "done", "failed", "cancelled"}
    /\ calls \subseteq [batch : 1..Count, slot : Nat, round : 0..2,
                        stage : {"waiting", "sent"}]
    /\ \A c \in calls : c.round > 0 => c.slot \in Slots

\* Only the batches of the group begun last are under way.
InTurn == \A b \in 1..Count :
    /\ b <= Begun(group - 1) => batches[b].phase = "out"
    /\ Begun(group) < b => batches[b].phase = "queued"
    /\ b \in Members(group) => batches[b].phase # "queued"

\* They leave together.
Together == \A b, c \in Members(group) :
    batches[b].phase = "out" => batches[c].phase = "out"

\* A group that has begun has batches.
SomeBegun == group > 0 => Members(group) # {}

\* A batch has one call for all its items at most, and still waits for it.
OneCall ==
    /\ \A c \in calls : c.round = 0 =>
         batches[c.batch].phase = "asking" /\ batches[c.batch].round = 0
    /\ \A c, d \in calls : c.round = 0 /\ d.round = 0 /\ c.batch = d.batch => c = d

\* How many batches have had their results laid out.
Laid == IF \A b \in Members(group) : batches[b].phase = "out"
        THEN Begun(group) ELSE Begun(group - 1)

OutIs ==
    /\ Len(out) = Through(Laid)
    /\ \A n \in DOMAIN out : out[n] \in {prompt[n], FailedCell}
    /\ status = "done" => Len(out) = ItemCount

OInv == PassTypeOK /\ InTurn /\ Together /\ SomeBegun /\ OneCall /\ OutIs

------------------------------------------------------------------------------
(* Replies.                                                                *)

\* A batch that is asked about stays in its group, whatever becomes of it:
\* nothing of the order changes.
LEMMA OneBatchMoves ==
  ASSUME OInv, NEW b \in 1..Count, NEW x \in Batch,
         batches[b].phase = "asking", x.phase \in {"asking", "done", "failed"},
         batches' = [batches EXCEPT ![b] = x],
         group' = group, out' = out, status' = status
  PROVE  InTurn' /\ Together' /\ SomeBegun' /\ OutIs'
<1>1. /\ batches \in [1..Count -> Batch] /\ group \in Nat
      /\ batches' \in [1..Count -> Batch]
      /\ batches'[b] = x /\ \A c \in 1..Count \ {b} : batches'[c] = batches[c]
  BY DEF OInv, PassTypeOK
<1>2. \A c \in 1..Count : batches'[c].phase = "out" <=> batches[c].phase = "out"
  BY <1>1
<1>3. \A c \in 1..Count : batches'[c].phase = "queued" <=> batches[c].phase = "queued"
  BY <1>1
<1>4. Members(group)' = Members(group) /\ Begun(group)' = Begun(group)
      /\ Begun(group - 1)' = Begun(group - 1) /\ Members(group) \subseteq 1..Count
  BY DEF Members, Begun
<1>5. InTurn'
  BY <1>2, <1>3, <1>4 DEF OInv, InTurn
<1>6. Together'
  BY <1>2, <1>4 DEF OInv, Together
<1>7. SomeBegun'
  BY <1>4 DEF OInv, SomeBegun
<1>8. Laid' = Laid
  BY <1>2, <1>4 DEF Laid
<1>9. OutIs'
  BY <1>8 DEF OInv, OutIs, Through
<1> QED
  BY <1>5, <1>6, <1>7, <1>9

\* Nor when no batch moves, and the pass goes on or is given up.
LEMMA NoBatchMoves ==
  ASSUME OInv, batches' = batches, group' = group, out' = out,
         status' \in {status, "failed", "cancelled"}
  PROVE  InTurn' /\ Together' /\ SomeBegun' /\ OutIs'
<1>1. InTurn' /\ Together' /\ SomeBegun'
  BY DEF OInv, InTurn, Together, SomeBegun, Members, Begun
<1>2. Laid' = Laid
  BY DEF Laid, Members, Begun
<1>3. OutIs'
  BY <1>2 DEF OInv, OutIs, Through
<1> QED
  BY <1>1, <1>3

\* A call that is the batch's only one leaves, with it the batch's wait.
LEMMA BatchRepliesKeeps ==
  ASSUME OInv, NEW c \in calls, c.round = 0, NEW x \in Batch,
         x.phase \in {"asking", "done", "failed"},
         batches' = [batches EXCEPT ![c.batch] = x],
         group' = group, out' = out, status' = status, capture' = capture,
         NEW more, calls' = (calls \ {c}) \cup more,
         more \subseteq [batch : {c.batch}, slot : Slots, round : 1..2, stage : {"waiting"}]
  PROVE  OInv'
<1>1. /\ c.batch \in 1..Count /\ batches[c.batch].phase = "asking"
      /\ batches \in [1..Count -> Batch] /\ ItemCount \in Nat
      /\ calls \subseteq [batch : 1..Count, slot : Nat, round : 0..2,
                          stage : {"waiting", "sent"}]
  BY SizesAssumption DEF OInv, PassTypeOK, OneCall
<1>2. InTurn' /\ Together' /\ SomeBegun' /\ OutIs'
  BY <1>1, OneBatchMoves
<1>3. PassTypeOK'
  BY <1>1 DEF OInv, PassTypeOK, Slots
<1>4. \A d \in calls' : d.round = 0 => d \in calls /\ d.batch # c.batch
  BY <1>1 DEF OInv, OneCall
<1>5. OneCall'
  BY <1>1, <1>4 DEF OInv, OneCall
<1> QED
  BY <1>2, <1>3, <1>5 DEF OInv

\* A cell's call leaves: the batch it is of has no other kind of call.
LEMMA CellSettlesKeeps ==
  ASSUME OInv, NEW c \in calls, c.round > 0, Awaited(c), NEW x \in Batch,
         x.phase \in {"asking", "done", "failed"},
         batches' = [batches EXCEPT ![c.batch] = x],
         group' = group, out' = out, status' = status, capture' = capture,
         NEW more, calls' = (calls \ {c}) \cup more,
         more \subseteq [batch : {c.batch}, slot : Slots, round : 1..2, stage : {"waiting"}]
  PROVE  OInv'
<1>1. /\ c.batch \in 1..Count /\ batches[c.batch].phase = "asking"
      /\ batches[c.batch].round > 0
      /\ batches \in [1..Count -> Batch] /\ ItemCount \in Nat
      /\ calls \subseteq [batch : 1..Count, slot : Nat, round : 0..2,
                          stage : {"waiting", "sent"}]
  BY SizesAssumption DEF OInv, PassTypeOK, Awaited
<1>2. InTurn' /\ Together' /\ SomeBegun' /\ OutIs'
  BY <1>1, OneBatchMoves
<1>3. PassTypeOK'
  BY <1>1 DEF OInv, PassTypeOK, Slots
<1>4. \A d \in calls' : d.round = 0 => d \in calls /\ d.batch # c.batch
  BY <1>1 DEF OInv, OneCall
<1>5. OneCall'
  BY <1>1, <1>4 DEF OInv, OneCall
<1> QED
  BY <1>2, <1>3, <1>5 DEF OInv

\* What a round of cell calls asks.
LEMMA CellCallsAre ==
  ASSUME NEW b, NEW pending \in Seq(Items), NEW r \in 1..2
  PROVE  CellCalls(b, pending, r)
           \subseteq [batch : {b}, slot : Slots, round : 1..2, stage : {"waiting"}]
BY DEF CellCalls, Call, Slots

\* A call that settles, with a reply or an error, late or awaited.
LEMMA SettlesKeeps == OInv /\ (\E c \in calls : Settles(c)) => OInv'
<1> SUFFICES ASSUME OInv, NEW c \in calls, Settles(c) PROVE OInv'
  OBVIOUS
<1> DEFINE b == c.batch
<1>1. /\ b \in 1..Count /\ c.round \in 0..2 /\ c.slot \in Nat
      /\ c.round > 0 => c.slot \in Slots
      /\ batches \in [1..Count -> Batch] /\ batches[b] \in Batch
      /\ calls \subseteq [batch : 1..Count, slot : Nat, round : 0..2,
                          stage : {"waiting", "sent"}]
  BY DEF OInv, PassTypeOK
<1>2. group' = group /\ out' = out /\ status' = status /\ capture' = capture
  BY DEF Settles, BatchReplies, BatchFails, CellSettles
<1>3. batches[b].pending \in Seq(Items) /\ batches[b].ok \in SUBSET Slots
      /\ batches[b].bad \in SUBSET Slots
  BY <1>1 DEF Batch
<1> DEFINE done(bad) == [batches[b] EXCEPT !.phase = "done", !.bad = bad]
           asks(r) == [batches[b] EXCEPT !.round = r, !.ok = {}, !.bad = {}]
           fails == [batches[b] EXCEPT !.phase = "failed"]
           waits(ok, bad) == [batches[b] EXCEPT !.ok = ok, !.bad = bad]
<1>4. /\ \A bad \in SUBSET Slots : done(bad) \in Batch /\ done(bad).phase = "done"
      /\ \A r \in 1..2 : asks(r) \in Batch /\ asks(r).phase = batches[b].phase
      /\ fails \in Batch /\ fails.phase = "failed"
      /\ \A ok \in SUBSET Slots, bad \in SUBSET Slots :
           waits(ok, bad) \in Batch /\ waits(ok, bad).phase = batches[b].phase
  <2>0. PICK m \in Batch : m = batches[b]
    BY <1>1
  <2>1. \A bad \in SUBSET Slots : done(bad) \in Batch /\ done(bad).phase = "done"
    BY <2>0 DEF Batch
  <2>2. ASSUME NEW r \in 1..2 PROVE asks(r) \in Batch /\ asks(r).phase = batches[b].phase
    <3>1. asks(r) = [phase |-> m.phase, round |-> r, pending |-> m.pending, ok |-> {}, bad |-> {}]
      <4>1. m = [phase |-> m.phase, round |-> m.round, pending |-> m.pending,
                 ok |-> m.ok, bad |-> m.bad]
        BY DEF Batch
      <4>2. asks(r) = [m EXCEPT !.round = r, !.ok = {}, !.bad = {}]
        BY <2>0
      <4>3. DOMAIN asks(r) = {"phase", "round", "pending", "ok", "bad"}
        BY <4>1, <4>2
      <4>4. asks(r).phase = m.phase /\ asks(r).round = r /\ asks(r).pending = m.pending
            /\ asks(r).ok = {} /\ asks(r).bad = {}
        BY <4>1, <4>2
      <4> HIDE DEF asks
      <4> QED
        BY <4>1, <4>2, <4>3, <4>4
    <3> HIDE DEF asks
    <3> QED
      BY <2>0, <3>1 DEF Batch
  <2>3. fails \in Batch /\ fails.phase = "failed"
    BY <2>0 DEF Batch
  <2>4. \A ok \in SUBSET Slots, bad \in SUBSET Slots :
           waits(ok, bad) \in Batch /\ waits(ok, bad).phase = batches[b].phase
    BY <2>0 DEF Batch
  <2> QED
    BY <2>1, <2>2, <2>3, <2>4
<1>5. ASSUME NEW bad, Finish(b, bad) PROVE batches' = [batches EXCEPT ![b] = done(bad)]
  BY <1>1, <1>5 DEF Finish
<1>6. ASSUME NEW r, AskCells(b, r, c)
      PROVE  /\ batches' = [batches EXCEPT ![b] = asks(r)]
             /\ calls' = (calls \ {c}) \cup CellCalls(b, batches[b].pending, r)
  BY <1>1, <1>6 DEF AskCells
<1>7. ASSUME batches' = [batches EXCEPT ![b].phase = "failed"]
      PROVE  batches' = [batches EXCEPT ![b] = fails]
  BY <1>1, <1>7
<1>8. ASSUME NEW ok, NEW bad, batches' = [batches EXCEPT ![b].ok = ok, ![b].bad = bad]
      PROVE  batches' = [batches EXCEPT ![b] = waits(ok, bad)]
  BY <1>1, <1>8
<1>9. \A S : S \subseteq calls => calls \ S = (calls \ S) \cup {}
  OBVIOUS
<1> HIDE DEF b, done, asks, fails, waits
<1>10. CASE c.round = 0
  <2>1. batches[b].phase = "asking"
    BY <1>10 DEF OInv, OneCall, b
  <2>2. CASE Finish(b, {}) /\ calls' = calls \ {c}
    <3>1. calls' = (calls \ {c}) \cup {}
      BY <2>2
    <3> QED
      BY <1>2, <1>4, <1>5, <1>10, <2>2, <3>1, BatchRepliesKeeps DEF b
  <2>3. ASSUME NEW r \in 1..2, AskCells(b, r, c) PROVE OInv'
    BY <1>2, <1>3, <1>4, <1>6, <1>10, <2>1, <2>3, CellCallsAre, BatchRepliesKeeps DEF b
  <2>4. CASE batches' = [batches EXCEPT ![b].phase = "failed"] /\ calls' = calls \ {c}
    <3>1. calls' = (calls \ {c}) \cup {}
      BY <2>4
    <3> QED
      BY <1>2, <1>4, <1>7, <1>10, <2>4, <3>1, BatchRepliesKeeps DEF b
  <2> QED
    BY <1>10, <2>2, <2>3, <2>4
    DEF Settles, BatchReplies, BatchFails, BatchThrows, CellSettles, b
<1>11. CASE c.round > 0
  <2>0. PICK answered \in BOOLEAN : CellSettles(c, answered)
    BY <1>1, <1>11 DEF Settles, BatchReplies, BatchFails
  <2> DEFINE ok == IF answered THEN batches[b].ok \cup {c.slot} ELSE batches[b].ok
             bad == IF answered THEN batches[b].bad ELSE batches[b].bad \cup {c.slot}
  <2>1. ok \in SUBSET Slots /\ bad \in SUBSET Slots
    BY <1>1, <1>3, <1>11
  <2>2. \/ ~Awaited(c) /\ calls' = calls \ {c} /\ batches' = batches
        \/ Awaited(c) /\ BatchThrows(b, c)
        \/ Awaited(c) /\ calls' = calls \ {c} /\ Finish(b, bad)
        \/ /\ Awaited(c) /\ calls' = calls \ {c}
           /\ batches' = [batches EXCEPT ![b].ok = ok, ![b].bad = bad]
    BY <2>0 DEF CellSettles, b
  <2> HIDE DEF ok, bad
  <2>3. CASE calls' = calls \ {c} /\ batches' = batches
    <3>1. InTurn' /\ Together' /\ SomeBegun' /\ OutIs'
      BY <1>2, <2>3, NoBatchMoves
    <3>2. PassTypeOK' /\ OneCall'
      BY <1>2, <2>3 DEF OInv, PassTypeOK, OneCall
    <3> QED
      BY <3>1, <3>2 DEF OInv
  <2>4. ASSUME Awaited(c), BatchThrows(b, c) PROVE OInv'
    <3>1. CASE AskCells(b, 2, c)
      <4>1. CellCalls(b, batches[b].pending, 2)
              \subseteq [batch : {b}, slot : Slots, round : 1..2, stage : {"waiting"}]
        BY <1>3, CellCallsAre
      <4>2. /\ batches' = [batches EXCEPT ![b] = asks(2)] /\ asks(2) \in Batch
            /\ asks(2).phase = "asking"
            /\ calls' = (calls \ {c}) \cup CellCalls(b, batches[b].pending, 2)
        BY <1>4, <1>6, <2>4, <3>1 DEF b, Awaited
      <4> QED
        BY <1>2, <1>11, <2>4, <4>1, <4>2, CellSettlesKeeps DEF b
    <3>2. CASE batches' = [batches EXCEPT ![b].phase = "failed"] /\ calls' = calls \ {c}
      <4>1. calls' = (calls \ {c}) \cup {}
        BY <3>2
      <4> QED
        BY <1>2, <1>4, <1>7, <1>11, <2>4, <3>2, <4>1, CellSettlesKeeps DEF b
    <3> QED
      BY <2>4, <3>1, <3>2 DEF BatchThrows
  <2>5. ASSUME Awaited(c), calls' = calls \ {c}, Finish(b, bad) PROVE OInv'
    <3>1. calls' = (calls \ {c}) \cup {}
      BY <2>5
    <3> QED
      BY <1>2, <1>4, <1>5, <1>11, <2>1, <2>5, <3>1, CellSettlesKeeps DEF b
  <2>6. ASSUME Awaited(c), calls' = calls \ {c},
               batches' = [batches EXCEPT ![b].ok = ok, ![b].bad = bad]
        PROVE OInv'
    <3>1. calls' = (calls \ {c}) \cup {}
      BY <2>6
    <3>2. waits(ok, bad) \in Batch /\ waits(ok, bad).phase = "asking"
      BY <1>4, <2>1, <2>6 DEF Awaited, b
    <3> QED
      BY <1>2, <1>8, <1>11, <2>6, <3>1, <3>2, CellSettlesKeeps DEF b
  <2> QED
    BY <2>2, <2>3, <2>4, <2>5, <2>6
<1> QED
  BY <1>1, <1>10, <1>11

------------------------------------------------------------------------------
(* The driver.                                                             *)

\* What a batch pushes are items.
LEMMA UncachedIs == \A b \in 1..Count : Uncached(b) \in Seq(Items)
<1> SUFFICES ASSUME NEW b \in 1..Count PROVE Uncached(b) \in Seq(Items)
  OBVIOUS
<1> DEFINE s == [i \in Items |-> i]
           places == {i \in ItemsOf(b) : prompt[i] \notin cellCache}
<1>0. ItemCount \in Nat
  BY SizesAssumption
<1>1. b - 1 \in 0..Count /\ b \in 0..Count
  BY CountIs
<1>2. Through(b - 1) \in 0..ItemCount /\ Through(b) \in 0..ItemCount
  BY <1>1, ThroughIs
<1>3. places \in SUBSET Items
  BY <1>0, <1>2 DEF ItemsOf, Items
<1>4. s \in Seq(Items) /\ DOMAIN s = Items
  BY <1>0, IsSequence DEF Items
<1>5. Uncached(b) = Picked(s, places)
  BY DEF Uncached
<1> HIDE DEF s, places
<1> QED
  BY <1>3, <1>4, <1>5, PickedIs

\* A new group: its batches were queued, so that their calls are the first.
LEMMA StartGroupKeeps == OInv /\ StartGroup => OInv'
<1> SUFFICES ASSUME OInv, StartGroup PROVE OInv'
  OBVIOUS
<1>1. /\ capture \in BOOLEAN /\ batches \in [1..Count -> Batch] /\ group \in Nat
      /\ ItemCount \in Nat
  BY SizesAssumption DEF OInv, PassTypeOK
<1>2. /\ group' = group + 1 /\ out' = out /\ status' = status /\ status = "running"
      /\ capture' = capture /\ Members(group + 1) # {}
      /\ \A b \in Members(group) : batches[b].phase = "out"
  BY DEF StartGroup
<1> DEFINE fresh(b) == Begin(b, Uncached(b))
           new == UNION {FirstCalls(b, Uncached(b)) :
                           b \in {m \in Members(group + 1) : Uncached(m) # <<>>}}
<1>3. Members(group + 1) \subseteq 1..Count
  BY DEF Members
<1>4. \A b \in 1..Count : Uncached(b) \in Seq(Items)
  BY UncachedIs
<1>5. ASSUME NEW b \in Members(group + 1)
      PROVE  /\ fresh(b) \in Batch /\ fresh(b).phase \in {"done", "asking"}
             /\ Uncached(b) # <<>> => fresh(b).phase = "asking"
             /\ Len(Uncached(b)) # 1 => fresh(b).round = 0
  BY <1>3, <1>4 DEF Begin, Batch
<1>6. /\ \A b \in Members(group + 1) : batches'[b] = fresh(b)
      /\ \A b \in 1..Count \ Members(group + 1) : batches'[b] = batches[b]
      /\ batches' = [b \in 1..Count |-> IF b \notin Members(group + 1) THEN batches[b] ELSE fresh(b)]
  BY <1>3 DEF StartGroup
<1>7. calls' = calls \cup new
  BY DEF StartGroup
<1>8. /\ new \subseteq [batch : 1..Count, slot : Nat, round : 0..2,
                        stage : {"waiting", "sent"}]
      /\ \A c \in new : c.round > 0 => c.slot \in Slots
      /\ \A c \in new : c.round = 0 =>
           /\ c.batch \in Members(group + 1) /\ Uncached(c.batch) # <<>>
           /\ Len(Uncached(c.batch)) # 1 /\ c = Call(c.batch, 0, 0)
  <2> SUFFICES ASSUME NEW b \in Members(group + 1), Uncached(b) # <<>>,
                      NEW c \in FirstCalls(b, Uncached(b))
               PROVE  /\ c \in [batch : 1..Count, slot : Nat, round : 0..2,
                                stage : {"waiting", "sent"}]
                      /\ c.round > 0 => c.slot \in Slots
                      /\ c.round = 0 => /\ c.batch = b /\ Len(Uncached(b)) # 1
                                        /\ c = Call(c.batch, 0, 0)
    OBVIOUS
  <2>1. CASE Len(Uncached(b)) = 1
    <3>1. PICK k \in DOMAIN Uncached(b) : c = Call(b, k, 1)
      BY <2>1 DEF FirstCalls, CellCalls
    <3> QED
      BY <1>1, <1>3, <1>4, <3>1 DEF Call, Slots
  <2>2. CASE Len(Uncached(b)) # 1
    <3>1. c = Call(b, 0, 0)
      BY <2>2 DEF FirstCalls
    <3> QED
      BY <1>1, <1>3, <2>2, <3>1 DEF Call
  <2> QED
    BY <2>1, <2>2
<1> HIDE DEF fresh, new
<1>9. PassTypeOK'
  <2>1. batches' \in [1..Count -> Batch]
    BY <1>1, <1>5, <1>6
  <2> QED
    BY <1>1, <1>2, <1>7, <1>8, <2>1 DEF OInv, PassTypeOK
<1>10. /\ Begun(group) \in 0..Count /\ Begun(group) <= Begun(group + 1)
       /\ Members(group + 1) = Begun(group) + 1 .. Begun(group + 1)
       /\ Begun(group + 1) \in 0..Count /\ Count \in Nat /\ (group + 1) - 1 = group
  <2>1. group + 1 \in Nat /\ (group + 1) - 1 = group
    BY <1>1
  <2>2. Begun(group) \in 0..Count /\ Begun(group) <= Begun(group + 1)
        /\ Begun(group + 1) \in 0..Count
    BY <1>1, <2>1, BegunIs
  <2> QED
    BY <1>1, <2>1, <2>2, MembersAre, CountIs
<1>11. \A b \in 1..Count : b <= Begun(group) => batches[b].phase = "out"
  <2> SUFFICES ASSUME NEW b \in 1..Count, b <= Begun(group), ~(b <= Begun(group - 1))
               PROVE  b \in Members(group)
    BY <1>2 DEF OInv, InTurn
  <2>1. CASE group = 0
    BY <1>10, <2>1, BegunIs
  <2>2. CASE group # 0
    <3>1. group - 1 \in Nat /\ (group - 1) + 1 = group
      BY <1>1, <2>2
    <3>2. Members(group) = Begun(group - 1) + 1 .. Begun(group) /\ Begun(group - 1) \in 0..Count
      BY <3>1, MembersAre, BegunIs
    <3> QED
      BY <1>10, <3>2
  <2> QED
    BY <2>1, <2>2
<1>12. \A b \in Members(group + 1) : batches[b].phase = "queued"
  BY <1>3, <1>10 DEF OInv, InTurn
<1>13. Begun(group)' = Begun(group + 1) /\ Begun(group - 1)' = Begun(group)
       /\ Members(group)' = Members(group + 1)
  BY <1>2, <1>10 DEF Begun, Members
<1>14. InTurn'
  <2> SUFFICES ASSUME NEW b \in 1..Count
               PROVE  /\ b <= Begun(group) => batches'[b].phase = "out"
                      /\ Begun(group + 1) < b => batches'[b].phase = "queued"
                      /\ b \in Members(group + 1) => batches'[b].phase # "queued"
    BY <1>13 DEF InTurn
  <2>1. CASE b \in Members(group + 1)
    BY <1>5, <1>6, <1>10, <2>1
  <2>2. CASE b \notin Members(group + 1)
    <3>1. batches'[b] = batches[b]
      BY <1>6, <2>2
    <3>2. Begun(group + 1) < b => Begun(group) < b
      BY <1>10
    <3> QED
      BY <1>11, <2>2, <3>1, <3>2 DEF OInv, InTurn
  <2> QED
    BY <2>1, <2>2
<1>15. Together'
  BY <1>5, <1>6, <1>13 DEF Together
<1>16. SomeBegun'
  BY <1>2, <1>13 DEF SomeBegun
<1>17. OneCall'
  <2>1. \A c \in new : c.round = 0 => batches'[c.batch].phase = "asking"
                                       /\ batches'[c.batch].round = 0
    BY <1>5, <1>6, <1>8
  <2>2. \A c \in calls : c.round = 0 => c.batch \in 1..Count \ Members(group + 1)
    BY <1>12 DEF OInv, OneCall, PassTypeOK
  <2>3. \A c \in calls : c.round = 0 => batches'[c.batch].phase = "asking"
                                         /\ batches'[c.batch].round = 0
    BY <1>6, <2>2 DEF OInv, OneCall
  <2>4. ASSUME NEW c \in calls', NEW d \in calls', c.round = 0, d.round = 0,
               c.batch = d.batch
        PROVE  c = d
    <3>1. CASE c.batch \in Members(group + 1)
      BY <1>7, <1>8, <2>2, <2>4, <3>1
    <3>2. CASE c.batch \notin Members(group + 1)
      BY <1>7, <1>8, <2>4, <3>2 DEF OInv, OneCall
    <3> QED
      BY <3>1, <3>2
  <2> QED
    BY <1>7, <2>1, <2>3, <2>4 DEF OneCall
<1>18. OutIs'
  <2>1. Laid = Begun(group)
    BY <1>2 DEF Laid
  <2>2. PICK b \in Members(group + 1) : batches'[b].phase # "out"
    BY <1>2, <1>5, <1>6
  <2>3. Laid' = Begun(group)
    BY <1>13, <2>2 DEF Laid
  <2> QED
    BY <1>2, <2>1, <2>3 DEF OInv, OutIs, Through
<1> QED
  BY <1>9, <1>14, <1>15, <1>16, <1>17, <1>18 DEF OInv

\* The results of a batch are as many as its items, each in its place.
LEMMA MergedIs ==
  ASSUME NEW b \in 1..Count, NEW pending \in Seq(Items), NEW bad
  PROVE  /\ Merged(b, pending, bad) \in Seq(0..PromptCount)
         /\ Len(Merged(b, pending, bad)) = Through(b) - Through(b - 1)
         /\ \A k \in 1..Through(b) - Through(b - 1) :
              Merged(b, pending, bad)[k] \in {prompt[Through(b - 1) + k], FailedCell}
<1>1. /\ b - 1 \in 0..Count /\ b \in 0..Count
      /\ Through(b - 1) \in 0..ItemCount /\ Through(b) \in 0..ItemCount
      /\ Through(b - 1) < Through(b) /\ ItemCount \in Nat
  <2>1. b - 1 \in 0..Count /\ b \in 0..Count
    BY CountIs
  <2> QED
    BY <2>1, ThroughIs, CountIs
<1>2. \A i \in Items : prompt[i] \in 0..PromptCount
  <2>1. PromptCount \in Nat \ {0} /\ ItemCount \in Nat
    BY SizesAssumption
  <2> SUFFICES ASSUME NEW i \in Items PROVE 1 + ((i - 1) % PromptCount) \in 0..PromptCount
    BY DEF prompt
  <2> QED
    BY <2>1 DEF Items
<1> DEFINE N == Through(b) - Through(b - 1)
           s == Merged(b, pending, bad)
<1>3. N \in Nat /\ \A k \in 1..N : Through(b - 1) + k \in Items
  BY <1>1 DEF Items
<1> DEFINE item(k) == Through(b - 1) + k
           slots(i) == {m \in DOMAIN pending : pending[m] = i}
<1>4. s = [k \in 1..N |-> IF slots(item(k)) # {}
             THEN Fetched(pending, bad)[CHOOSE m \in slots(item(k)) : TRUE]
             ELSE prompt[item(k)]]
  BY DEF Merged
<1> HIDE DEF N
<1>5. ASSUME NEW k \in 1..N
      PROVE  s[k] \in {prompt[item(k)], FailedCell} /\ s[k] \in 0..PromptCount
  <2>1. prompt[item(k)] \in 0..PromptCount /\ FailedCell \in 0..PromptCount
    BY <1>2, <1>3, SizesAssumption DEF FailedCell
  <2>2. CASE slots(item(k)) # {}
    <3> DEFINE slot == CHOOSE m \in slots(item(k)) : TRUE
    <3>1. slot \in slots(item(k))
      BY <2>2
    <3>2. slot \in DOMAIN pending /\ pending[slot] = item(k)
      BY <3>1
    <3>3. s[k] = Fetched(pending, bad)[slot]
      BY <1>4, <2>2
    <3> HIDE DEF slot, slots, item
    <3>4. Fetched(pending, bad)[slot] \in {prompt[pending[slot]], FailedCell}
      BY <3>2 DEF Fetched
    <3>5. s[k] \in {prompt[item(k)], FailedCell}
      BY <3>2, <3>3, <3>4
    <3> QED
      BY <2>1, <3>5
  <2>3. CASE slots(item(k)) = {}
    <3>1. s[k] = prompt[item(k)]
      BY <1>4, <2>3
    <3> HIDE DEF item, slots, s
    <3> QED
      BY <2>1, <3>1
  <2> QED
    BY <2>2, <2>3
<1> HIDE DEF slots
<1>6. s \in [1..N -> 0..PromptCount]
  BY <1>4, <1>5
<1> HIDE DEF s
<1>7. s \in Seq(0..PromptCount) /\ Len(s) = N
  BY <1>3, <1>6, IsSequence
<1> QED
  BY <1>5, <1>7 DEF N, s

\* Laid end to end, the results of a group are those of its items in order.
LEMMA ResultsAre ==
  ASSUME PassTypeOK, group # 0, Members(group) # {}
  PROVE  /\ FlattenSeq(Results) \in Seq(0..PromptCount)
         /\ Len(FlattenSeq(Results)) = Through(Begun(group)) - Through(Begun(group - 1))
         /\ \A n \in DOMAIN FlattenSeq(Results) :
              FlattenSeq(Results)[n] \in {prompt[Through(Begun(group - 1)) + n], FailedCell}
<1> DEFINE S == 0..PromptCount
           first == Begun(group - 1)
           N == Begun(group) - first
           base == Through(first)
           size(k) == Through(first + k) - base
           s == Results
<1>1. /\ group \in Nat /\ group - 1 \in Nat /\ (group - 1) + 1 = group
      /\ ItemCount \in Nat /\ Count \in Nat
  BY CountIs DEF PassTypeOK
<1>2. first \in 0..Count /\ Begun(group) \in 0..Count /\ Members(group) = first + 1 .. Begun(group)
  BY <1>1, BegunIs, MembersAre
<1>3. N \in Nat /\ N > 0 /\ first + N = Begun(group)
  BY <1>1, <1>2
<1> HIDE DEF first
<1>4. ASSUME NEW k \in 0..N PROVE Through(first + k) \in 0..ItemCount /\ base \in 0..ItemCount
  <2>1. first + k \in 0..Count
    BY <1>1, <1>2, <1>3
  <2> QED
    BY <1>2, <2>1, ThroughIs
<1>5. ASSUME NEW k \in 1..N
      PROVE  /\ Through(first + (k - 1)) < Through(first + k) /\ s[k] \in Seq(S)
             /\ Len(s[k]) = Through(first + k) - Through(first + (k - 1))
             /\ \A j \in 1..Len(s[k]) :
                  s[k][j] \in {prompt[Through(first + (k - 1)) + j], FailedCell}
  <2> DEFINE b == first + k
  <2>1. b \in 1..Count /\ b - 1 = first + (k - 1)
    BY <1>1, <1>2, <1>3
  <2>2. s[k] = Merged(b, batches[b].pending, batches[b].bad)
    BY DEF Results, first
  <2> HIDE DEF b
  <2>3. /\ s[k] \in Seq(S) /\ Len(s[k]) = Through(b) - Through(b - 1)
        /\ \A j \in 1..Through(b) - Through(b - 1) :
             s[k][j] \in {prompt[Through(b - 1) + j], FailedCell}
    <3>1. batches[b].pending \in Seq(Items)
      BY <2>1 DEF PassTypeOK, Batch
    <3> QED
      BY <2>1, <2>2, <3>1, MergedIs
  <2>4. Through(b - 1) < Through(b)
    BY <2>1, ThroughIs
  <2> QED
    BY <2>1, <2>3, <2>4 DEF b
<1>6. s \in Seq(Seq(S)) /\ Len(s) = N /\ s # <<>>
  <2>1. s \in [1..N -> Seq(S)]
    <3>1. s = [k \in 1..N |-> LET b == Begun(group - 1) + k
                              IN Merged(b, batches[b].pending, batches[b].bad)]
      BY DEF Results, first
    <3> HIDE DEF s, N
    <3>2. \A k \in 1..N : s[k] \in Seq(S)
      BY <1>5
    <3> QED
      BY <3>1, <3>2
  <2>2. s \in Seq(Seq(S)) /\ Len(s) = N
    BY <1>3, <2>1, IsSequence
  <2> QED
    BY <1>3, <2>2
<1> HIDE DEF s, N, S
<1>7. PICK f \in [1..N -> Seq(S)] :
        /\ f[1] = s[1]
        /\ \A i \in 2..N : f[i] = f[i-1] \o s[i]
        /\ FlattenSeq(s) = f[N]
  BY <1>6, FlattenIs
<1> DEFINE Right(k) == /\ f[k] \in Seq(S) /\ Len(f[k]) = size(k)
                       /\ \A n \in 1..size(k) : f[k][n] \in {prompt[base + n], FailedCell}
           P == {k \in 0..N : k = 0 \/ Right(k)}
<1>8. 1 \in 1..N /\ Right(1)
  <2>1. 1 \in 1..N /\ f[1] = s[1]
    BY <1>3, <1>7
  <2>2. Len(s[1]) = size(1) /\ size(1) \in Nat /\ base = Through(first + (1 - 1))
    BY <1>2, <1>4, <1>5, <2>1
  <2> QED
    BY <1>5, <2>1, <2>2
<1>9. ASSUME NEW k \in 1..N, k - 1 \in P PROVE k \in P
  <2>1. CASE k = 1
    BY <1>8, <2>1
  <2>2. CASE k # 1
    <3>1. k \in 2..N /\ k - 1 \in 1..N /\ Right(k - 1)
      BY <1>9, <2>2
    <3> DEFINE old == f[k-1]
               more == s[k]
               T == Through(first + (k - 1))
    <3>2. f[k] = old \o more /\ old \in Seq(S) /\ more \in Seq(S)
      BY <1>5, <1>7, <3>1
    <3>3. /\ Len(old) = T - base /\ Len(more) = Through(first + k) - T
          /\ T \in 0..ItemCount /\ Through(first + k) \in 0..ItemCount /\ base \in 0..ItemCount
      BY <1>4, <1>5, <3>1
    <3>4. /\ \A n \in 1..Len(old) : old[n] \in {prompt[base + n], FailedCell}
          /\ \A j \in 1..Len(more) : more[j] \in {prompt[T + j], FailedCell}
      BY <1>5, <3>1, <3>3
    <3> HIDE DEF old, more, T, base
    <3>5. /\ f[k] \in Seq(S) /\ Len(f[k]) = Len(old) + Len(more)
          /\ \A n \in 1..Len(old) + Len(more) :
               f[k][n] = IF n <= Len(old) THEN old[n] ELSE more[n - Len(old)]
          /\ Len(old) \in Nat /\ Len(more) \in Nat
      BY <3>2, ConcatProperties
    <3>6. ASSUME NEW n \in 1..Len(old) + Len(more)
          PROVE  f[k][n] \in {prompt[base + n], FailedCell}
      <4>1. CASE n <= Len(old)
        BY <3>4, <3>5, <4>1
      <4>2. CASE ~(n <= Len(old))
        <5>1. n - Len(old) \in 1..Len(more) /\ T + (n - Len(old)) = base + n
          BY <3>3, <3>5, <4>2
        <5> QED
          BY <3>4, <3>5, <4>2, <5>1
      <4> QED
        BY <4>1, <4>2
    <3>7. size(k) = Len(old) + Len(more)
      BY <3>3
    <3> QED
      BY <3>5, <3>6, <3>7
  <2> QED
    BY <2>1, <2>2
<1>10. N \in P
  <2>1. 0 \in P
    BY <1>3
  <2> HIDE DEF P
  <2>2. 0..N \subseteq P
    BY <1>3, <1>9, <2>1, InductionTo
  <2> QED
    BY <1>3, <2>2
<1>11. Right(N)
  BY <1>3, <1>10
<1>12. FlattenSeq(s) = f[N] /\ size(N) = Through(Begun(group)) - base
  BY <1>3, <1>7
<1>13. /\ FlattenSeq(s) \in Seq(S) /\ Len(FlattenSeq(s)) = Through(Begun(group)) - base
       /\ \A n \in 1..Len(FlattenSeq(s)) : FlattenSeq(s)[n] \in {prompt[base + n], FailedCell}
  BY <1>11, <1>12
<1>14. DOMAIN FlattenSeq(s) = 1..Len(FlattenSeq(s))
  BY <1>13, LenProperties
<1> QED
  BY <1>13, <1>14 DEF s, S, first

\* The group leaves: its results follow those of the groups before it.
LEMMA GroupEndsKeeps == OInv /\ GroupEnds => OInv'
<1> SUFFICES ASSUME OInv, GroupEnds PROVE OInv'
  OBVIOUS
<1> DEFINE more == FlattenSeq(Results)
           S == 0..PromptCount
<1>1. /\ group \in Nat /\ group # 0 /\ group' = group /\ status' = status
      /\ status = "running" /\ capture' = capture /\ calls' = calls
      /\ out' = out \o more /\ out \in Seq(S) /\ Members(group) # {}
      /\ \A b \in Members(group) : batches[b].phase = "done"
      /\ batches \in [1..Count -> Batch]
  BY DEF OInv, PassTypeOK, GroupEnds, SomeBegun
<1>2. Members(group) \subseteq 1..Count
  BY DEF Members
<1>3. /\ more \in Seq(S) /\ Len(more) = Through(Begun(group)) - Through(Begun(group - 1))
      /\ \A n \in DOMAIN more : more[n] \in {prompt[Through(Begun(group - 1)) + n], FailedCell}
  BY <1>1, ResultsAre DEF OInv
<1> HIDE DEF more
<1>4. /\ \A b \in Members(group) : batches'[b] = [batches[b] EXCEPT !.phase = "out"]
      /\ \A b \in 1..Count \ Members(group) : batches'[b] = batches[b]
      /\ DOMAIN batches' = 1..Count
      /\ batches' = [b \in 1..Count |-> batches'[b]]
  BY <1>2 DEF GroupEnds
<1>5. ASSUME NEW b \in Members(group)
      PROVE  batches'[b] \in Batch /\ batches'[b].phase = "out"
  <2>1. PICK m \in Batch : m = batches[b]
    BY <1>1, <1>2
  <2> QED
    BY <1>4, <2>1 DEF Batch
<1>6. batches' \in [1..Count -> Batch]
  BY <1>1, <1>4, <1>5
<1>7. Begun(group)' = Begun(group) /\ Begun(group - 1)' = Begun(group - 1)
      /\ Members(group)' = Members(group)
  BY <1>1 DEF Begun, Members
<1>8. /\ group - 1 \in Nat /\ Begun(group) \in 0..Count /\ Begun(group - 1) \in 0..Count
      /\ Count \in Nat /\ ItemCount \in Nat
      /\ Through(Begun(group)) \in 0..ItemCount /\ Through(Begun(group - 1)) \in 0..ItemCount
  <2>1. group - 1 \in Nat
    BY <1>1
  <2>2. Begun(group) \in 0..Count /\ Begun(group - 1) \in 0..Count
    BY <1>1, <2>1, BegunIs
  <2> QED
    BY <2>1, <2>2, ThroughIs, CountIs
<1>9. InTurn'
  <2> SUFFICES ASSUME NEW b \in 1..Count
               PROVE  /\ b <= Begun(group - 1) => batches'[b].phase = "out"
                      /\ Begun(group) < b => batches'[b].phase = "queued"
                      /\ b \in Members(group) => batches'[b].phase # "queued"
    BY <1>7 DEF InTurn
  <2>1. CASE b \in Members(group)
    <3>1. b <= Begun(group)
      BY <2>1 DEF Members
    <3> QED
      BY <1>5, <1>8, <2>1, <3>1
  <2>2. CASE b \notin Members(group)
    BY <1>4, <2>2 DEF OInv, InTurn
  <2> QED
    BY <2>1, <2>2
<1>10. Together' /\ SomeBegun'
  BY <1>5, <1>7, <1>1 DEF Together, SomeBegun
<1>11. OneCall'
  <2>1. ASSUME NEW c \in calls, c.round = 0
        PROVE  batches'[c.batch] = batches[c.batch]
    <3>1. c.batch \in 1..Count /\ batches[c.batch].phase = "asking"
      BY <2>1 DEF OInv, OneCall, PassTypeOK
    <3> QED
      BY <1>1, <1>4, <3>1
  <2> QED
    BY <1>1, <2>1 DEF OInv, OneCall
<1>12. /\ out' \in Seq(S) /\ Len(out') = Len(out) + Len(more)
       /\ \A n \in 1..Len(out) + Len(more) :
            out'[n] = IF n <= Len(out) THEN out[n] ELSE more[n - Len(out)]
       /\ Len(out) \in Nat /\ Len(more) \in Nat
       /\ DOMAIN out = 1..Len(out) /\ DOMAIN more = 1..Len(more) /\ DOMAIN out' = 1..Len(out')
  <2>1. /\ out' \in Seq(S) /\ Len(out') = Len(out) + Len(more)
        /\ \A n \in 1..Len(out) + Len(more) :
             out'[n] = IF n <= Len(out) THEN out[n] ELSE more[n - Len(out)]
    BY <1>1, <1>3, ConcatProperties
  <2> QED
    BY <1>1, <1>3, <2>1, LenProperties
<1>13. PassTypeOK'
  BY <1>1, <1>6, <1>12 DEF OInv, PassTypeOK
<1>14. OutIs'
  <2>1. Len(out) = Through(Begun(group - 1))
    <3>1. PICK b \in Members(group) : batches[b].phase # "out"
      BY <1>1
    <3>2. Laid = Begun(group - 1)
      BY <3>1 DEF Laid
    <3> QED
      BY <3>2 DEF OInv, OutIs
  <2>2. Laid' = Begun(group)
    BY <1>5, <1>7 DEF Laid
  <2>3. Len(out') = Through(Begun(group)) /\ Through(Laid)' = Through(Begun(group))
    <3>1. Through(Laid)' = Through(Laid')
      BY DEF Through
    <3> QED
      BY <1>3, <1>8, <1>12, <2>1, <2>2, <3>1
  <2>4. ASSUME NEW n \in 1..Len(out) + Len(more) PROVE out'[n] \in {prompt[n], FailedCell}
    <3>1. CASE n <= Len(out)
      BY <1>12, <3>1 DEF OInv, OutIs
    <3>2. CASE ~(n <= Len(out))
      <4>1. n - Len(out) \in DOMAIN more /\ Through(Begun(group - 1)) + (n - Len(out)) = n
        BY <1>8, <1>12, <2>1, <3>2
      <4> QED
        BY <1>3, <1>12, <3>2, <4>1
    <3> QED
      BY <3>1, <3>2
  <2> QED
    BY <1>1, <1>12, <2>3, <2>4 DEF OutIs
<1> QED
  BY <1>9, <1>10, <1>11, <1>13, <1>14 DEF OInv

\* The pass is over when every group has left.
LEMMA PassEndsKeeps == OInv /\ PassEnds => OInv'
<1> SUFFICES ASSUME OInv, PassEnds PROVE OInv'
  OBVIOUS
<1>1. /\ batches' = batches /\ group' = group /\ out' = out /\ calls' = calls
      /\ capture' = capture /\ status' = "done" /\ group \in Nat
      /\ \A b \in 1..Count : batches[b].phase = "out"
  BY DEF PassEnds, OInv, PassTypeOK
<1>2. Members(group) \subseteq 1..Count /\ Begun(group) \in 0..Count /\ Count \in Nat
  BY <1>1, BegunIs, CountIs DEF Members
<1>3. Begun(group) = Count
  <2> SUFFICES ASSUME Begun(group) < Count PROVE FALSE
    BY <1>2
  <2>1. Count \in 1..Count
    BY <1>2
  <2> QED
    BY <1>1, <2>1 DEF OInv, InTurn
<1>4. Laid = Count
  BY <1>1, <1>2, <1>3 DEF Laid
<1>5. Len(out) = ItemCount
  BY <1>4, ThroughIs DEF OInv, OutIs
<1>6. InTurn' /\ Together' /\ SomeBegun' /\ OneCall' /\ PassTypeOK'
  BY <1>1 DEF OInv, InTurn, Together, SomeBegun, OneCall, PassTypeOK, Members, Begun
<1>7. Laid' = Laid
  BY <1>1 DEF Laid, Members, Begun
<1>8. OutIs'
  BY <1>1, <1>5, <1>7 DEF OInv, OutIs, Through
<1> QED
  BY <1>6, <1>8 DEF OInv

\* The limiter moves calls on, one to one.
LEMMA AcquireKeepsOrder == OInv /\ (\E c \in calls : Acquire(c)) => OInv'
<1> SUFFICES ASSUME OInv, NEW c \in calls, Acquire(c) PROVE OInv'
  OBVIOUS
<1> DEFINE gone == [c EXCEPT !.stage = "sent"]
           AllCalls == [batch : 1..Count, slot : Nat, round : 0..2,
                     stage : {"waiting", "sent"}]
<1>1. /\ batches' = batches /\ group' = group /\ out' = out /\ status' = status
      /\ capture' = capture /\ calls' = (calls \ {c}) \cup {gone}
  BY DEF Acquire, passVars
<1>2. calls \subseteq AllCalls /\ c \in AllCalls /\ (c.round > 0 => c.slot \in Slots)
  BY DEF OInv, PassTypeOK
<1>3. /\ gone \in AllCalls /\ gone.batch = c.batch /\ gone.round = c.round /\ gone.slot = c.slot
  <2>1. PICK d \in AllCalls : d = c
    BY <1>2
  <2> QED
    BY <2>1
<1> HIDE DEF gone
<1>4. InTurn' /\ Together' /\ SomeBegun' /\ OutIs'
  BY <1>1, NoBatchMoves
<1>5. PassTypeOK'
  BY <1>1, <1>2, <1>3 DEF OInv, PassTypeOK
<1>6. OneCall'
  <2>1. \A d \in calls' : \E e \in calls : /\ e.batch = d.batch /\ e.round = d.round
                                           /\ IF d = gone THEN e = c ELSE e = d /\ d # c
    BY <1>1, <1>3
  <2>2. \A d \in calls' : d.round = 0 =>
          batches[d.batch].phase = "asking" /\ batches[d.batch].round = 0
    BY <2>1 DEF OInv, OneCall
  <2>3. ASSUME NEW d \in calls', NEW e \in calls', d.round = 0, e.round = 0,
               d.batch = e.batch
        PROVE  d = e
    BY <2>1, <2>3 DEF OInv, OneCall
  <2> QED
    BY <1>1, <2>2, <2>3 DEF OneCall
<1> QED
  BY <1>4, <1>5, <1>6 DEF OInv

\* Every step keeps the order.
LEMMA OrderKept == OInv /\ [BatchesNext]_batchesVars => OInv'
<1> SUFFICES ASSUME OInv, [BatchesNext]_batchesVars PROVE OInv'
  OBVIOUS
<1>1. ASSUME batches' = batches, group' = group, out' = out, capture' = capture,
             status' \in {status, "failed", "cancelled"}, calls' \subseteq calls
      PROVE  OInv'
  <2>1. InTurn' /\ Together' /\ SomeBegun' /\ OutIs'
    BY <1>1, NoBatchMoves
  <2>2. PassTypeOK' /\ OneCall'
    BY <1>1 DEF OInv, PassTypeOK, OneCall
  <2> QED
    BY <2>1, <2>2 DEF OInv
<1>2. CASE Tick \/ Abort
  BY <1>1, <1>2 DEF Tick, Abort, passVars
<1>3. CASE PassFails \/ Cancelled
  BY <1>1, <1>3 DEF PassFails, Cancelled
<1>4. CASE UNCHANGED batchesVars
  BY <1>1, <1>4 DEF batchesVars, passVars
<1> QED
  BY <1>2, <1>3, <1>4, StartGroupKeeps, GroupEndsKeeps, PassEndsKeeps, AcquireKeepsOrder,
     SettlesKeeps DEF BatchesNext, Driver

\* Nothing is laid out before a group has begun.
LEMMA OrderStarts == BatchesInit => OInv
<1> SUFFICES ASSUME BatchesInit PROVE OInv
  OBVIOUS
<1>1. /\ capture \in BOOLEAN /\ batches = [b \in 1..Count |-> Fresh] /\ group = 0
      /\ out = <<>> /\ status = "running" /\ calls = {}
  BY DEF BatchesInit
<1>2. Fresh \in Batch /\ Fresh.phase = "queued"
  BY DEF Fresh, Batch
<1>3. /\ Begun(0) = 0 /\ Members(0) = {} /\ Through(0) = 0
      /\ \A b \in 1..Count : ~(b <= Begun(0 - 1))
  BY BegunIs, MembersAre, ThroughIs
<1>4. PassTypeOK
  BY <1>1, <1>2 DEF PassTypeOK
<1>5. InTurn /\ Together /\ SomeBegun
  BY <1>1, <1>2, <1>3 DEF InTurn, Together, SomeBegun
<1>6. OneCall
  BY <1>1 DEF OneCall
<1>7. OutIs
  <2>1. Laid = 0
    BY <1>1, <1>3 DEF Laid
  <2> QED
    BY <1>1, <1>3, <2>1 DEF OutIs
<1> QED
  BY <1>4, <1>5, <1>6, <1>7 DEF OInv

\* The groups leave in turn, and what is laid out is the results of the first
\* items, for any sizes.
THEOREM GroupsLeaveInTurn == BatchesSpec => []OInv
BY OrderStarts, OrderKept, PTL DEF BatchesSpec

\* Every result is at its own item, through cached items, batches that come
\* back out of order and fallbacks, and none is missing when the pass is done
\* (headless/index.ts, applyMutateLlm, runCellBatches, evalLlmBatch).
THEOREM ResultsAlwaysInOrder == BatchesSpec => []ResultsInOrder
<1>1. OInv => ResultsInOrder
  BY DEF OInv, OutIs, ResultsInOrder
<1> QED
  BY <1>1, GroupsLeaveInTurn, PTL

------------------------------------------------------------------------------
(* Tables.                                                                 *)

\* A table has a row for every origin.
Tables ==
  {t \in [Origins -> Row] :
     /\ \A i \in Origins, j \in Origins : t[i].origin = t[j].origin => i = j
     /\ \A o \in Origins : \E i \in Origins : t[i].origin = o}

\* The sizes.
LEMMA HeightIs == Height \in Nat \ {0} /\ PageSize \in Nat \ {0} /\ Origins = 1..Height
BY LazyAssumption DEF Origins

\* The source is a table, its rows in place.
LEMMA SourceIs ==
  /\ Source \in Tables
  /\ \A i \in Origins : Source[i].origin = i /\ Source[i].cell = "none"
BY DEF Source, Tables, Row, Cell

\* An origin's cell is that of its row.
LEMMA CellOfIs ==
  ASSUME NEW t \in Tables
  PROVE  /\ \A i \in Origins : CellOf(t, t[i].origin) = t[i].cell
         /\ \A o \in Origins : \E i \in Origins : t[i].origin = o /\ t[i].cell = CellOf(t, o)
<1>1. /\ DOMAIN t = Origins
      /\ \A i \in Origins, j \in Origins : t[i].origin = t[j].origin => i = j
      /\ \A o \in Origins : \E i \in Origins : t[i].origin = o
  BY DEF Tables
<1>2. ASSUME NEW i \in Origins PROVE CellOf(t, t[i].origin) = t[i].cell
  <2> DEFINE k == CHOOSE k \in DOMAIN t : t[k].origin = t[i].origin
  <2>1. k \in Origins /\ t[k].origin = t[i].origin
    BY <1>1
  <2>2. k = i
    BY <1>1, <2>1
  <2> QED
    BY <2>2 DEF CellOf
<1> QED
  BY <1>1, <1>2

\* The cell a replay gives to a source row.
Fill(o, target, bad, known) ==
  IF o \in bad THEN "failed"
  ELSE IF o \in target \/ Prompt(o) \in known THEN "value" ELSE "pending"

\* The AI step gives each row the cell its filter says, and moves none.
LEMMA FilledIs ==
  ASSUME NEW t \in Tables, NEW target, NEW bad, NEW known
  PROVE  /\ Filled(t, target, bad, known) \in Tables
         /\ \A i \in Origins :
              /\ Filled(t, target, bad, known)[i].origin = t[i].origin
              /\ Filled(t, target, bad, known)[i].cell = Fill(t[i].origin, target, bad, known)
<1> DEFINE u == Filled(t, target, bad, known)
<1>1. t \in [Origins -> Row] /\ DOMAIN t = Origins
  BY DEF Tables
<1>2. u = [i \in Origins |-> [t[i] EXCEPT !.cell = Fill(t[i].origin, target, bad, known)]]
  BY <1>1 DEF Filled, Fill
<1>3. ASSUME NEW i \in Origins
      PROVE  /\ u[i] \in Row /\ u[i].origin = t[i].origin
             /\ u[i].cell = Fill(t[i].origin, target, bad, known)
  <2>1. PICK r \in Row : r = t[i]
    BY <1>1
  <2>2. Fill(r.origin, target, bad, known) \in Cell
    BY DEF Fill, Cell
  <2>3. u[i] = [r EXCEPT !.cell = Fill(r.origin, target, bad, known)]
    BY <1>2, <2>1
  <2> QED
    BY <2>1, <2>2, <2>3 DEF Row
<1>4. u \in [Origins -> Row]
  BY <1>2, <1>3
<1> HIDE DEF u
<1>5. u \in Tables
  BY <1>3, <1>4 DEF Tables
<1> QED
  BY <1>3, <1>5 DEF u

\* A table with its rows in another order is one.
LEMMA ReorderedIs ==
  ASSUME NEW t \in Tables, NEW u, NEW at \in [Origins -> Origins],
         u = [k \in Origins |-> t[at[k]]],
         \A i \in Origins : \E k \in Origins : at[k] = i,
         \A k \in Origins, m \in Origins : at[k] = at[m] => k = m
  PROVE  u \in Tables /\ \A o \in Origins : CellOf(u, o) = CellOf(t, o)
<1>1. u \in Tables
  <2>1. /\ t \in [Origins -> Row]
        /\ \A i \in Origins, j \in Origins : t[i].origin = t[j].origin => i = j
        /\ \A o \in Origins : \E i \in Origins : t[i].origin = o
    BY DEF Tables
  <2>2. u \in [Origins -> Row] /\ \A k \in Origins : u[k] = t[at[k]] /\ at[k] \in Origins
    BY <2>1
  <2>3. \A k \in Origins, m \in Origins : u[k].origin = u[m].origin => k = m
    BY <2>1, <2>2
  <2>4. ASSUME NEW o \in Origins PROVE \E k \in Origins : u[k].origin = o
    <3>1. PICK i \in Origins : t[i].origin = o
      BY <2>1
    <3>2. PICK k \in Origins : at[k] = i
      OBVIOUS
    <3> QED
      BY <2>2, <3>1, <3>2
  <2> QED
    BY <2>2, <2>3, <2>4 DEF Tables
<1>2. ASSUME NEW o \in Origins PROVE CellOf(u, o) = CellOf(t, o)
  <2>1. PICK k \in Origins : u[k].origin = o /\ u[k].cell = CellOf(u, o)
    BY <1>1, CellOfIs
  <2>2. at[k] \in Origins /\ t[at[k]] = u[k]
    OBVIOUS
  <2>3. CellOf(t, t[at[k]].origin) = t[at[k]].cell
    BY <2>2, CellOfIs
  <2> QED
    BY <2>1, <2>2, <2>3
<1> QED
  BY <1>1, <1>2

\* The sort by a source column moves rows and keeps their cells.
LEMMA FlippedIs ==
  ASSUME NEW t \in Tables
  PROVE  /\ Flipped(t) \in Tables
         /\ \A o \in Origins : CellOf(Flipped(t), o) = CellOf(t, o)
         /\ \A k \in Origins : Flipped(t)[k].origin = Height + 1 - k
<1> DEFINE at == [k \in Origins |-> CHOOSE i \in Origins : t[i].origin = Height + 1 - k]
<1>1. /\ DOMAIN t = Origins
      /\ \A i \in Origins, j \in Origins : t[i].origin = t[j].origin => i = j
      /\ \A o \in Origins : \E i \in Origins : t[i].origin = o
      /\ \A i \in Origins : t[i].origin \in Origins
  BY DEF Tables, Row
<1>2. ASSUME NEW k \in Origins PROVE at[k] \in Origins /\ t[at[k]].origin = Height + 1 - k
  <2>1. Height + 1 - k \in Origins
    BY HeightIs
  <2>2. \E i \in Origins : t[i].origin = Height + 1 - k
    BY <1>1, <2>1
  <2> QED
    BY <2>2
<1>3. at \in [Origins -> Origins]
  BY <1>2
<1>4. Flipped(t) = [k \in Origins |-> t[at[k]]]
  BY <1>1 DEF Flipped
<1> HIDE DEF at
<1>5. ASSUME NEW i \in Origins PROVE \E k \in Origins : at[k] = i
  <2> DEFINE k == Height + 1 - t[i].origin
  <2>1. k \in Origins /\ Height + 1 - k = t[i].origin
    <3>1. PICK o \in Origins : o = t[i].origin
      BY <1>1
    <3> QED
      BY <3>1, HeightIs
  <2> HIDE DEF k
  <2>2. t[at[k]].origin = t[i].origin /\ at[k] \in Origins
    BY <1>2, <2>1
  <2> QED
    BY <1>1, <2>1, <2>2
<1>6. ASSUME NEW k \in Origins, NEW m \in Origins, at[k] = at[m] PROVE k = m
  <2>1. Height + 1 - k = Height + 1 - m
    BY <1>2, <1>6
  <2> QED
    BY <2>1, HeightIs
<1>7. Flipped(t) \in Tables /\ \A o \in Origins : CellOf(Flipped(t), o) = CellOf(t, o)
  BY <1>3, <1>4, <1>5, <1>6, ReorderedIs
<1>8. \A k \in Origins : Flipped(t)[k].origin = Height + 1 - k
  BY <1>2, <1>4
<1> QED
  BY <1>7, <1>8

\* The sort by the answers is a total order, ties broken by place.
LEMMA BeforeIs ==
  ASSUME NEW t \in Tables
  PROVE  TotalOrder(Before(t), Origins)
<1>1. /\ DOMAIN t = Origins /\ Origins = 1..Height /\ Height \in Nat
      /\ \A i \in Origins : t[i].origin \in Nat
  BY HeightIs DEF Tables, Row
<1>2. \A o \in Nat : Prompt(o) \in Int
  BY LazyAssumption DEF Prompt
<1> DEFINE p(i) == Prompt(t[i].origin)
           v(i) == t[i].cell = "value"
           first(i, j) == v(i) /\ (v(j) => p(i) < p(j))
<1>3. \A i \in 1..Height : p(i) \in Int
  BY <1>1, <1>2
<1>4. \A i \in 1..Height, j \in 1..Height :
        <<i, j>> \in Before(t) <=> first(i, j) \/ (i < j /\ ~first(j, i))
  BY <1>1 DEF Before, SortsFirst
<1> HIDE DEF p, v
<1>5. \A i \in 1..Height : <<i, i>> \notin Before(t)
  BY <1>3, <1>4
<1>6. \A i \in 1..Height, j \in 1..Height :
        i = j \/ <<i, j>> \in Before(t) \/ <<j, i>> \in Before(t)
  <2> SUFFICES ASSUME NEW i \in 1..Height, NEW j \in 1..Height, i # j
               PROVE  <<i, j>> \in Before(t) \/ <<j, i>> \in Before(t)
    OBVIOUS
  <2>1. CASE first(i, j) \/ first(j, i)
    BY <1>4, <2>1
  <2>2. CASE ~first(i, j) /\ ~first(j, i)
    <3>1. i < j \/ j < i
      BY <1>1
    <3> QED
      BY <1>4, <2>2, <3>1
  <2> QED
    BY <2>1, <2>2
<1>7. ASSUME NEW i \in 1..Height, NEW j \in 1..Height, NEW k \in 1..Height,
             <<i, j>> \in Before(t), <<j, k>> \in Before(t)
      PROVE  <<i, k>> \in Before(t)
  BY <1>3, <1>4, <1>7
<1> QED
  BY <1>1, <1>5, <1>6, <1>7 DEF TotalOrder

\* So does the sort by the answers, wherever it puts them.
LEMMA RankedIs ==
  ASSUME NEW t \in Tables
  PROVE  /\ Ranked(t) \in Tables
         /\ \A o \in Origins : CellOf(Ranked(t), o) = CellOf(t, o)
<1> DEFINE R == Before(t)
           at == [k \in Origins |-> CHOOSE i \in Origins : RankIn(R, Origins, i) = k]
<1>1. DOMAIN t = Origins /\ Origins = 1..Height /\ Height \in Nat
  BY HeightIs DEF Tables
<1>2. TotalOrder(R, Origins)
  BY BeforeIs
<1> HIDE DEF R
<1>3. /\ \A i \in Origins : RankIn(R, Origins, i) \in Origins
      /\ \A i \in Origins, j \in Origins : RankIn(R, Origins, i) = RankIn(R, Origins, j) => i = j
      /\ \A k \in Origins : \E i \in Origins : RankIn(R, Origins, i) = k
  <2>1. IsFiniteSet(Origins) /\ Cardinality(Origins) = Height
    BY <1>1, FS_Interval
  <2>2. /\ \A i \in Origins : RankIn(R, Origins, i) \in 1..Cardinality(Origins)
        /\ \A i \in Origins, j \in Origins : RankIn(R, Origins, i) = RankIn(R, Origins, j) => i = j
        /\ \A k \in 1..Cardinality(Origins) : \E i \in Origins : RankIn(R, Origins, i) = k
    BY <1>2, <2>1, RanksAre
  <2> QED
    BY <1>1, <2>1, <2>2
<1>4. \A k \in Origins : at[k] \in Origins /\ RankIn(R, Origins, at[k]) = k
  BY <1>3
<1>5. Ranked(t) = [k \in Origins |-> t[at[k]]]
  BY <1>1 DEF Ranked, RankIn, R
<1> HIDE DEF at
<1>6. at \in [Origins -> Origins]
  <2>1. at = [k \in Origins |-> at[k]]
    BY DEF at
  <2> QED
    BY <1>4, <2>1
<1>7. ASSUME NEW i \in Origins PROVE \E k \in Origins : at[k] = i
  BY <1>3, <1>4
<1>8. ASSUME NEW k \in Origins, NEW m \in Origins, at[k] = at[m] PROVE k = m
  BY <1>4, <1>8
<1> QED
  BY <1>5, <1>6, <1>7, <1>8, ReorderedIs

------------------------------------------------------------------------------
(* Replays.                                                                *)

StepKind == {"ai", "flip", "rank"}

\* What one step of a plan leaves.
LEMMA AppliedIs ==
  ASSUME NEW step \in StepKind, NEW t \in Tables, NEW target, NEW bad, NEW known
  PROVE  LET u == Applied(step, t, target, bad, known)
         IN  /\ u \in Tables
             /\ \A o \in Origins : CellOf(u, o) =
                  IF step = "ai" THEN Fill(o, target, bad, known) ELSE CellOf(t, o)
             /\ step = "ai" => \A i \in Origins : u[i].origin = t[i].origin
             /\ step = "flip" => \A i \in Origins : u[i].origin = Height + 1 - i
<1>1. CASE step = "ai"
  <2> DEFINE u == Filled(t, target, bad, known)
  <2>1. /\ u \in Tables
        /\ \A i \in Origins :
             u[i].origin = t[i].origin /\ u[i].cell = Fill(t[i].origin, target, bad, known)
    BY FilledIs
  <2> HIDE DEF u
  <2>2. ASSUME NEW o \in Origins PROVE CellOf(u, o) = Fill(o, target, bad, known)
    <3>1. PICK i \in Origins : u[i].origin = o /\ u[i].cell = CellOf(u, o)
      BY <2>1, CellOfIs
    <3> QED
      BY <2>1, <3>1
  <2>3. Applied(step, t, target, bad, known) = u
    BY <1>1 DEF Applied, u
  <2> QED
    BY <1>1, <2>1, <2>2, <2>3
<1>2. CASE step = "flip"
  <2>1. Applied(step, t, target, bad, known) = Flipped(t)
    BY <1>2 DEF Applied
  <2> QED
    BY <1>2, <2>1, FlippedIs
<1>3. CASE step = "rank"
  <2>1. Applied(step, t, target, bad, known) = Ranked(t)
    BY <1>3 DEF Applied
  <2> QED
    BY <1>3, <2>1, RankedIs
<1> QED
  BY <1>1, <1>2, <1>3 DEF StepKind

\* A run unfolds from its start, step by step.
LEMMA RunUnfolds ==
  ASSUME NEW from \in Tables, NEW steps \in Seq(StepKind), NEW target, NEW bad, NEW known
  PROVE  \E f \in [0..Len(steps) -> Tables] :
           /\ f[0] = from
           /\ \A n \in 1..Len(steps) : f[n] = Applied(steps[n], f[n - 1], target, bad, known)
           /\ Run(from, steps, target, bad, known) = f[Len(steps)]
<1>0. PICK N \in Nat : N = Len(steps) /\ \A n \in 1..N : steps[n] \in StepKind
  OBVIOUS
<1> DEFINE Body(g) == [n \in 0..N |-> IF n = 0 THEN from
                         ELSE Applied(steps[n], g[n - 1], target, bad, known)]
           after == CHOOSE g : g = Body(g)
           step == [p \in Tables \X (1..N) |-> Applied(steps[p[2]], p[1], target, bad, known)]
<1>1. step \in [Tables \X (1..N) -> Tables]
  <2> SUFFICES ASSUME NEW p \in Tables \X (1..N)
               PROVE  Applied(steps[p[2]], p[1], target, bad, known) \in Tables
    OBVIOUS
  <2>1. steps[p[2]] \in StepKind /\ p[1] \in Tables
    BY <1>0
  <2> QED
    BY <2>1, AppliedIs
<1>2. PICK f \in [0..N -> Tables] : Unfolds(f, N, from, step)
  <2> HIDE DEF step
  <2> QED
    BY <1>1, RecursionTo
<1>3. ASSUME NEW n \in 1..N
      PROVE  f[n] = Applied(steps[n], f[n - 1], target, bad, known)
  <2>1. n - 1 \in 0..N
    OBVIOUS
  <2>2. <<f[n - 1], n>> \in Tables \X (1..N)
    BY <2>1
  <2>3. step[<<f[n - 1], n>>] = Applied(steps[n], f[n - 1], target, bad, known)
    BY <2>2
  <2> HIDE DEF step
  <2> QED
    BY <1>2, <2>3 DEF Unfolds
<1>4. f[0] = from
  BY <1>2 DEF Unfolds
<1>5. f = Body(f)
  <2>1. ASSUME NEW n \in 0..N
        PROVE  f[n] = IF n = 0 THEN from ELSE Applied(steps[n], f[n - 1], target, bad, known)
    <3>1. CASE n = 0
      BY <1>4, <3>1
    <3>2. CASE n # 0
      <4>1. n \in 1..N
        BY <3>2
      <4> QED
        BY <1>3, <3>2, <4>1
    <3> QED
      BY <3>1, <3>2
  <2> QED
    BY <2>1, Zenon
<1>6. after = Body(after)
  <2> HIDE DEF Body
  <2> QED
    BY <1>5
<1>7. ASSUME NEW n \in 0..N
      PROVE  after[n] = IF n = 0 THEN from
                        ELSE Applied(steps[n], after[n - 1], target, bad, known)
  <2> HIDE DEF after
  <2> QED
    BY <1>6, Zenon
<1> HIDE DEF after, step
<1>8. \A n \in 0..N : after[n] = f[n]
  <2> DEFINE P == {n \in 0..N : after[n] = f[n]}
  <2>1. 0 \in P
    <3>1. 0 \in 0..N
      BY <1>0
    <3> QED
      BY <1>4, <1>7, <3>1
  <2>2. ASSUME NEW n \in 1..N, n - 1 \in P PROVE n \in P
    <3>1. n \in 0..N /\ n # 0 /\ after[n - 1] = f[n - 1]
      BY <2>2
    <3>2. after[n] = Applied(steps[n], after[n - 1], target, bad, known)
      BY <1>7, <3>1
    <3> QED
      BY <1>3, <3>1, <3>2
  <2> HIDE DEF P
  <2>3. 0..N \subseteq P
    BY <2>1, <2>2, InductionTo
  <2> QED
    BY <2>3 DEF P
<1>9. Run(from, steps, target, bad, known) = after[N]
  BY <1>0 DEF Run, after
<1>10. N \in 0..N
  BY <1>0
<1> QED
  BY <1>0, <1>2, <1>3, <1>4, <1>8, <1>9, <1>10

\* What a run leaves: a cell is the filter's where the AI step is among the
\* steps, and without a sort by it the places are known.
LEMMA RunIs ==
  ASSUME NEW from \in Tables, NEW steps \in Seq(StepKind), NEW target, NEW bad, NEW known
  PROVE  LET t == Run(from, steps, target, bad, known)
         IN  /\ t \in Tables
             /\ \A o \in Origins : CellOf(t, o) =
                  IF "ai" \in ToSet(steps) THEN Fill(o, target, bad, known) ELSE CellOf(from, o)
             /\ "rank" \notin ToSet(steps) => \A i \in Origins :
                  t[i].origin = IF "flip" \in ToSet(steps) THEN Height + 1 - i ELSE from[i].origin
<1>0. PICK N \in Nat : N = Len(steps) /\ DOMAIN steps = 1..N /\ \A n \in 1..N : steps[n] \in StepKind
  OBVIOUS
<1>1. PICK f \in [0..N -> Tables] :
        /\ f[0] = from
        /\ \A n \in 1..N : f[n] = Applied(steps[n], f[n - 1], target, bad, known)
        /\ Run(from, steps, target, bad, known) = f[N]
  <2>1. PICK f \in [0..Len(steps) -> Tables] :
          /\ f[0] = from
          /\ \A n \in 1..Len(steps) : f[n] = Applied(steps[n], f[n - 1], target, bad, known)
          /\ Run(from, steps, target, bad, known) = f[Len(steps)]
    BY RunUnfolds
  <2> QED
    BY <1>0, <2>1
<1> DEFINE Seen(n, kind) == \E m \in 1..n : steps[m] = kind
           Cells(n) == \A o \in Origins : CellOf(f[n], o) =
             IF Seen(n, "ai") THEN Fill(o, target, bad, known) ELSE CellOf(from, o)
           Places(n) == ~Seen(n, "rank") => \A i \in Origins :
             f[n][i].origin = IF Seen(n, "flip") THEN Height + 1 - i ELSE from[i].origin
           P == {n \in 0..N : Cells(n) /\ Places(n)}
<1>2. 0 \in P
  <2>1. \A kind : ~Seen(0, kind)
    OBVIOUS
  <2>2. 0 \in 0..N
    BY <1>0
  <2> HIDE DEF Seen
  <2> QED
    BY <1>1, <2>1, <2>2
<1>3. ASSUME NEW n \in 1..N, n - 1 \in P PROVE n \in P
  <2>1. n - 1 \in 0..N /\ n \in 0..N /\ f[n - 1] \in Tables /\ steps[n] \in StepKind
    BY <1>0
  <2>2. \A kind : Seen(n, kind) <=> Seen(n - 1, kind) \/ steps[n] = kind
    <3>1. 1..n = (1..n-1) \cup {n}
      OBVIOUS
    <3> QED
      BY <3>1
  <2> DEFINE u == f[n]
  <2>3. u = Applied(steps[n], f[n - 1], target, bad, known)
    BY <1>1
  <2>4. /\ \A o \in Origins : CellOf(u, o) =
             IF steps[n] = "ai" THEN Fill(o, target, bad, known) ELSE CellOf(f[n - 1], o)
        /\ steps[n] = "ai" => \A i \in Origins : u[i].origin = f[n - 1][i].origin
        /\ steps[n] = "flip" => \A i \in Origins : u[i].origin = Height + 1 - i
    BY <2>1, <2>3, AppliedIs
  <2>5. Cells(n - 1) /\ Places(n - 1)
    BY <1>3
  <2> HIDE DEF Seen
  <2>6. Cells(n)
    BY <2>2, <2>4, <2>5
  <2>7. Places(n)
    <3>1. CASE steps[n] = "rank"
      BY <2>2, <3>1
    <3>2. CASE steps[n] = "ai"
      BY <2>2, <2>4, <2>5, <3>2
    <3>3. CASE steps[n] = "flip"
      BY <2>2, <2>4, <2>5, <3>3
    <3> QED
      BY <2>1, <3>1, <3>2, <3>3 DEF StepKind
  <2> QED
    BY <2>1, <2>6, <2>7
<1> HIDE DEF P
<1>4. 0..N \subseteq P
  BY <1>2, <1>3, InductionTo
<1>5. N \in 0..N
  BY <1>0
<1>6. Cells(N) /\ Places(N)
  BY <1>4, <1>5 DEF P
<1>7. \A kind : kind \in ToSet(steps) <=> Seen(N, kind)
  BY <1>0 DEF ToSet
<1> HIDE DEF Seen
<1> QED
  BY <1>1, <1>5, <1>6, <1>7

------------------------------------------------------------------------------
(* The invariant.                                                          *)

EvalTypeOK ==
  /\ spec \in Plans /\ rows \in Tables
  /\ line \in Seq(Plans) /\ cursor \in 1..Len(line) /\ line[cursor] = spec
  /\ Len(line) <= MaxLine
  /\ cache \subseteq 1..Prompts /\ failedInfo \subseteq Origins /\ sent \subseteq Origins

Banked == \A o \in Origins : CellOf(rows, o) = "value" => Prompt(o) \in cache

\* Without a sort by the answers a row's place follows from the plan.
PlaceOf(plan, i) == IF "flip" \in ToSet(plan) THEN Height + 1 - i ELSE i
Placed == "rank" \notin ToSet(spec) => \A i \in Origins : rows[i].origin = PlaceOf(spec, i)

EvalInv == EvalTypeOK /\ Banked /\ Placed

\* The steps are finitely many.
LEMMA StepIs == IsFiniteSet(Step) /\ Cardinality(Step) \in Nat
<1>1. IsFiniteSet({"ai"})
  BY FS_Singleton
<1>2. IsFiniteSet({"ai"} \cup {"flip"})
  BY <1>1, FS_AddElement
<1>3. IsFiniteSet(({"ai"} \cup {"flip"}) \cup {"rank"})
  BY <1>2, FS_AddElement
<1>4. Step \in SUBSET (({"ai"} \cup {"flip"}) \cup {"rank"})
  BY LazyAssumption
<1> QED
  BY <1>3, <1>4, FS_Subset, FS_CardinalityType

\* Plans are sequences of steps, the empty one among them.
LEMMA PlansAre ==
  /\ \A p \in Plans : p \in Seq(StepKind) /\ IsInjective(p)
  /\ <<>> \in Plans
<1>1. ASSUME NEW p \in Plans PROVE p \in Seq(StepKind) /\ IsInjective(p)
  <2>1. PICK n \in Nat : p \in [1..n -> Step] /\ IsInjective(p)
    <3>1. PICK n \in 0..Cardinality(Step) : p \in [1..n -> Step] /\ IsInjective(p)
      BY DEF Plans
    <3>2. Cardinality(Step) \in Nat
      BY StepIs
    <3> QED
      BY <3>1, <3>2
  <2>2. p \in [1..n -> StepKind]
    BY <2>1, LazyAssumption DEF StepKind
  <2> QED
    BY <2>1, <2>2, IsSequence
<1>2. <<>> \in Plans
  <2>2. <<>> \in [1..0 -> Step] /\ 0 \in 0..Cardinality(Step)
    BY StepIs
  <2>3. IsInjective(<<>>) /\ DOMAIN <<>> = {}
    BY DEF IsInjective
  <2>4. \A i \in DOMAIN <<>> : <<>>[i] = "rank" => \E j \in 1..i : <<>>[j] = "ai"
    BY <2>3
  <2> QED
    BY <2>2, <2>3, <2>4 DEF Plans
<1> QED
  BY <1>1, <1>2

\* What a plan that grows has is what it had and what it runs.
LEMMA GrownIs ==
  ASSUME NEW s \in Seq(StepKind), NEW p \in Seq(StepKind), IsPrefix(s, p)
  PROVE  /\ SubSeq(p, Len(s) + 1, Len(p)) \in Seq(StepKind)
         /\ ToSet(p) = ToSet(s) \cup ToSet(SubSeq(p, Len(s) + 1, Len(p)))
         /\ IsInjective(p) => ToSet(s) \cap ToSet(SubSeq(p, Len(s) + 1, Len(p))) = {}
<1> DEFINE m == Len(s)
           n == Len(p)
           r == SubSeq(p, m + 1, n)
<1>1. /\ m \in Nat /\ n \in Nat /\ m <= n /\ DOMAIN s = 1..m /\ DOMAIN p = 1..n
      /\ \A i \in 1..n : p[i] \in StepKind
  BY DEF IsPrefix
<1>2. /\ r \in Seq(StepKind) /\ Len(r) = n - m /\ DOMAIN r = 1..n - m
      /\ \A i \in 1..n - m : r[i] = p[m + i]
  <2>1. \A i \in m + 1..n : p[i] \in StepKind
    BY <1>1
  <2>2. /\ r \in Seq(StepKind)
        /\ Len(r) = IF m + 1 <= n THEN n - (m + 1) + 1 ELSE 0
        /\ \A i \in 1..n - (m + 1) + 1 : r[i] = p[m + 1 + i - 1]
    BY <1>1, <2>1, SubSeqProperties
  <2> HIDE DEF m, n, r
  <2>3. Len(r) = n - m
    BY <1>1, <2>2
  <2>4. DOMAIN r = 1..Len(r)
    BY <2>2, LenProperties
  <2> QED
    BY <1>1, <2>2, <2>3, <2>4
<1>3. \A i \in 1..m : s[i] = p[i]
  <2>1. SubSeq(s, 1, m) = SubSeq(p, 1, m)
    BY DEF IsPrefix
  <2>2. \A i \in 1..m : SubSeq(s, 1, m)[i] = s[i] /\ SubSeq(p, 1, m)[i] = p[i]
    BY <1>1, SubSeqProperties
  <2> QED
    BY <2>1, <2>2
<1> HIDE DEF m, n, r
<1>4. \A x : x \in ToSet(p) <=> x \in ToSet(s) \/ x \in ToSet(r)
  <2> SUFFICES ASSUME NEW x PROVE x \in ToSet(p) <=> x \in ToSet(s) \/ x \in ToSet(r)
    OBVIOUS
  <2>1. ASSUME NEW i \in 1..n, p[i] = x PROVE x \in ToSet(s) \/ x \in ToSet(r)
    <3>1. CASE i <= m
      BY <1>1, <1>3, <2>1, <3>1 DEF ToSet
    <3>2. CASE ~(i <= m)
      <4>1. i - m \in 1..n - m /\ m + (i - m) = i
        BY <1>1, <3>2
      <4> QED
        BY <1>2, <2>1, <4>1 DEF ToSet
    <3> QED
      BY <3>1, <3>2
  <2>2. ASSUME NEW i \in 1..m, s[i] = x PROVE x \in ToSet(p)
    BY <1>1, <1>3, <2>2 DEF ToSet
  <2>3. ASSUME NEW i \in 1..n - m, r[i] = x PROVE x \in ToSet(p)
    <3>1. m + i \in 1..n
      BY <1>1
    <3> QED
      BY <1>1, <1>2, <2>3, <3>1 DEF ToSet
  <2> QED
    BY <1>1, <1>2, <2>1, <2>2, <2>3 DEF ToSet
<1>5. ASSUME IsInjective(p), NEW i \in 1..m, NEW j \in 1..n - m PROVE s[i] # r[j]
  <2>1. i \in 1..n /\ m + j \in 1..n /\ i # m + j
    BY <1>1
  <2> QED
    BY <1>1, <1>2, <1>3, <1>5, <2>1 DEF IsInjective
<1>6. IsInjective(p) => ToSet(s) \cap ToSet(r) = {}
  BY <1>1, <1>2, <1>5 DEF ToSet
<1> QED
  BY <1>2, <1>4, <1>6 DEF m, n, r

\* A fresh replay runs the whole plan.
LEMMA FreshRuns ==
  ASSUME NEW plan \in Plans
  PROVE  ToRun(plan, TRUE) = plan
<1>1. plan \in Seq(StepKind)
  BY PlansAre
<1>2. Len(plan) \in Nat /\ \A i \in 1..Len(plan) : plan[i] \in StepKind
  BY <1>1
<1> DEFINE rest == SubSeq(plan, 1, Len(plan))
<1>3. /\ rest \in Seq(StepKind) /\ Len(rest) = Len(plan)
      /\ \A i \in 1..Len(plan) : rest[i] = plan[i]
  BY <1>2, SubSeqProperties
<1> HIDE DEF rest
<1>4. rest = plan
  BY <1>1, <1>3, SeqEqual
<1> QED
  BY <1>4 DEF ToRun, Reused, rest

\* Names for what a replay and a pass leave.
ReplaysTo(t, plan, fresh, target, bad, known) == t = Replay(plan, fresh, target, bad, known)
LandsAs(u, target, bad, known, info) == u = Landed(target, bad, known, info)
SamePlaces(u, t) == \A i \in Origins : u[i].origin = t[i].origin
PlacedBy(t, plan) == "rank" \notin ToSet(plan) => \A i \in Origins : t[i].origin = PlaceOf(plan, i)
CellsBy(t, plan, fresh, target, bad, known) ==
  \A o \in Origins :
    \/ HasAi(ToRun(plan, fresh)) /\ CellOf(t, o) = Fill(o, target, bad, known)
    \/ ~HasAi(ToRun(plan, fresh)) /\ ~fresh /\ CellOf(t, o) = CellOf(rows, o)
    \/ ~HasAi(plan) /\ CellOf(t, o) = "none"
MarkedAs(u, after, target, info) ==
  \A i \in Origins : u[i].cell =
    IF target # {} /\ i \notin target /\ rows[i].cell = "pending" THEN "pending"
    ELSE IF after[i].cell = "pending" /\ i \in info THEN "failed"
    ELSE after[i].cell

\* What a replay leaves.
LEMMA ReplayIs ==
  ASSUME EvalInv, NEW plan \in Plans, NEW fresh \in BOOLEAN,
         NEW target, NEW bad, NEW known,
         NEW t, ReplaysTo(t, plan, fresh, target, bad, known)
  PROVE  /\ t \in Tables
         /\ PlacedBy(t, plan)
         /\ CellsBy(t, plan, fresh, target, bad, known)
         /\ HasAi(plan) /\ (fresh \/ ~HasAi(spec)) => HasAi(ToRun(plan, fresh))
         /\ HasAi(plan) /\ HasAi(spec) /\ ~HasAi(ToRun(plan, fresh)) =>
              \A o \in Origins : CellOf(t, o) = CellOf(rows, o)
<1>1. /\ plan \in Seq(StepKind) /\ IsInjective(plan) /\ spec \in Seq(StepKind) /\ rows \in Tables
  BY PlansAre DEF EvalInv, EvalTypeOK
<1> DEFINE rest == ToRun(plan, fresh)
<1>2. CASE ~fresh /\ IsPrefix(spec, plan) /\ Len(spec) > 0
  <2>1. /\ rest = SubSeq(plan, Len(spec) + 1, Len(plan))
        /\ t = Run(rows, rest, target, bad, known)
    BY <1>2 DEF ToRun, Reused, Replay, ReplaysTo
  <2>2. /\ rest \in Seq(StepKind) /\ ToSet(plan) = ToSet(spec) \cup ToSet(rest)
    BY <1>1, <1>2, <2>1, GrownIs
  <2> HIDE DEF rest
  <2>3. /\ t \in Tables
        /\ \A o \in Origins : CellOf(t, o) =
             IF "ai" \in ToSet(rest) THEN Fill(o, target, bad, known) ELSE CellOf(rows, o)
        /\ "rank" \notin ToSet(rest) => \A i \in Origins :
             t[i].origin = IF "flip" \in ToSet(rest) THEN Height + 1 - i ELSE rows[i].origin
    <3> DEFINE u == Run(rows, rest, target, bad, known)
    <3>1. /\ u \in Tables
          /\ \A o \in Origins : CellOf(u, o) =
               IF "ai" \in ToSet(rest) THEN Fill(o, target, bad, known) ELSE CellOf(rows, o)
          /\ "rank" \notin ToSet(rest) => \A i \in Origins :
               u[i].origin = IF "flip" \in ToSet(rest) THEN Height + 1 - i ELSE rows[i].origin
      BY <1>1, <2>2, SourceIs, RunIs
    <3> HIDE DEF u
    <3>2. t = u
      BY <2>1, <2>2 DEF u
    <3> QED
      BY <3>1, <3>2
  <2>4. "rank" \notin ToSet(plan) => \A i \in Origins : t[i].origin = PlaceOf(plan, i)
    BY <2>2, <2>3 DEF EvalInv, Placed, PlaceOf
  <2> QED
    BY <1>2, <2>2, <2>3, <2>4 DEF HasAi, rest, PlacedBy, CellsBy
<1>3. CASE ~(~fresh /\ IsPrefix(spec, plan) /\ Len(spec) > 0)
  <2>1. rest = SubSeq(plan, 1, Len(plan)) /\ t = Run(Source, rest, target, bad, known)
    <3>1. Reused(plan, fresh) = 0
      <4>1. Len(spec) \in Nat
        BY <1>1
      <4> QED
        BY <1>3, <4>1 DEF Reused
    <3> QED
      BY <3>1 DEF ToRun, Replay, ReplaysTo
  <2>2. rest = plan
    <3>1. Len(plan) \in Nat /\ \A i \in 1..Len(plan) : plan[i] \in StepKind
      BY <1>1
    <3>2. /\ rest \in Seq(StepKind) /\ Len(rest) = Len(plan)
          /\ \A i \in 1..Len(plan) : rest[i] = plan[i]
      BY <2>1, <3>1, SubSeqProperties
    <3> HIDE DEF rest
    <3> QED
      BY <1>1, <3>2, SeqEqual
  <2> HIDE DEF rest
  <2>3. /\ t \in Tables
        /\ \A o \in Origins : CellOf(t, o) =
             IF "ai" \in ToSet(plan) THEN Fill(o, target, bad, known) ELSE CellOf(Source, o)
        /\ "rank" \notin ToSet(plan) => \A i \in Origins :
             t[i].origin = IF "flip" \in ToSet(plan) THEN Height + 1 - i ELSE Source[i].origin
    <3> DEFINE u == Run(Source, plan, target, bad, known)
    <3>1. /\ u \in Tables
          /\ \A o \in Origins : CellOf(u, o) =
               IF "ai" \in ToSet(plan) THEN Fill(o, target, bad, known) ELSE CellOf(Source, o)
          /\ "rank" \notin ToSet(plan) => \A i \in Origins :
               u[i].origin = IF "flip" \in ToSet(plan) THEN Height + 1 - i ELSE Source[i].origin
      BY <1>1, <2>2, SourceIs, RunIs
    <3> HIDE DEF u
    <3>2. t = u
      BY <2>1, <2>2 DEF u
    <3> QED
      BY <3>1, <3>2
  <2>4. \A o \in Origins : CellOf(Source, o) = "none"
    BY SourceIs, CellOfIs
  <2>5. "rank" \notin ToSet(plan) => \A i \in Origins : t[i].origin = PlaceOf(plan, i)
    BY <2>3, SourceIs DEF PlaceOf
  <2> QED
    BY <1>3, <2>2, <2>3, <2>4, <2>5 DEF HasAi, rest, PlacedBy, CellsBy
<1> QED
  BY <1>2, <1>3

------------------------------------------------------------------------------
(* Passes.                                                                 *)

\* The rows and the positions the passes pick among them.
LEMMA RowsAre ==
  ASSUME EvalInv
  PROVE  /\ rows \in Tables /\ DOMAIN rows = Origins
         /\ \A target \in SUBSET Origins : TargetOrigins(target) \subseteq Origins
         /\ Pending \subseteq Origins /\ Failed \subseteq Origins /\ Lagging \subseteq Origins
         /\ \A page : OnPage(page) \subseteq Origins
<1>1. rows \in Tables /\ rows \in [Origins -> Row] /\ DOMAIN rows = Origins
  BY DEF EvalInv, EvalTypeOK, Tables
<1>2. ASSUME NEW target \in SUBSET Origins PROVE TargetOrigins(target) \subseteq Origins
  <2>1. \A i \in target : rows[i].origin \in Origins
    BY <1>1 DEF Row
  <2> QED
    BY <2>1 DEF TargetOrigins
<1> QED
  BY <1>1, <1>2 DEF Pending, Failed, Lagging, OnPage

\* The marks of a pass change cells only.
LEMMA LandedIs ==
  ASSUME EvalInv, NEW target, NEW bad, NEW known, NEW info,
         NEW after, ReplaysTo(after, spec, TRUE, TargetOrigins(target), bad, known),
         NEW u, LandsAs(u, target, bad, known, info)
  PROVE  /\ after \in Tables /\ u \in Tables
         /\ SamePlaces(u, after) /\ MarkedAs(u, after, target, info)
<1> DEFINE marked == RemarkFailures(after, info)
           mark(i) == IF after[i].cell = "pending" /\ i \in info THEN "failed" ELSE after[i].cell
           cell(i) == IF target # {} /\ i \notin target /\ rows[i].cell = "pending" THEN "pending"
                      ELSE mark(i)
<1>1. after \in Tables
  BY ReplayIs DEF EvalInv, EvalTypeOK
<1>0. u = RemarkPending(marked, target)
  BY DEF Landed, LandsAs, ReplaysTo
<1>2. after \in [Origins -> Row] /\ DOMAIN after = Origins
  BY <1>1 DEF Tables
<1>3. ASSUME NEW i \in Origins
      PROVE  /\ marked[i] \in Row /\ marked[i].origin = after[i].origin
             /\ marked[i].cell = mark(i)
  <2>1. PICK r \in Row : r = after[i]
    BY <1>2
  <2>2. marked[i] = [r EXCEPT !.cell = IF @ = "pending" /\ i \in info THEN "failed" ELSE @]
    BY <1>2, <2>1 DEF RemarkFailures
  <2> QED
    BY <2>1, <2>2 DEF Row, Cell
<1>4. DOMAIN marked = Origins
  BY <1>2 DEF RemarkFailures
<1> HIDE DEF marked, mark
<1>5. ASSUME NEW i \in Origins
      PROVE  u[i] \in Row /\ u[i].origin = after[i].origin /\ u[i].cell = cell(i)
  <2>1. PICK r \in Row : r = marked[i]
    BY <1>3
  <2>2. u[i] = [r EXCEPT !.cell =
          IF target # {} /\ i \notin target /\ rows[i].cell = "pending" THEN "pending" ELSE @]
    BY <1>0, <1>4, <2>1 DEF RemarkPending
  <2> QED
    BY <1>3, <2>1, <2>2 DEF Row, Cell
<1>6. u = [i \in Origins |-> u[i]]
  BY <1>0, <1>4 DEF RemarkPending
<1>8. u \in [Origins -> Row]
  BY <1>5, <1>6
<1>9. u \in Tables
  BY <1>1, <1>5, <1>8 DEF Tables
<1> QED
  BY <1>1, <1>5, <1>9 DEF mark, SamePlaces, MarkedAs

\* What a pass may say of the answers and the places.
LEMMA LandedKeeps ==
  ASSUME EvalInv, NEW target, NEW bad, NEW known, NEW info,
         NEW u, LandsAs(u, target, bad, known, info)
  PROVE  /\ u \in Tables
         /\ "rank" \notin ToSet(spec) => \A i \in Origins : u[i].origin = PlaceOf(spec, i)
         /\ \A o \in Origins : CellOf(u, o) = "value" =>
              HasAi(spec) /\ Fill(o, TargetOrigins(target), bad, known) = "value"
         /\ HasAi(spec) /\ "rank" \notin ToSet(spec) => \A o \in Origins :
              CellOf(rows, o) = "value" /\ Fill(o, TargetOrigins(target), bad, known) = "value" =>
                CellOf(u, o) = "value"
<1>0. PICK after : ReplaysTo(after, spec, TRUE, TargetOrigins(target), bad, known)
  BY DEF ReplaysTo
<1>t. spec \in Plans /\ TRUE \in BOOLEAN
  BY DEF EvalInv, EvalTypeOK
<1>1. /\ after \in Tables /\ u \in Tables
      /\ \A i \in Origins : u[i].origin = after[i].origin
      /\ \A i \in Origins : u[i].cell =
           IF target # {} /\ i \notin target /\ rows[i].cell = "pending" THEN "pending"
           ELSE IF after[i].cell = "pending" /\ i \in info THEN "failed"
           ELSE after[i].cell
  <2>1. after \in Tables /\ u \in Tables /\ SamePlaces(u, after) /\ MarkedAs(u, after, target, info)
    BY <1>0, LandedIs
  <2> QED
    BY <2>1 DEF SamePlaces, MarkedAs
<1>2. /\ "rank" \notin ToSet(spec) => \A i \in Origins : after[i].origin = PlaceOf(spec, i)
      /\ \A o \in Origins :
           \/ HasAi(spec) /\ CellOf(after, o) = Fill(o, TargetOrigins(target), bad, known)
           \/ ~HasAi(spec) /\ CellOf(after, o) = "none"
  <2>1. /\ "rank" \notin ToSet(spec) => \A i \in Origins : after[i].origin = PlaceOf(spec, i)
        /\ \A o \in Origins :
             \/ HasAi(ToRun(spec, TRUE)) /\ CellOf(after, o) = Fill(o, TargetOrigins(target), bad, known)
             \/ ~HasAi(spec) /\ CellOf(after, o) = "none"
        /\ HasAi(spec) => HasAi(ToRun(spec, TRUE))
    <3>1. /\ PlacedBy(after, spec) /\ CellsBy(after, spec, TRUE, TargetOrigins(target), bad, known)
          /\ HasAi(spec) /\ (TRUE \/ ~HasAi(spec)) => HasAi(ToRun(spec, TRUE))
      BY <1>0, <1>t, ReplayIs
    <3> QED
      BY <3>1 DEF PlacedBy, CellsBy
  <2>2. HasAi(ToRun(spec, TRUE)) => HasAi(spec)
    BY FreshRuns DEF EvalInv, EvalTypeOK
  <2> QED
    BY <2>1, <2>2
<1>3. rows \in Tables /\ ("rank" \notin ToSet(spec) =>
        \A i \in Origins : rows[i].origin = PlaceOf(spec, i))
  BY DEF EvalInv, EvalTypeOK, Placed
<1>4. ASSUME NEW o \in Origins, CellOf(u, o) = "value"
      PROVE  HasAi(spec) /\ Fill(o, TargetOrigins(target), bad, known) = "value"
  <2>1. PICK i \in Origins : u[i].origin = o /\ u[i].cell = "value"
    <3>1. u \in Tables
      BY <1>1
    <3> QED
      BY <3>1, <1>4, CellOfIs
  <2>2. after[i].cell = "value" /\ after[i].origin = o
    BY <1>1, <2>1
  <2>3. CellOf(after, o) = "value"
    BY <1>1, <2>2, CellOfIs
  <2> QED
    BY <1>2, <2>3
<1>5. ASSUME HasAi(spec), "rank" \notin ToSet(spec), NEW o \in Origins,
             CellOf(rows, o) = "value", Fill(o, TargetOrigins(target), bad, known) = "value"
      PROVE  CellOf(u, o) = "value"
  <2>1. PICK i \in Origins : rows[i].origin = o /\ rows[i].cell = "value"
    BY <1>3, <1>5, CellOfIs
  <2>2. u[i].origin = o /\ after[i].origin = o
    BY <1>1, <1>2, <1>3, <1>5, <2>1
  <2>3. after[i].cell = "value"
    BY <1>1, <1>2, <1>5, <2>2, CellOfIs
  <2>4. u[i].cell = "value"
    BY <1>1, <2>1, <2>3
  <2> QED
    BY <1>1, <2>2, <2>4, CellOfIs
<1>6. "rank" \notin ToSet(spec) => \A i \in Origins : u[i].origin = PlaceOf(spec, i)
  BY <1>1, <1>2
<1> QED
  BY <1>1, <1>4, <1>5, <1>6

\* The rows a replay calls the model for, and their answers.
LEMMA CallsAre ==
  ASSUME NEW plan, NEW fresh, NEW target \in SUBSET Origins
  PROVE  /\ Calls(plan, fresh, target) \subseteq Origins
         /\ \A set \in SUBSET Origins : Answered(set) \subseteq 1..Prompts
<1>1. Calls(plan, fresh, target) \subseteq Origins
  BY DEF Calls
<1>2. \A o \in Origins : Prompt(o) \in 1..Prompts
  BY LazyAssumption, HeightIs DEF Prompt
<1> QED
  BY <1>1, <1>2 DEF Answered

\* The input position of a row is a position.
LEMMA StepInputIs ==
  ASSUME EvalInv, HasAi(spec), NEW o \in Origins
  PROVE  StepInput(o) \in Origins
<1> DEFINE n == CHOOSE n \in DOMAIN spec : spec[n] = "ai"
           before == SubSeq(spec, 1, n - 1)
           input == Run(Source, before, {}, {}, {})
<1>1. spec \in Seq(StepKind)
  BY PlansAre DEF EvalInv, EvalTypeOK
<1>2. n \in DOMAIN spec
  <2>1. \E k \in DOMAIN spec : spec[k] = "ai"
    BY DEF HasAi, ToSet
  <2> QED
    BY <2>1
<1> HIDE DEF n
<1>3. before \in Seq(StepKind)
  <2>1. n - 1 \in Int /\ \A k \in 1..n - 1 : spec[k] \in StepKind
    BY <1>1, <1>2
  <2> QED
    BY <2>1, SubSeqProperties
<1> HIDE DEF before
<1>4. input \in Tables
  BY <1>3, SourceIs, RunIs
<1> HIDE DEF input
<1>5. DOMAIN input = Origins /\ \E k \in Origins : input[k].origin = o
  BY <1>4 DEF Tables
<1>6. StepInput(o) = CHOOSE k \in DOMAIN input : input[k].origin = o
  BY DEF StepInput, input, before, n
<1> QED
  BY <1>5, <1>6

\* What a pass may fail: rows it calls the model for.
LEMMA FailuresAre ==
  ASSUME EvalInv, NEW target \in SUBSET Origins,
         NEW bad \in SUBSET Calls(spec, TRUE, target)
  PROVE  {StepInput(o) : o \in bad} \subseteq Origins
<1>1. ASSUME NEW o \in bad PROVE StepInput(o) \in Origins
  <2>1. HasAi(ToRun(spec, TRUE)) /\ o \in Origins
    BY DEF Calls
  <2>2. HasAi(spec)
    BY <2>1, FreshRuns DEF EvalInv, EvalTypeOK
  <2> QED
    BY <2>1, <2>2, StepInputIs
<1> QED
  BY <1>1

\* Evaluated rows stay where the column stays and nothing sorts by it.
Stays == HasAi(spec) /\ HasAi(spec') /\ "rank" \notin ToSet(spec) \cup ToSet(spec') =>
           \A o \in Origins : CellOf(rows, o) = "value" => CellOf(rows', o) = "value"

\* A pass that lands with what it has banked.
LEMMA LandingKeeps ==
  ASSUME EvalInv, NEW target \in SUBSET Origins, NEW called \in SUBSET Origins,
         NEW bad \in SUBSET called, NEW known \in SUBSET (1..Prompts), NEW info \in SUBSET Origins,
         NEW u, LandsAs(u, target, bad, known, info), rows' = u,
         UNCHANGED <<spec, line, cursor>>,
         sent' \subseteq Origins, failedInfo' = info,
         cache' \subseteq 1..Prompts, cache \subseteq cache', cache \subseteq known,
         \A o \in Origins \ bad :
           HasAi(spec) /\ (o \in TargetOrigins(target) \/ Prompt(o) \in known) => Prompt(o) \in cache',
         \A o \in bad : Prompt(o) \notin cache
  PROVE  EvalInv' /\ Stays
<1>1. /\ u \in Tables
      /\ "rank" \notin ToSet(spec) => \A i \in Origins : u[i].origin = PlaceOf(spec, i)
      /\ \A o \in Origins : CellOf(u, o) = "value" =>
           HasAi(spec) /\ Fill(o, TargetOrigins(target), bad, known) = "value"
      /\ HasAi(spec) /\ "rank" \notin ToSet(spec) => \A o \in Origins :
           CellOf(rows, o) = "value" /\ Fill(o, TargetOrigins(target), bad, known) = "value" =>
             CellOf(u, o) = "value"
  BY LandedKeeps
<1>2. EvalTypeOK'
  BY <1>1 DEF EvalInv, EvalTypeOK
<1>3. Banked'
  BY <1>1 DEF Banked, Fill
<1>4. Placed'
  BY <1>1 DEF Placed
<1>5. Stays
  BY <1>1 DEF Stays, EvalInv, Banked, Fill
<1> QED
  BY <1>2, <1>3, <1>4, <1>5 DEF EvalInv

\* A pass keeps the invariant and the evaluated rows.
LEMMA PassKeeps ==
  ASSUME EvalInv, NEW target \in SUBSET Origins, NEW info \in SUBSET Origins, Pass(target, info)
  PROVE  EvalInv' /\ Stays
<1> DEFINE called == Calls(spec, TRUE, TargetOrigins(target))
<1>1. PICK bad \in SUBSET called :
        /\ failedInfo' = info \union {StepInput(o) : o \in bad}
        /\ cache' = cache \union Answered(called \ bad)
        /\ rows' = Landed(target, bad, cache, failedInfo')
  BY DEF Pass
<1>2. sent' = called /\ UNCHANGED <<spec, line, cursor>>
  BY DEF Pass
<1>3. TargetOrigins(target) \subseteq Origins
  BY RowsAre
<1>4. called \subseteq Origins /\ Answered(called \ bad) \subseteq 1..Prompts
  <2>1. called \subseteq Origins
    BY <1>3, CallsAre
  <2> QED
    BY <2>1, <1>3, CallsAre
<1>5. failedInfo' \subseteq Origins
  BY <1>1, <1>3, FailuresAre
<1>6. cache \subseteq 1..Prompts
  BY DEF EvalInv, EvalTypeOK
<1>7. HasAi(spec) => HasAi(ToRun(spec, TRUE))
  BY FreshRuns DEF EvalInv, EvalTypeOK
<1>8. ASSUME NEW o \in Origins \ bad, HasAi(spec),
             o \in TargetOrigins(target) \/ Prompt(o) \in cache
      PROVE  Prompt(o) \in cache'
  BY <1>1, <1>7, <1>8 DEF Calls, Answered
<1>9. \A o \in bad : Prompt(o) \notin cache
  BY DEF Calls
<1>10. LandsAs(rows', target, bad, cache, failedInfo')
  BY <1>1 DEF LandsAs
<1> HIDE DEF called
<1> QED
  BY <1>1, <1>2, <1>4, <1>5, <1>6, <1>8, <1>9, <1>10, LandingKeeps

\* So does a cancelled run, which banks what it had called.
LEMMA CancelKeeps ==
  ASSUME EvalInv, NEW done \in SUBSET Calls(spec, TRUE, TargetOrigins(Lagging)),
         NEW bad \in SUBSET done, CancelRun(done, bad)
  PROVE  EvalInv' /\ Stays
<1> DEFINE info == (failedInfo \ Failed) \union {StepInput(o) : o \in bad}
<1>1. TargetOrigins(Lagging) \subseteq Origins /\ TargetOrigins({}) = {}
  BY RowsAre DEF TargetOrigins
<1>2. done \subseteq Origins /\ Answered(done \ bad) \subseteq 1..Prompts
  <2>1. done \subseteq Origins
    BY <1>1, CallsAre
  <2> QED
    BY <2>1, <1>1, CallsAre
<1>3. info \subseteq Origins
  <2>1. failedInfo \subseteq Origins
    BY DEF EvalInv, EvalTypeOK
  <2> QED
    BY <1>1, <2>1, FailuresAre
<1> HIDE DEF info
<1>4. /\ sent' = done /\ UNCHANGED <<spec, line, cursor>>
      /\ failedInfo' = info /\ cache' = cache \union Answered(done \ bad)
      /\ rows' = Landed({}, {}, cache', failedInfo')
  BY DEF CancelRun, info
<1>5. cache' \subseteq 1..Prompts /\ cache \subseteq cache'
  BY <1>2, <1>4 DEF EvalInv, EvalTypeOK
<1>6. LandsAs(rows', {}, {}, cache', info)
  BY <1>4 DEF LandsAs
<1>7. \A o \in Origins : Prompt(o) \in cache' => Prompt(o) \in cache'
  OBVIOUS
<1> QED
  BY <1>1, <1>2, <1>3, <1>4, <1>5, <1>6, LandingKeeps

------------------------------------------------------------------------------
(* Requests, flows, the timeline.                                          *)

\* A replay that captures no failure, of a plan that takes the timeline.
LEMMA ReplayKeeps ==
  ASSUME EvalInv, NEW plan \in Plans, NEW fresh \in BOOLEAN, NEW target \in SUBSET Origins,
         ReplaysTo(rows', plan, fresh, target, {}, cache), spec' = plan,
         cache \subseteq cache', Answered(Calls(plan, fresh, target)) \subseteq cache'
  PROVE  /\ rows' \in Tables /\ Banked' /\ Placed'
         /\ Stays
<1>1. /\ rows' \in Tables /\ PlacedBy(rows', plan)
      /\ CellsBy(rows', plan, fresh, target, {}, cache)
  BY ReplayIs
<1>2. ASSUME NEW o \in Origins, CellOf(rows', o) = "value"
      PROVE  Prompt(o) \in cache'
  <2>1. CASE HasAi(ToRun(plan, fresh)) /\ CellOf(rows', o) = Fill(o, target, {}, cache)
    BY <1>2, <2>1 DEF Fill, Calls, Answered
  <2>2. CASE CellOf(rows', o) = CellOf(rows, o)
    BY <1>2, <2>2 DEF EvalInv, Banked
  <2> QED
    BY <1>1, <1>2, <2>1, <2>2 DEF CellsBy
<1>3. ASSUME HasAi(plan), NEW o \in Origins, CellOf(rows, o) = "value"
      PROVE  CellOf(rows', o) = "value"
  <2>1. Fill(o, target, {}, cache) = "value"
    BY <1>3 DEF Fill, EvalInv, Banked
  <2> QED
    BY <1>1, <1>3, <2>1 DEF CellsBy
<1> QED
  BY <1>1, <1>2, <1>3 DEF Banked, Placed, PlacedBy, Stays

\* So does a plan that takes the timeline.
LEMMA RecordKeeps ==
  ASSUME EvalInv, NEW plan \in Plans, NEW target \in SUBSET Origins,
         Record(plan), rows' = Replay(plan, FALSE, target, {}, cache),
         cache' = cache \union Answered(Calls(plan, FALSE, target)),
         failedInfo' \subseteq Origins, sent' = Calls(plan, FALSE, target)
  PROVE  EvalInv' /\ Stays
<1>1. ReplaysTo(rows', plan, FALSE, target, {}, cache) /\ spec' = plan
  BY DEF ReplaysTo, Record
<1>2. /\ rows' \in Tables /\ Banked' /\ Placed'
      /\ Stays
  BY <1>1, ReplayKeeps
<1>3. /\ line' \in Seq(Plans) /\ cursor' \in 1..Len(line') /\ line'[cursor'] = plan
      /\ Len(line') <= MaxLine
  <2>1. /\ line \in Seq(Plans) /\ cursor \in 1..Len(line) /\ cursor < MaxLine
        /\ line' = Append(SubSeq(line, 1, cursor), plan) /\ cursor' = cursor + 1
    BY DEF EvalInv, EvalTypeOK, Record
  <2>2. Len(line) \in Nat /\ \A i \in 1..cursor : line[i] \in Plans
    BY <2>1
  <2>3. SubSeq(line, 1, cursor) \in Seq(Plans) /\ Len(SubSeq(line, 1, cursor)) = cursor
    BY <2>1, <2>2, SubSeqProperties
  <2>4. MaxLine \in Nat
    BY LazyAssumption
  <2> QED
    BY <2>1, <2>2, <2>3, <2>4, AppendProperties
<1>4. sent' \subseteq Origins /\ cache' \subseteq 1..Prompts
  <2>1. sent' \subseteq Origins
    BY CallsAre
  <2> QED
    BY <2>1, CallsAre DEF EvalInv, EvalTypeOK
<1>5. EvalTypeOK'
  BY <1>1, <1>2, <1>3, <1>4 DEF EvalTypeOK
<1> QED
  BY <1>2, <1>5 DEF EvalInv

\* So does a move along the timeline, from the cache alone.
LEMMA MoveKeeps ==
  ASSUME EvalInv, NEW position \in DOMAIN line, Move(position)
  PROVE  EvalInv' /\ Stays
<1>1. /\ line \in Seq(Plans) /\ position \in 1..Len(line) /\ line[position] \in Plans
  BY DEF EvalInv, EvalTypeOK
<1>2. ReplaysTo(rows', line[position], TRUE, {}, {}, cache) /\ spec' = line[position]
  BY DEF Move, ReplaysTo
<1>3. cache' = cache /\ Calls(line[position], TRUE, {}) = {} /\ Answered({}) = {}
  BY DEF Move, Calls, Answered
<1>4. /\ rows' \in Tables /\ Banked' /\ Placed' /\ Stays
  <2>1. cache \subseteq cache' /\ Answered(Calls(line[position], TRUE, {})) \subseteq cache'
    BY <1>3
  <2>2. {} \in SUBSET Origins /\ TRUE \in BOOLEAN
    OBVIOUS
  <2> QED
    BY <1>1, <1>2, <2>1, <2>2, ReplayKeeps
<1>5. EvalTypeOK'
  BY <1>1, <1>2, <1>4 DEF Move, EvalInv, EvalTypeOK
<1> QED
  BY <1>4, <1>5 DEF EvalInv

\* A fresh table.
LEMMA LoadKeeps ==
  /\ Init => EvalInv
  /\ Load => EvalInv'
<1>1. /\ <<>> \in Plans /\ <<(<<>>)>> \in Seq(Plans) /\ Len(<<(<<>>)>>) = 1
      /\ ~HasAi(<<>>) /\ ToSet(<<>>) = {} /\ 1 <= MaxLine
  <2>1. ToSet(<<>>) = {}
    BY DEF ToSet
  <2> QED
    BY <2>1, PlansAre, LazyAssumption DEF HasAi
<1>2. /\ Source \in Tables /\ \A i \in Origins : Source[i].origin = PlaceOf(<<>>, i)
      /\ \A o \in Origins : CellOf(Source, o) = "none"
  BY <1>1, SourceIs, CellOfIs DEF PlaceOf
<1>3. Init => EvalInv
  BY <1>1, <1>2 DEF Init, EvalInv, EvalTypeOK, Banked, Placed
<1>4. Load => EvalInv'
  BY <1>1, <1>2 DEF Load, EvalInv, EvalTypeOK, Banked, Placed
<1> QED
  BY <1>3, <1>4

\* A patched plan is a plan.
LEMMA PatchesAre == Patches \subseteq Plans
BY DEF Patches

\* Every step keeps the invariant, and every one but a load the evaluated rows.
LEMMA NextKeeps ==
  ASSUME EvalInv, [Next]_vars
  PROVE  EvalInv' /\ (~Load => Stays)
<1>1. /\ \A target \in SUBSET Origins : TargetOrigins(target) \in SUBSET Origins
      /\ Pending \in SUBSET Origins /\ Failed \in SUBSET Origins /\ Lagging \in SUBSET Origins
      /\ \A page : OnPage(page) \in SUBSET Origins
      /\ failedInfo \in SUBSET Origins
  BY RowsAre DEF EvalInv, EvalTypeOK
<1>2. ASSUME NEW page \in Pages, OpenPage(page) PROVE EvalInv' /\ Stays
  <2>1. OnPage(page) \intersect Pending \in SUBSET Origins
    BY <1>1
  <2> QED
    BY <1>1, <1>2, <2>1, PassKeeps DEF OpenPage
<1>3. ASSUME RetryFailedRows PROVE EvalInv' /\ Stays
  <2>1. failedInfo \ Failed \in SUBSET Origins
    BY <1>1
  <2> QED
    BY <1>1, <1>3, <2>1, PassKeeps DEF RetryFailedRows
<1>4. ASSUME RunAll PROVE EvalInv' /\ Stays
  <2>1. failedInfo \ Failed \in SUBSET Origins
    BY <1>1
  <2> QED
    BY <1>1, <1>4, <2>1, PassKeeps DEF RunAll
<1>5. ASSUME NEW plan \in Patches, Confirmed(plan) PROVE EvalInv' /\ Stays
  <2>1. plan \in Plans /\ Origins \in SUBSET Origins /\ {} \subseteq Origins
    BY PatchesAre
  <2> QED
    BY <1>5, <2>1, RecordKeeps DEF Confirmed, Commit
<1>6. ASSUME NEW plan \in Patches, NEW page \in Pages, Request(plan, page)
      PROVE  EvalInv' /\ Stays
  <2>1. plan \in Plans /\ TargetOrigins(OnPage(page)) \in SUBSET Origins /\ {} \subseteq Origins
    BY <1>1, PatchesAre
  <2> QED
    BY <1>6, <2>1, RecordKeeps DEF Request, Commit
<1>7. ASSUME NEW plan \in Patches, NEW page \in Pages,
             NEW done \in SUBSET Calls(plan, FALSE, TargetOrigins(OnPage(page))),
             RequestFails(done)
      PROVE  EvalInv' /\ Stays
  <2>1. TargetOrigins(OnPage(page)) \in SUBSET Origins
    BY <1>1
  <2>2. done \in SUBSET Origins
    BY <2>1, CallsAre
  <2>3. Answered(done) \subseteq 1..Prompts
    BY <2>1, <2>2, CallsAre
  <2> QED
    BY <1>7, <2>2, <2>3 DEF RequestFails, EvalInv, EvalTypeOK, Banked, Placed, Stays
<1>8. ASSUME NEW plan \in Plans, NEW page \in Pages, Flow(plan, page)
      PROVE  EvalInv' /\ Stays
  <2>1. TargetOrigins(OnPage(page)) \in SUBSET Origins /\ (failedInfo' \subseteq Origins)
    BY <1>1, <1>8 DEF Flow
  <2> QED
    BY <1>8, <2>1, RecordKeeps DEF Flow
<1>9. ASSUME UNCHANGED vars PROVE EvalInv' /\ Stays
  BY <1>9 DEF vars, EvalInv, EvalTypeOK, Banked, Placed, Stays
<1> QED
  BY <1>2, <1>3, <1>4, <1>5, <1>6, <1>7, <1>8, <1>9, CancelKeeps, MoveKeeps, LoadKeeps DEF Next

\* Opening a page settles that page and touches no other.
LEMMA OpenPageIsExact ==
  ASSUME EvalInv, Keeps(spec, spec), NEW page \in Pages, OpenPage(page)
  PROVE  LET there == TargetOrigins(OnPage(page))
         IN  /\ sent' \subseteq there
             /\ OnPage(page) \intersect Pending \intersect Pending' = {}
             /\ \A o \in Origins \ there :
                  CellOf(rows, o) = "pending" => CellOf(rows', o) = "pending"
<1> DEFINE target == OnPage(page) \intersect Pending
           there == TargetOrigins(OnPage(page))
           called == Calls(spec, TRUE, TargetOrigins(target))
<1>1. target # {} /\ Pass(target, failedInfo)
  BY DEF OpenPage
<1>2. PICK bad \in SUBSET called : rows' = Landed(target, bad, cache, failedInfo')
  BY <1>1 DEF Pass
<1>3. /\ rows \in Tables /\ rows' \in Tables /\ target \subseteq Origins /\ DOMAIN rows' = Origins
      /\ \A i \in Origins : rows[i].origin = PlaceOf(spec, i)
  <2>1. rows \in Tables /\ target \in SUBSET Origins /\ failedInfo \in SUBSET Origins
    BY RowsAre DEF EvalInv, EvalTypeOK
  <2>2. EvalInv'
    BY <1>1, <2>1, PassKeeps
  <2> QED
    BY <2>1, <2>2 DEF EvalInv, EvalTypeOK, Keeps, Placed, Tables
<1>4. PICK after : ReplaysTo(after, spec, TRUE, TargetOrigins(target), bad, cache)
  BY DEF ReplaysTo
<1>5. /\ after \in Tables /\ SamePlaces(rows', after) /\ MarkedAs(rows', after, target, failedInfo')
  <2>1. LandsAs(rows', target, bad, cache, failedInfo')
    BY <1>2 DEF LandsAs
  <2> QED
    BY <1>4, <2>1, LandedIs
<1>6. /\ PlacedBy(after, spec)
      /\ CellsBy(after, spec, TRUE, TargetOrigins(target), bad, cache)
  <2>1. spec \in Plans /\ TRUE \in BOOLEAN
    BY DEF EvalInv, EvalTypeOK
  <2> QED
    BY <1>4, <2>1, ReplayIs
<1>7. \A i \in Origins : after[i].origin = rows[i].origin /\ rows'[i].origin = rows[i].origin
  BY <1>3, <1>5, <1>6 DEF PlacedBy, SamePlaces, Keeps
<1>8. sent' \subseteq there
  BY <1>1 DEF Pass, Calls, TargetOrigins
<1>9. ASSUME NEW i \in target PROVE i \notin Pending'
  <2>1. i \in Origins /\ rows[i].origin \in TargetOrigins(target)
    BY <1>3 DEF TargetOrigins
  <2>2. after[i].cell = CellOf(after, after[i].origin) /\ after[i].origin = rows[i].origin
    BY <1>5, <1>7, <2>1, CellOfIs
  <2>3. after[i].origin \in Origins
    BY <1>5, <2>1 DEF Tables, Row
  <2>4. after[i].cell = Fill(after[i].origin, TargetOrigins(target), bad, cache)
    BY <1>6, <2>2, <2>3 DEF CellsBy, Keeps
  <2>5. after[i].cell # "pending"
    BY <2>1, <2>2, <2>4 DEF Fill
  <2>6. rows'[i].cell = after[i].cell
    BY <1>5, <2>1, <2>5 DEF MarkedAs
  <2> QED
    BY <2>5, <2>6 DEF Pending
<1>10. ASSUME NEW o \in Origins \ there, CellOf(rows, o) = "pending"
       PROVE  CellOf(rows', o) = "pending"
  <2>0. o \in Origins /\ rows \in Tables /\ rows' \in Tables
    BY <1>3
  <2>1. PICK i \in Origins : rows[i].origin = o /\ rows[i].cell = "pending"
    <3>1. \E i \in Origins : rows[i].origin = o /\ rows[i].cell = CellOf(rows, o)
      BY <2>0, CellOfIs
    <3> QED
      BY <1>10, <3>1
  <2>2. i \notin target
    BY <2>1 DEF TargetOrigins
  <2>3. rows'[i].cell = "pending"
    BY <1>1, <1>5, <2>1, <2>2 DEF MarkedAs
  <2>4. rows'[i].origin = o
    BY <1>7, <2>1
  <2> QED
    BY <2>0, <2>1, <2>3, <2>4, CellOfIs
<1> QED
  BY <1>8, <1>9, <1>10

------------------------------------------------------------------------------
(* Theorems.                                                               *)

\* The invariant: the tables are permutations of the source, every answer on
\* the grid is in the cell cache, and rows stand where the plan puts them.
THEOREM EvaluationInvariant == Spec => []EvalInv
<1>1. Init => EvalInv
  BY LoadKeeps
<1>2. EvalInv /\ [Next]_vars => EvalInv'
  BY NextKeeps
<1> QED
  BY <1>1, <1>2, PTL DEF Spec

\* What the invariant says of the state.
LEMMA EvalInvImplies == EvalInv => TypeOK /\ AnswersBanked
<1> SUFFICES ASSUME EvalInv PROVE TypeOK /\ AnswersBanked
  OBVIOUS
<1>1. /\ rows \in [Origins -> Row] /\ rows \in Tables /\ DOMAIN rows = Origins
      /\ \A o \in Origins : \E i \in Origins : rows[i].origin = o
      /\ \A i \in Origins : rows[i].origin \in Origins
  BY DEF EvalInv, EvalTypeOK, Tables, Row
<1>2. {rows[i].origin : i \in Origins} = Origins
  BY <1>1
<1>3. Len(line) \in 1..MaxLine /\ cursor \in DOMAIN line
  BY LazyAssumption DEF EvalInv, EvalTypeOK
<1>4. TypeOK
  BY <1>1, <1>2, <1>3 DEF TypeOK, EvalInv, EvalTypeOK
<1>5. AnswersBanked
  BY <1>1, CellOfIs DEF AnswersBanked, EvalInv, Banked
<1> QED
  BY <1>4, <1>5

\* Type correctness of the lazy evaluation (controller-lazy.ts).
THEOREM EvaluationTyping == Spec => []TypeOK
BY EvaluationInvariant, EvalInvImplies, PTL

\* Every answer on the grid is in the cell cache, whichever passes, failed
\* requests and cancelled runs it came from (controller-lazy.ts, evalLlmBatch).
THEOREM AnswersStayBanked == Spec => []AnswersBanked
BY EvaluationInvariant, EvalInvImplies, PTL

\* Evaluated rows stay evaluated through passes, requests, flows, undo and
\* cancelled runs while the AI step stays and nothing sorts by its answers.
THEOREM EvaluationIsKept == Spec => EvaluatedStays
<1>1. EvalInv /\ [Next]_vars =>
        [~Load /\ Keeps(spec, spec')
           => \A o \in Origins : CellOf(rows, o) = "value" => CellOf(rows', o) = "value"]_vars
  BY NextKeeps DEF Stays, Keeps
<1> QED
  BY <1>1, EvaluationInvariant, PTL DEF Spec, EvaluatedStays

\* Opening a page evaluates, and pays for, exactly that page (evaluateVisible,
\* remarkPending).
THEOREM PagesAreExact == Spec => PageIsExact
<1>1. EvalInv /\ [Next]_vars =>
        [\A page \in Pages : Keeps(spec, spec) /\ OpenPage(page) =>
           LET there == TargetOrigins(OnPage(page))
           IN  /\ sent' \subseteq there
               /\ OnPage(page) \intersect Pending \intersect Pending' = {}
               /\ \A o \in Origins \ there :
                    CellOf(rows, o) = "pending" => CellOf(rows', o) = "pending"]_vars
  BY OpenPageIsExact
<1> QED
  BY <1>1, EvaluationInvariant, PTL DEF Spec, PageIsExact

===============================================================================
