------------------------ MODULE CorrectedClockProofs --------------------------
(***************************************************************************)
(* CorrectedClock keeps its types, and judges no code by an offset older   *)
(* than the settings allow, for every value of the constants.              *)
(***************************************************************************)
EXTENDS CorrectedClock, TLAPS

\* The age the program sees is behind the real one by the wait of the result at most.
AgeIsReal == offset # None => measured <= age + Latency

ClockInv == TypeOK /\ AgeIsReal

\* What the steps below use of the constants.
LEMMA Constants ==
    /\ MaxOffsetAge \in Nat /\ SyncInterval \in Nat /\ RetryInterval \in Nat
    /\ Latency \in Nat /\ MaxSkew \in Nat /\ Delays \subseteq Nat
    /\ DriftEvery \in Nat /\ DriftEvery >= 1
    /\ None \notin Int /\ Old \in Nat /\ Old = MaxOffsetAge + Latency + 1
  BY ClockConstants DEF ClockConstants, Old

LEMMA NoSampleType == NoSample \in Sample
  BY Constants DEF NoSample, Sample

\* Every process starts with nothing measured.
LEMMA InitInv == Init => ClockInv
<1> SUFFICES ASSUME Init PROVE ClockInv
  OBVIOUS
<1>1. offset = None /\ age = None /\ wait \in Nat /\ sample \in Sample
  BY NoSampleType DEF Init
<1>2. slipped \in 1 .. DriftEvery /\ measured \in 0 .. Old
  BY Constants DEF Init
<1>3. reachable \in BOOLEAN /\ skew \in Sizes /\ jumped \in BOOLEAN
  BY DEF Init
<1>4. at = "down" /\ sample = NoSample
  BY DEF Init
<1> QED
  BY <1>1, <1>2, <1>3, <1>4 DEF ClockInv, TypeOK, AgeIsReal

\* A sample has the type of one, however the server answers.
LEMMA AnswerType == ASSUME TypeOK, Answer PROVE sample' \in Sample
<1>1. CASE sample' = NoSample
  BY <1>1, NoSampleType
<1>2. CASE \E ds \in SUBSET Delays : Answers(ds)
  <2>1. PICK ds \in SUBSET Delays : Answers(ds)
    BY <1>2
  <2>2. PICK delay \in ds : \E err \in -(delay \div 2) .. (delay \div 2) :
          sample' = [failed |-> FALSE, offset |-> err - skew, delay |-> delay,
                     since |-> 0, moved |-> FALSE]
    BY <2>1 DEF Answers
  <2>3. delay \in Nat /\ skew \in Int
    BY Constants DEF TypeOK, Sizes
  <2>5. PICK err \in -(delay \div 2) .. (delay \div 2) :
          sample' = [failed |-> FALSE, offset |-> err - skew, delay |-> delay,
                     since |-> 0, moved |-> FALSE]
    BY <2>2
  <2>4. err - skew \in Int
    BY <2>5, <2>3
  <2> QED
    BY <2>5, <2>3, <2>4, Constants DEF Sample
<1> QED
  <2>1. {d \in Delays : d <= MaxDelay} \in SUBSET Delays /\ Delays \in SUBSET Delays
    OBVIOUS
  <2> QED
    BY <1>1, <1>2, <2>1 DEF Answer

\* Every step keeps the invariant: a result that waited Latency at most is as old as
\* the age that starts at its arrival says, plus that wait, and both ages move together.
LEMMA StepInv == ClockInv /\ [Next]_vars => ClockInv'
<1> SUFFICES ASSUME ClockInv, [Next]_vars PROVE ClockInv'
  OBVIOUS
<1> USE Constants, NoSampleType DEF ClockInv, TypeOK, AgeIsReal, clock, loop, ghosts
<1>1. CASE Start
  BY <1>1 DEF Start
<1>2. CASE Shutdown
  BY <1>2 DEF Shutdown
<1>3. CASE Request
  BY <1>3 DEF Request
<1>4. CASE Answer
  BY <1>4, AnswerType DEF Answer
<1>5. CASE Resume
  <2>1. sample \in Sample /\ sample.offset \in Int /\ sample.since \in 0 .. Latency
        /\ sample.moved \in BOOLEAN
    BY DEF Sample
  <2> QED
    BY <1>5, <2>1 DEF Resume
<1>6. CASE Wake
  BY <1>6 DEF Wake
<1>7. CASE Tick
  <2>1. sample' \in Sample /\ (at # "asked" => sample' = NoSample)
    <3>1. CASE at = "asked"
      <4>1. sample.since \in Nat /\ sample.since < Latency
        BY <1>7, <3>1 DEF Tick, InTime, Sample
      <4> QED
        BY <1>7, <3>1, <4>1 DEF Tick, Sample
    <3> QED
      BY <1>7, <3>1 DEF Tick
  <2>2. wait' \in Nat
    <3>1. at = "sleeping" => wait > 0
      BY <1>7 DEF Tick, InTime
    <3> QED
      BY <1>7, <3>1 DEF Tick
  <2>3. skew' \in Sizes /\ slipped' \in 1 .. DriftEvery
    BY <1>7 DEF Tick, Until
  <2>4. /\ age' \in 0 .. MaxOffsetAge + 1 \cup {None} /\ measured' \in 0 .. Old
        /\ (age' = None <=> age = None)
        /\ (offset # None => measured' <= age' + Latency)
    BY <1>7 DEF Tick, Until
  <2> QED
    BY <1>7, <2>1, <2>2, <2>3, <2>4 DEF Tick
<1>8. CASE SetLocalClock
  <2>1. sample' \in Sample /\ (at # "asked" => sample' = NoSample)
    BY <1>8 DEF SetLocalClock, Sample
  <2> QED
    BY <1>8, <2>1 DEF SetLocalClock
<1>9. CASE Network
  BY <1>9 DEF Network
<1>10. CASE UNCHANGED vars
  BY <1>10 DEF vars
<1> QED
  BY <1>1, <1>2, <1>3, <1>4, <1>5, <1>6, <1>7, <1>8, <1>9, <1>10 DEF Next, Loop

LEMMA Invariance == Spec => []ClockInv
  BY InitInv, StepInv, PTL DEF Spec

\* The annotations of TimeService hold, an offset has an age, and the loop has what
\* its next step uses.
THEOREM TypeCorrect == Spec => []TypeOK
<1>1. ClockInv => TypeOK
  BY DEF ClockInv
<1> QED
  BY <1>1, Invariance, PTL

\* TotpService.verify: whatever fails and however the local clock is set, a code is
\* judged only by an offset that is really no older than the maximum age and the wait
\* of its measurement for the event loop.
THEOREM VerdictsAreFresh == Spec => []NoStaleVerdict
<1>1. ClockInv => NoStaleVerdict
  BY Constants DEF ClockInv, AgeIsReal, TypeOK, NoStaleVerdict, Verdict, Usable
<1> QED
  BY <1>1, Invariance, PTL

-------------------------------------------------------------------------------
(* How far off the corrected clock is.  The error of a measurement grows   *)
(* by the slips of the local clock since: the first may follow at once,    *)
(* every later one DriftEvery ticks after the one before.                  *)

\* An error of e, measured to within base so many ticks ago, by a clock that has
\* slipped last s ticks ago.
Drifted(e, base, ticks, s) ==
    \E k \in Nat : /\ Abs(e) <= base + k
                   /\ k > 0 => (k - 1) * DriftEvery + s <= ticks

DriftInv ==
    /\ offset # None /\ ~jumped /\ measured < Old =>
         Drifted(offset + skew, MaxDelay \div 2, measured, slipped)
    /\ at = "asked" /\ ~sample.failed /\ ~sample.moved =>
         Drifted(sample.offset + skew, sample.delay \div 2, sample.since, slipped)

LEMMA Halves ==
    ASSUME NEW a \in Nat, NEW b \in Nat, a <= b
    PROVE  a \div 2 \in Nat /\ a \div 2 <= b \div 2
  OBVIOUS

LEMMA DriftStarts ==
    ASSUME NEW e \in Int, NEW base \in Nat, Abs(e) <= base, NEW ticks, NEW s
    PROVE  Drifted(e, base, ticks, s)
<1>1. Abs(e) <= base + 0 /\ ~(0 > 0)
  BY DEF Abs
<1> QED
  BY <1>1 DEF Drifted

LEMMA DriftWidens ==
    ASSUME NEW e \in Int, NEW base \in Nat, NEW wide \in Nat, base <= wide,
           NEW ticks, NEW s, Drifted(e, base, ticks, s)
    PROVE  Drifted(e, wide, ticks, s)
<1>1. PICK k \in Nat : /\ Abs(e) <= base + k
                       /\ k > 0 => (k - 1) * DriftEvery + s <= ticks
  BY DEF Drifted
<1>2. Abs(e) <= wide + k
  BY <1>1 DEF Abs
<1> QED
  BY <1>1, <1>2 DEF Drifted

\* A tick without a slip.
LEMMA DriftWaits ==
    ASSUME NEW e, NEW base, NEW ticks \in Nat, NEW s \in Nat, NEW next \in Nat,
           next <= s + 1, Drifted(e, base, ticks, s)
    PROVE  Drifted(e, base, ticks + 1, next)
<1>1. PICK k \in Nat : /\ Abs(e) <= base + k
                       /\ k > 0 => (k - 1) * DriftEvery + s <= ticks
  BY DEF Drifted
<1>2. k > 0 => (k - 1) * DriftEvery + next <= ticks + 1
  <2>1. (k - 1) * DriftEvery \in Int
    BY Constants
  <2> QED
    BY <1>1, <2>1
<1> QED
  BY <1>1, <1>2 DEF Drifted

\* A tick with one: the last was DriftEvery ticks ago.
LEMMA DriftSlips ==
    ASSUME NEW e \in Int, NEW f \in Int, NEW base \in Nat, NEW ticks \in Nat,
           Abs(f - e) = 1, Drifted(e, base, ticks, DriftEvery)
    PROVE  Drifted(f, base, ticks + 1, 1)
<1>1. PICK k \in Nat : /\ Abs(e) <= base + k
                       /\ k > 0 => (k - 1) * DriftEvery + DriftEvery <= ticks
  BY DEF Drifted
<1>2. k + 1 \in Nat /\ Abs(f) <= base + (k + 1)
  BY <1>1 DEF Abs
<1>3. ((k + 1) - 1) * DriftEvery + 1 <= ticks + 1
  <2>1. (k + 1) - 1 = k
    OBVIOUS
  <2>2. CASE k = 0
    <3>1. k * DriftEvery = 0
      BY <2>2, Constants
    <3> QED
      BY <2>1, <3>1
  <2>3. CASE k > 0
    <3>1. k * DriftEvery = (k - 1) * DriftEvery + DriftEvery /\ k * DriftEvery \in Int
      BY Constants, SMTT(30)
    <3> QED
      BY <1>1, <2>1, <2>3, <3>1
  <2> QED
    BY <2>2, <2>3
<1> QED
  BY <1>2, <1>3 DEF Drifted

\* What the settings let it grow to while the offset is used.
LEMMA DriftIsBounded ==
    ASSUME NEW e \in Int, NEW base \in Nat, NEW s \in Nat \ {0},
           NEW ticks \in 0 .. MaxOffsetAge + Latency, Drifted(e, base, ticks, s)
    PROVE  Abs(e) <= base + (MaxOffsetAge + Latency) \div DriftEvery + 1
<1> DEFINE most == MaxOffsetAge + Latency
<1>1. PICK k \in Nat : /\ Abs(e) <= base + k
                       /\ k > 0 => (k - 1) * DriftEvery + s <= ticks
  BY DEF Drifted
<1>2. most \in Nat /\ most \div DriftEvery \in Nat
  BY Constants
<1>3. k <= most \div DriftEvery + 1
  <2>1. CASE k > 0
    <3>1. (k - 1) * DriftEvery \in Int /\ (k - 1) * DriftEvery <= most
      <4>1. (k - 1) * DriftEvery \in Int
        BY Constants
      <4> QED
        BY <1>1, <1>2, <2>1, <4>1
    <3>2. k - 1 <= most \div DriftEvery
      <4> HIDE DEF most
      <4>1. \A n \in Nat, m \in Nat, d \in Nat \ {0} : n * d <= m => n <= m \div d
        BY SMTT(60)
      <4>2. k - 1 \in Nat /\ DriftEvery \in Nat \ {0}
        BY <2>1, Constants
      <4> QED
        BY <1>2, <3>1, <4>1, <4>2
    <3> HIDE DEF most
    <3> QED
      BY <1>2, <2>1, <3>2
  <2>2. CASE k = 0
    <3> HIDE DEF most
    <3> QED
      BY <1>2, <2>2
  <2> QED
    BY <2>1, <2>2
<1>4. Abs(e) \in Int
  BY DEF Abs
<1> HIDE DEF most
<1>5. Abs(e) <= base + most \div DriftEvery + 1
  BY <1>1, <1>2, <1>3, <1>4
<1> QED
  BY <1>5 DEF most

LEMMA InitDrift == Init => DriftInv
  BY DEF Init, DriftInv

LEMMA AnswerKeepsDrift == ASSUME ClockInv, DriftInv, Answer PROVE DriftInv'
<1>1. offset' = offset /\ jumped' = jumped /\ measured' = measured /\ skew' = skew
      /\ slipped' = slipped
  BY DEF Answer, clock, ghosts
<1>2. CASE sample' = NoSample
  BY <1>1, <1>2 DEF DriftInv, NoSample
<1>3. CASE \E ds \in SUBSET Delays : Answers(ds)
  <2>1. PICK ds \in SUBSET Delays : Answers(ds)
    BY <1>3
  <2>2. PICK delay \in ds : \E err \in -(delay \div 2) .. (delay \div 2) :
          sample' = [failed |-> FALSE, offset |-> err - skew, delay |-> delay,
                     since |-> 0, moved |-> FALSE]
    BY <2>1 DEF Answers
  <2>3. PICK err \in -(delay \div 2) .. (delay \div 2) :
          sample' = [failed |-> FALSE, offset |-> err - skew, delay |-> delay,
                     since |-> 0, moved |-> FALSE]
    BY <2>2
  <2>4. delay \in Nat /\ delay \div 2 \in Nat /\ skew \in Int
    BY Constants, Halves DEF ClockInv, TypeOK, Sizes
  <2>5. sample'.offset + skew' = err /\ sample'.delay = delay /\ err \in Int
        /\ Abs(err) <= delay \div 2
    BY <1>1, <2>3, <2>4 DEF Abs
  <2>6. Drifted(sample'.offset + skew', sample'.delay \div 2, sample'.since, slipped')
    BY <2>4, <2>5, DriftStarts
  <2> QED
    BY <1>1, <2>6 DEF DriftInv
<1> QED
  <2>1. {d \in Delays : d <= MaxDelay} \in SUBSET Delays /\ Delays \in SUBSET Delays
    OBVIOUS
  <2> QED
    BY <1>2, <1>3, <2>1 DEF Answer

LEMMA ResumeKeepsDrift == ASSUME ClockInv, DriftInv, Resume PROVE DriftInv'
<1>1. at' = "sleeping" /\ skew' = skew /\ slipped' = slipped /\ at = "asked"
  BY DEF Resume
<1>2. CASE ~Trustworthy(sample)
  BY <1>1, <1>2 DEF Resume, clock, DriftInv
<1>3. CASE Trustworthy(sample)
  <2>1. /\ offset' = sample.offset /\ measured' = sample.since /\ jumped' = sample.moved
        /\ ~sample.failed /\ sample.delay <= MaxDelay
    BY <1>3 DEF Resume, Trustworthy
  <2>2. /\ sample.offset \in Int /\ sample.delay \in Nat /\ skew \in Int /\ MaxDelay \in Nat
    BY Constants, ClockConstants DEF ClockInv, TypeOK, Sample, Sizes
  <2>3. /\ sample.delay \div 2 \in Nat /\ MaxDelay \div 2 \in Nat
        /\ sample.delay \div 2 <= MaxDelay \div 2
    BY <2>1, <2>2, Halves
  <2>4. ASSUME ~sample.moved
        PROVE  Drifted(sample.offset + skew, MaxDelay \div 2, sample.since, slipped)
    <3>1. Drifted(sample.offset + skew, sample.delay \div 2, sample.since, slipped)
      BY <1>1, <2>1, <2>4 DEF DriftInv
    <3> QED
      BY <2>2, <2>3, <3>1, DriftWidens
  <2> QED
    BY <1>1, <2>1, <2>4 DEF DriftInv
<1> QED
  BY <1>2, <1>3

\* One tick, for the offset in use and for a sample that waits alike.
LEMMA DriftTicks ==
    ASSUME ClockInv, Tick, NEW m \in Int, NEW base \in Nat, NEW ticks \in Nat,
           Drifted(m + skew, base, ticks, slipped)
    PROVE  Drifted(m + skew', base, ticks + 1, slipped')
<1>1. /\ skew \in Int /\ slipped \in Nat /\ DriftEvery \in Nat
      /\ slipped \in 1 .. DriftEvery
  BY Constants DEF ClockInv, TypeOK, Sizes
<1>2. CASE skew' = skew /\ slipped' = Until(slipped, DriftEvery)
  <2>1. slipped' \in Nat /\ slipped' <= slipped + 1
    BY <1>1, <1>2 DEF Until
  <2> QED
    BY <1>1, <1>2, <2>1, DriftWaits
<1>3. CASE /\ slipped = DriftEvery /\ slipped' = 1
           /\ skew' \in Sizes /\ Abs(skew' - skew) = 1
  <2>1. skew' \in Int
    BY <1>3, Constants DEF Sizes
  <2>2. m + skew \in Int /\ m + skew' \in Int /\ Abs((m + skew') - (m + skew)) = 1
    <3>1. (m + skew') - (m + skew) = skew' - skew
      BY <1>1, <2>1
    <3> QED
      BY <1>1, <1>3, <2>1, <3>1
  <2> QED
    BY <1>3, <2>2, DriftSlips
<1> QED
  BY <1>2, <1>3 DEF Tick

LEMMA TickKeepsDrift == ASSUME ClockInv, DriftInv, Tick PROVE DriftInv'
<1>1. offset' = offset /\ jumped' = jumped /\ at' = at /\ measured' = Until(measured, Old)
  BY DEF Tick
<1>2. /\ measured \in Nat /\ measured <= Old /\ Old \in Nat /\ MaxDelay \div 2 \in Nat
      /\ offset # None => offset \in Int
  BY Constants, ClockConstants, Halves DEF ClockInv, TypeOK
<1>3. ASSUME offset' # None, ~jumped', measured' < Old
      PROVE  Drifted(offset' + skew', MaxDelay \div 2, measured', slipped')
  <2>1. measured < Old /\ measured' = measured + 1
    BY <1>1, <1>2, <1>3 DEF Until
  <2>2. Drifted(offset + skew, MaxDelay \div 2, measured, slipped)
    BY <1>1, <1>3, <2>1 DEF DriftInv
  <2> QED
    BY <1>1, <1>2, <1>3, <2>1, <2>2, DriftTicks
<1>4. ASSUME at' = "asked", ~sample'.failed, ~sample'.moved
      PROVE  Drifted(sample'.offset + skew', sample'.delay \div 2, sample'.since, slipped')
  <2>1. sample \in Sample /\ sample' = [sample EXCEPT !.since = @ + 1]
    BY <1>1, <1>4 DEF Tick, ClockInv, TypeOK
  <2>2. /\ sample.offset \in Int /\ sample.delay \in Nat /\ sample.since \in Nat
        /\ sample'.offset = sample.offset /\ sample'.delay = sample.delay
        /\ sample'.since = sample.since + 1
        /\ sample'.failed = sample.failed /\ sample'.moved = sample.moved
    BY <2>1 DEF Sample
  <2>3. sample.delay \div 2 \in Nat
    BY <2>2, Halves
  <2>4. Drifted(sample.offset + skew, sample.delay \div 2, sample.since, slipped)
    BY <1>1, <1>4, <2>2 DEF DriftInv
  <2> QED
    BY <2>2, <2>3, <2>4, DriftTicks
<1> QED
  BY <1>3, <1>4 DEF DriftInv

LEMMA StepDrift == ClockInv /\ DriftInv /\ [Next]_vars => DriftInv'
<1> SUFFICES ASSUME ClockInv, DriftInv, [Next]_vars PROVE DriftInv'
  OBVIOUS
<1>1. CASE Answer
  BY <1>1, AnswerKeepsDrift
<1>2. CASE Resume
  BY <1>2, ResumeKeepsDrift
<1>3. CASE Tick
  BY <1>3, TickKeepsDrift
<1>4. CASE SetLocalClock
  <2>1. jumped' = TRUE /\ at' = at
    BY <1>4 DEF SetLocalClock
  <2>2. at' = "asked" => sample'.moved
    BY <1>4, <2>1 DEF SetLocalClock, ClockInv, TypeOK, Sample
  <2> QED
    BY <2>1, <2>2 DEF DriftInv
<1>5. CASE Start \/ Request \/ Wake
  <2>1. /\ UNCHANGED <<offset, jumped, measured, skew, slipped, sample>> /\ at' # "asked"
    BY <1>5 DEF Start, Request, Wake, clock, ghosts
  <2> QED
    BY <2>1 DEF DriftInv
<1>6. CASE Shutdown
  BY <1>6 DEF Shutdown, DriftInv
<1>7. CASE Network \/ UNCHANGED vars
  <2>1. UNCHANGED <<offset, jumped, measured, skew, slipped, sample, at>>
    BY <1>7 DEF Network, vars, clock, loop, ghosts
  <2> QED
    BY <2>1 DEF DriftInv
<1> QED
  BY <1>1, <1>2, <1>3, <1>4, <1>5, <1>6, <1>7 DEF Next, Loop

\* An error within the window moves a phase by so many periods at most.
LEMMA PeriodsOff ==
    ASSUME NEW e \in Int, NEW phase \in 0 .. Period - 1,
           Abs(e) <= ValidWindow * Period
    PROVE  /\ (phase + e) \div Period \in Int
           /\ Abs((phase + e) \div Period) <= ValidWindow
<1>1. Period \in Nat \ {0} /\ ValidWindow \in Nat
  BY ClockConstants
<1>2. \A n \in Int, d \in Nat \ {0}, w \in Nat :
        -(w * d) <= n /\ n <= w * d + (d - 1) =>
          n \div d \in Int /\ -w <= n \div d /\ n \div d <= w
  BY SMTT(60)
<1>3. ValidWindow * Period \in Nat
  BY <1>1
<1>4. /\ phase + e \in Int /\ -(ValidWindow * Period) <= phase + e
      /\ phase + e <= ValidWindow * Period + (Period - 1)
  BY <1>1, <1>3 DEF Abs
<1>5. /\ (phase + e) \div Period \in Int /\ -ValidWindow <= (phase + e) \div Period
      /\ (phase + e) \div Period <= ValidWindow
  BY <1>1, <1>2, <1>4
<1> HIDE <1>2
<1> QED
  BY <1>1, <1>5 DEF Abs

LEMMA VerdictsRight == ClockInv /\ DriftInv => CodesJudgedRight
<1> SUFFICES ASSUME ClockInv, DriftInv, ~jumped, WorstError <= ValidWindow * Period,
                    NEW phase \in 0 .. Period - 1
             PROVE  /\ Verdict(0, phase) # "refused"
                    /\ \A code \in -9 .. 9 :
                         Verdict(code, phase) = "accepted" => Abs(code) <= 2 * ValidWindow
  BY DEF CodesJudgedRight
<1>1. CASE ~Usable
  BY <1>1 DEF Verdict
<1>2. CASE Usable
  <2>1. /\ offset # None /\ offset \in Int /\ skew \in Int /\ slipped \in Nat \ {0}
        /\ measured \in 0 .. MaxOffsetAge + Latency /\ measured < Old
    BY <1>2, Constants DEF Usable, ClockInv, TypeOK, AgeIsReal, Sizes
  <2>2. Error = offset + skew /\ Error \in Int
    BY <2>1 DEF Error
  <2>3. MaxDelay \div 2 \in Nat /\ ValidWindow \in Nat
    BY ClockConstants, Halves
  <2>4. Drifted(offset + skew, MaxDelay \div 2, measured, slipped)
    BY <2>1 DEF DriftInv
  <2>5. Abs(Error) <= WorstError
    BY <2>1, <2>2, <2>3, <2>4, DriftIsBounded DEF WorstError
  <2>6. Abs(Error) <= ValidWindow * Period
    <3>1. Abs(Error) \in Int /\ WorstError \in Int /\ ValidWindow * Period \in Int
      BY <2>2, <2>3, Constants, ClockConstants DEF Abs, WorstError
    <3> QED
      BY <2>5, <3>1
  <2>7. PICK n : n = (phase + Error) \div Period
    OBVIOUS
  <2>8. n \in Int /\ Abs(n) <= ValidWindow
    BY <2>2, <2>6, <2>7, PeriodsOff
  <2>9. \A code : Verdict(code, phase) =
                    IF Abs(n - code) <= ValidWindow THEN "accepted" ELSE "refused"
    BY <1>2, <2>7 DEF Verdict, Within
  <2>10. Abs(n - 0) <= ValidWindow
    BY <2>8 DEF Abs
  <2>11. ASSUME NEW code \in -9 .. 9, Abs(n - code) <= ValidWindow
         PROVE  Abs(code) <= 2 * ValidWindow
    BY <2>3, <2>8, <2>11 DEF Abs
  <2>12. ASSUME NEW code \in -9 .. 9, Verdict(code, phase) = "accepted"
         PROVE  Abs(code) <= 2 * ValidWindow
    BY <2>9, <2>11, <2>12
  <2> QED
    BY <2>9, <2>10, <2>12
<1> QED
  BY <1>1, <1>2

\* TotpService.verify and synchronize: with settings that keep the worst error within
\* the window, and a local clock that only drifts since its measurement, the code shown
\* now is never called wrong and none far away is taken, for all such settings.
THEOREM VerdictsAreRight == Spec => []CodesJudgedRight
<1>1. Spec => [](ClockInv /\ DriftInv)
  BY Invariance, InitDrift, StepDrift, PTL DEF Spec
<1> QED
  BY <1>1, VerdictsRight, PTL
===============================================================================
