---------------------------- MODULE CorrectedClock ----------------------------
(***************************************************************************)
(* The clock authenticator codes are judged by: TimeService and the loop   *)
(* that keeps its offset fresh (backend/app/services/time_service.py),     *)
(* started and stopped by the application's lifespan (main.py), and the    *)
(* verification that relies on it (totp_service.py).                       *)
(*                                                                         *)
(* Time passes by Tick.  What the program cannot see, how far the local    *)
(* clock is off, is "skew": the local clock shows the true time plus skew. *)
(* No absolute time is kept, only ages and remaining waits, so behaviours  *)
(* are endless in finitely many states.                                    *)
(***************************************************************************)
EXTENDS Integers

CONSTANTS
    MaxOffsetAge,    \* ntp_max_offset_age_seconds
    SyncInterval,    \* ntp_sync_interval_seconds
    RetryInterval,   \* ntp_retry_interval_seconds
    Timeout,         \* ntp_timeout_seconds
    MaxDelay,        \* ntp_max_delay_seconds
    Delays,          \* the round trips a sample may report
    Period,          \* TOTP_INTERVAL_SECONDS
    ValidWindow,     \* TOTP_VALID_WINDOW
    Latency,         \* how long a finished request may wait for the event loop
    DriftEvery,      \* the local clock slips by one in so many ticks at most
    MaxSkew,         \* bound: how far off the local clock ever is
    None             \* nothing measured yet

ASSUME ClockConstants ==
    /\ {MaxOffsetAge, SyncInterval, RetryInterval, Timeout, Period, DriftEvery}
         \subseteq Nat \ {0}
    /\ {MaxDelay, ValidWindow, Latency, MaxSkew} \subseteq Nat
    /\ Delays \subseteq Nat
    /\ None \notin Int

VARIABLES
    offset,       \* TimeService._offset
    age,          \* monotonic() - _synced_at, as far as is_usable tells ages apart
    at, wait,     \* the loop of run: where it is, and for how long or how much longer
    sample,       \* the response of a request that has ended
    reachable,    \* a request made now is answered in time, by a quick sample
    skew,
    (************************ what an observer has seen ************************)
    slipped,      \* ticks since the local clock slipped last, up to DriftEvery
    measured,     \* ticks since the offset in use was measured, up to Old
    jumped        \* the local clock was set since then

clock == <<offset, age>>
loop == <<at, wait, sample>>
ghosts == <<slipped, measured, jumped>>
vars == <<clock, loop, reachable, skew, ghosts>>

Sizes == -MaxSkew .. MaxSkew
Abs(n) == IF n < 0 THEN -n ELSE n
Until(n, bound) == IF n < bound THEN n + 1 ELSE bound
Old == MaxOffsetAge + Latency + 1

\* failed: NTPException or OSError, or no request has ended.  since: ticks since it did;
\* moved: the local clock was set in them.
Sample == [failed : BOOLEAN, offset : Int, delay : Nat, since : 0 .. Latency,
           moved : BOOLEAN]
NoSample == [failed |-> TRUE, offset |-> 0, delay |-> 0, since |-> 0, moved |-> FALSE]

-------------------------------------------------------------------------------
\* The answers of the clock, and the judgement of a code.

\* Mutant: an offset is good for as long as the process runs.
UsableForever == age # None
\* is_usable
Usable == age # None /\ age <= MaxOffsetAge

\* get_current_unix_time, relative to the true time.
Error == skew + (IF offset = None THEN 0 ELSE offset)

Within(n) == Abs(n) <= ValidWindow

\* TotpService.verify of the code shown "code" periods from now (0 is the code shown
\* now, -1 the one before), "phase" into the true period.
Verdict(code, phase) ==
    IF ~Usable THEN "unavailable"
    ELSE IF Within(((phase + Error) \div Period) - code) THEN "accepted" ELSE "refused"

-------------------------------------------------------------------------------
\* The loop.

\* lifespan, up to its yield: a new process has measured nothing.
Start ==
    /\ at = "down" /\ at' = "due"
    /\ UNCHANGED <<clock, wait, sample, reachable, skew, ghosts>>

\* lifespan, after it: the task is cancelled wherever it is, and the process ends.
Shutdown ==
    /\ at # "down" /\ at' = "down"
    /\ offset' = None /\ age' = None /\ wait' = 0 /\ sample' = NoSample
    /\ UNCHANGED <<reachable, skew, ghosts>>

\* The request starts in a thread.
Request ==
    /\ at = "due" /\ at' = "asking" /\ wait' = 0
    /\ UNCHANGED <<clock, sample, reachable, skew, ghosts>>

\* The server answers.  Its sample is off by half the round trip at most.
Answers(delays) ==
    \E delay \in delays : \E err \in -(delay \div 2) .. (delay \div 2) :
        sample' = [failed |-> FALSE, offset |-> err - skew, delay |-> delay,
                   since |-> 0, moved |-> FALSE]
Answer ==
    /\ at = "asking" /\ at' = "asked" /\ wait' = 0
    /\ \/ Answers({d \in Delays : d <= MaxDelay})
       \/ /\ ~reachable
          /\ Answers(Delays) \/ sample' = NoSample
    /\ UNCHANGED <<clock, reachable, skew, ghosts>>

\* Mutant: a sample is a sample.
TrustworthySlow(s) == ~s.failed
Trustworthy(s) == ~s.failed /\ s.delay <= MaxDelay

\* Mutant: the age is counted from the last attempt.
ResumeAnyAge ==
    /\ at = "asked" /\ at' = "sleeping" /\ sample' = NoSample
    /\ IF Trustworthy(sample)
         THEN /\ offset' = sample.offset /\ age' = 0 /\ wait' = SyncInterval
              /\ measured' = sample.since /\ jumped' = sample.moved
         ELSE /\ age' = 0 /\ wait' = RetryInterval
              /\ UNCHANGED <<offset, measured, jumped>>
    /\ UNCHANGED <<reachable, skew, slipped>>
\* Mutant: the age is counted from the first time this offset was measured.
ResumeSameOffset ==
    /\ at = "asked" /\ at' = "sleeping" /\ sample' = NoSample
    /\ IF Trustworthy(sample)
         THEN /\ offset' = sample.offset /\ wait' = SyncInterval
              /\ age' = IF sample.offset = offset THEN age ELSE 0
              /\ measured' = sample.since /\ jumped' = sample.moved
         ELSE wait' = RetryInterval /\ UNCHANGED <<clock, measured, jumped>>
    /\ UNCHANGED <<reachable, skew, slipped>>
\* synchronize resumes, and run goes to sleep: a failure or a slow sample leaves what
\* was known, and is tried again sooner.
Resume ==
    /\ at = "asked" /\ at' = "sleeping" /\ sample' = NoSample
    /\ IF Trustworthy(sample)
         THEN /\ offset' = sample.offset /\ age' = 0 /\ wait' = SyncInterval
              /\ measured' = sample.since /\ jumped' = sample.moved
         ELSE wait' = RetryInterval /\ UNCHANGED <<clock, measured, jumped>>
    /\ UNCHANGED <<reachable, skew, slipped>>

\* Mutant: the loop is over when its first wait is.
WakeForGood ==
    /\ at = "sleeping" /\ wait = 0 /\ at' = "over"
    /\ UNCHANGED <<clock, wait, sample, reachable, skew, ghosts>>
\* wait_for times out: once more around.
Wake ==
    /\ at = "sleeping" /\ wait = 0 /\ at' = "due"
    /\ UNCHANGED <<clock, wait, sample, reachable, skew, ghosts>>

-------------------------------------------------------------------------------
\* Everything else: time, the local clock and the network.

\* Nothing that is due is put off: a request ends by its timeout, its result waits
\* Latency at most, and timers fire.
InTime ==
    CASE at = "asking" -> wait < Timeout
      [] at = "asked" -> sample.since < Latency
      [] at = "sleeping" -> wait > 0
      [] at = "due" -> FALSE
      [] OTHER -> TRUE

Tick ==
    /\ InTime
    /\ age' = IF age = None THEN None ELSE Until(age, MaxOffsetAge + 1)
    /\ measured' = Until(measured, Old)
    /\ wait' = CASE at = "asking" -> wait + 1
                 [] at = "sleeping" -> wait - 1
                 [] OTHER -> wait
    /\ sample' = IF at = "asked" THEN [sample EXCEPT !.since = @ + 1] ELSE sample
    /\ \/ /\ skew' = skew /\ slipped' = Until(slipped, DriftEvery)
       \/ /\ slipped = DriftEvery /\ slipped' = 1
          /\ skew' \in Sizes /\ Abs(skew' - skew) = 1
    /\ UNCHANGED <<offset, at, reachable, jumped>>

\* The local clock is set, by its administrator or by the system's own service; the
\* monotonic one is not.
SetLocalClock ==
    /\ skew' \in Sizes \ {skew}
    /\ jumped' = TRUE
    /\ sample' = IF at = "asked" THEN [sample EXCEPT !.moved = TRUE] ELSE sample
    /\ UNCHANGED <<clock, at, wait, reachable, slipped, measured>>

Network ==
    /\ reachable' = ~reachable
    /\ UNCHANGED <<clock, loop, skew, ghosts>>

Init ==
    /\ offset = None /\ age = None
    /\ at = "down" /\ wait = 0 /\ sample = NoSample
    /\ reachable \in BOOLEAN
    /\ skew \in Sizes
    /\ slipped = 1 /\ measured = Old /\ jumped = FALSE

Loop == Request \/ Answer \/ Resume \/ Wake
Next == Start \/ Shutdown \/ Loop \/ Tick \/ SetLocalClock \/ Network

\* The event loop keeps running what is due, a request ends, and time passes.  No one
\* has to start or stop the application, set its clock or repair its network.
Fairness == WF_vars(Loop) /\ WF_vars(Tick)
Spec == Init /\ [][Next]_vars /\ Fairness

-------------------------------------------------------------------------------
\* Every variable holds what the code's annotations say, an offset has an age, and the
\* loop has what the rest of its step uses.
TypeOK ==
    /\ offset \in Int \cup {None} /\ age \in 0 .. MaxOffsetAge + 1 \cup {None}
    /\ offset = None <=> age = None
    /\ at \in {"down", "due", "asking", "asked", "sleeping"}
    /\ wait \in Nat
    /\ sample \in Sample /\ (at # "asked" => sample = NoSample)
    /\ reachable \in BOOLEAN /\ skew \in Sizes
    /\ slipped \in 1 .. DriftEvery /\ measured \in 0 .. Old /\ jumped \in BOOLEAN

\* "TOTP verification refuses (503) instead of trusting a clock nobody has confirmed"
\* (time_service.py, 15-17): a code is judged, rightly or wrongly, only by an offset
\* measured MaxOffsetAge ago at most, plus the wait of its result for the event loop,
\* whatever failed since and however the local clock was set.
NoStaleVerdict ==
    \A code \in -2 .. 2, phase \in 0 .. Period - 1 :
        Verdict(code, phase) # "unavailable" => measured <= MaxOffsetAge + Latency

\* What the settings allow the clock to be off while the local one only drifts.
WorstError == (MaxDelay \div 2) + (MaxOffsetAge + Latency) \div DriftEvery + 1

\* Unless the local clock was set since the offset was measured, and if the settings
\* keep the worst error within a period, the code a right phone shows now is never
\* called wrong, and none is taken that is more than the window and one worst error away.
CodesJudgedRight ==
    ~jumped /\ WorstError <= ValidWindow * Period =>
        \A phase \in 0 .. Period - 1 :
            /\ Verdict(0, phase) # "refused"
            /\ \A code \in -9 .. 9 :
                 Verdict(code, phase) = "accepted" => Abs(code) <= 2 * ValidWindow

\* run: once the server stays reachable the clock of a running application becomes
\* usable again, however long it was not.
Recovers == <>[](reachable /\ at # "down") => []<>Usable

\* The settings leave room for a request in every interval: then a clock whose server
\* stays reachable does not become unusable again.
KeepsUsable ==
    SyncInterval + Timeout + Latency <= MaxOffsetAge
      => (<>[](reachable /\ at # "down") => <>[]Usable)
===============================================================================
