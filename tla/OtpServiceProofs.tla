--------------------------- MODULE OtpServiceProofs ---------------------------
(***************************************************************************)
(* What OtpService guarantees for every number of users, codes and ticks   *)
(* and every setting of its limits: types, the life of a code and its      *)
(* refinement of CodeLifecycle first; then, from "One rolling window" on,  *)
(* what pruned timestamps are enough to guarantee about everything that    *)
(* was ever sent, asked and guessed.                                       *)
(***************************************************************************)
EXTENDS OtpService, FiniteSetTheorems, TLAPS

-------------------------------------------------------------------------------
(* The helpers keep their stores typed. *)

LEMMA UnexpiredSubset == \A S : Unexpired(S) \subseteq S
BY DEF Unexpired

LEMMA PrunedType ==
    ASSUME NEW D, NEW E, NEW logs \in [D -> SUBSET E], NEW age
    PROVE  Pruned(logs, age) \in [D -> SUBSET E]
BY DEF Pruned, Recent

LEMMA ChargedType ==
    ASSUME NEW D, NEW E, NEW logs \in [D -> SUBSET E], NEW age, NEW keys, NEW e \in E
    PROVE  Charged(logs, age, keys, e) \in [D -> SUBSET E]
BY DEF Charged, Recent

LEMMA CoolingType ==
    ASSUME lastSend \in [SendKeys -> Time \cup {Never}]
    PROVE  Cooling \in [SendKeys -> Time \cup {Never}]
BY DEF Cooling

LEMMA PruneCodesType ==
    ASSUME TypeOK, PruneCodes
    PROVE  challenges' \subseteq Challenge /\ pending' \subseteq Challenge
BY UnexpiredSubset DEF PruneCodes, TypeOK

LEMMA PruneLimitsType ==
    ASSUME TypeOK, PruneLimits
    PROVE  /\ lastSend' \in [SendKeys -> Time \cup {Never}]
           /\ sends' \in [Budgets -> SUBSET Claim]
           /\ destinationSends' \in [Places -> SUBSET Claim]
           /\ ipSends' \in [Addresses -> SUBSET Claim]
           /\ ipRequests' \in [Addresses -> SUBSET Request]
<1>1. lastSend' \in [SendKeys -> Time \cup {Never}]
  BY CoolingType DEF PruneLimits, TypeOK
<1>2. sends' \in [Budgets -> SUBSET Claim]
  BY PrunedType DEF PruneLimits, TypeOK
<1>3. destinationSends' \in [Places -> SUBSET Claim]
  BY PrunedType DEF PruneLimits, TypeOK
<1>4. ipSends' \in [Addresses -> SUBSET Claim]
  BY PrunedType DEF PruneLimits, TypeOK
<1>5. ipRequests' \in [Addresses -> SUBSET Request]
  BY PrunedType DEF PruneLimits, TypeOK
<1> QED BY <1>1, <1>2, <1>3, <1>4, <1>5

LEMMA PruneLocksType ==
    ASSUME TypeOK, PruneLocks
    PROVE  totpFailures' \in [Users -> SUBSET Failure] /\ totpLocks' \in [Users -> Nat]
<1>1. totpFailures' \in [Users -> SUBSET Failure]
  BY PrunedType DEF PruneLocks, TypeOK
<1>2. totpLocks' \in [Users -> Nat]
  BY DEF PruneLocks, TypeOK
<1> QED BY <1>1, <1>2

LEMMA ChargeType ==
    ASSUME TypeOK, NEW c \in Claim, c.at = now, Charge(c)
    PROVE  /\ lastSend' \in [SendKeys -> Time \cup {Never}]
           /\ sends' \in [Budgets -> SUBSET Claim]
           /\ destinationSends' \in [Places -> SUBSET Claim]
           /\ ipSends' \in [Addresses -> SUBSET Claim]
           /\ ipRequests' \in [Addresses -> SUBSET Request]
<1>1. lastSend' \in [SendKeys -> Time \cup {Never}]
  BY CoolingType DEF Charge, TypeOK
<1>2. sends' \in [Budgets -> SUBSET Claim]
  BY ChargedType DEF Charge, TypeOK
<1>3. destinationSends' \in [Places -> SUBSET Claim]
  BY ChargedType DEF Charge, TypeOK
<1>4. ipSends' \in [Addresses -> SUBSET Claim]
  BY ChargedType DEF Charge, TypeOK
<1>5. ipRequests' \in [Addresses -> SUBSET Request]
  BY PrunedType DEF Charge, TypeOK
<1> QED BY <1>1, <1>2, <1>3, <1>4, <1>5

LEMMA NewChallengeType ==
    ASSUME TypeOK, NEW c \in Claim, NEW ttl \in Nat
    PROVE  NewChallenge(c, ttl) \in Challenge
BY OtpConstants DEF NewChallenge, Challenge, Claim, TypeOK, Time

-------------------------------------------------------------------------------
(* Each method keeps the types. *)

LEMMA InitTypeOK == Init => TypeOK
BY OtpConstants DEF Init, TypeOK, Time

LEMMA ClaimCodeTypeOK ==
    ASSUME TypeOK, NEW c \in Claim, ClaimCode(c) PROVE TypeOK'
<1>1. c.at = now
  BY DEF ClaimCode
<1>2. NewChallenge(c, CodeTTL) \in Challenge
  BY NewChallengeType, OtpConstants
<1>3. challenges' \subseteq Challenge /\ pending' \subseteq Challenge
  BY <1>2, UnexpiredSubset DEF ClaimCode, TypeOK
<1>4. /\ lastSend' \in [SendKeys -> Time \cup {Never}]
      /\ sends' \in [Budgets -> SUBSET Claim]
      /\ destinationSends' \in [Places -> SUBSET Claim]
      /\ ipSends' \in [Addresses -> SUBSET Claim]
      /\ ipRequests' \in [Addresses -> SUBSET Request]
  BY <1>1, ChargeType DEF ClaimCode
<1>5. totpFailures' \in [Users -> SUBSET Failure] /\ totpLocks' \in [Users -> Nat]
  BY PruneLocksType DEF ClaimCode
<1>6. /\ now' \in Time /\ history' \subseteq Claim /\ requested' \subseteq Request
      /\ discarded' \subseteq Ids /\ accepted' \subseteq Acceptance
      /\ misses' \in [Users -> SUBSET Failure]
  BY DEF ClaimCode, TypeOK
<1> QED BY <1>3, <1>4, <1>5, <1>6 DEF TypeOK

LEMMA CommitTypeOK ==
    ASSUME TypeOK, NEW c, NEW replaces, Commit(c, replaces) PROVE TypeOK'
<1>1. challenges' \subseteq Challenge /\ pending' \subseteq Challenge
  BY DEF Commit, Install, TypeOK
<1> QED BY <1>1 DEF Commit, TypeOK, limits, locks, ghosts

LEMMA OpenTotpTypeOK ==
    ASSUME TypeOK, NEW c \in Claim, NEW throttled \in BOOLEAN, NEW ttl \in Nat,
           NEW replaces, OpenTotp(c, throttled, ttl, replaces)
    PROVE  TypeOK'
<1>1. c.at = now
  BY DEF OpenTotp
<1>2. NewChallenge(c, ttl) \in Challenge
  BY NewChallengeType
<1>3. challenges' \subseteq Challenge /\ pending' \subseteq Challenge
  BY <1>2, UnexpiredSubset DEF OpenTotp, Install, TypeOK
<1>4. /\ lastSend' \in [SendKeys -> Time \cup {Never}]
      /\ sends' \in [Budgets -> SUBSET Claim]
      /\ destinationSends' \in [Places -> SUBSET Claim]
      /\ ipSends' \in [Addresses -> SUBSET Claim]
      /\ ipRequests' \in [Addresses -> SUBSET Request]
  <2>1. CASE throttled
    BY <1>1, <2>1, ChargeType DEF OpenTotp
  <2>2. CASE ~throttled
    BY <2>2, PruneLimitsType DEF OpenTotp
  <2> QED BY <2>1, <2>2
<1>5. totpFailures' \in [Users -> SUBSET Failure] /\ totpLocks' \in [Users -> Nat]
  BY PruneLocksType DEF OpenTotp
<1>6. /\ now' \in Time /\ history' \subseteq Claim /\ requested' \subseteq Request
      /\ discarded' \subseteq Ids /\ accepted' \subseteq Acceptance
      /\ misses' \in [Users -> SUBSET Failure]
  BY DEF OpenTotp, TypeOK
<1> QED BY <1>3, <1>4, <1>5, <1>6 DEF TypeOK

LEMMA DiscardTypeOK ==
    ASSUME TypeOK, NEW c, Discard(c) PROVE TypeOK'
<1>1. c.id \in Ids
  BY DEF Discard, TypeOK, Challenge
<1>2. challenges' \subseteq Challenge /\ pending' \subseteq Challenge
  BY DEF Discard, TypeOK
<1>3. lastSend' \in [SendKeys -> Time \cup {Never}]
  BY DEF Discard, TypeOK
<1> QED BY <1>1, <1>2, <1>3 DEF Discard, TypeOK, locks

LEMMA VerifyRightTypeOK ==
    ASSUME TypeOK, NEW c \in challenges, VerifyRight(c) PROVE TypeOK'
<1>1. c \in Challenge
  BY DEF TypeOK
<1>2. challenges' \subseteq Challenge /\ pending' \subseteq Challenge
  BY UnexpiredSubset DEF VerifyRight, TypeOK
<1>3. Pruned(totpFailures, Window) \in [Users -> SUBSET Failure]
  BY PrunedType DEF TypeOK
<1>4. totpFailures' \in [Users -> SUBSET Failure] /\ totpLocks' \in [Users -> Nat]
  BY <1>3 DEF VerifyRight, TypeOK
<1>5. accepted' \subseteq Acceptance
  BY <1>1 DEF VerifyRight, TypeOK, Acceptance, Challenge
<1>6. misses' \in [Users -> SUBSET Failure]
  BY DEF VerifyRight, TypeOK
<1>7. PruneLimits
  BY DEF VerifyRight
<1>8. /\ now' \in Time /\ history' \subseteq Claim /\ requested' \subseteq Request
      /\ discarded' \subseteq Ids
  BY DEF VerifyRight, TypeOK
<1> QED BY <1>2, <1>4, <1>5, <1>6, <1>7, <1>8, PruneLimitsType DEF TypeOK

LEMMA VerifyWrongTypeOK ==
    ASSUME TypeOK, NEW c \in challenges, VerifyWrong(c) PROVE TypeOK'
<1> DEFINE miss == [id |-> c.id, left |-> c.left, at |-> now]
<1>1. c \in Challenge /\ miss \in Failure
  BY DEF TypeOK, Challenge, Failure
<1>2. c.left > 1 => [c EXCEPT !.left = @ - 1] \in Challenge
  BY <1>1, OtpConstants DEF Challenge
<1>3. challenges' \subseteq Challenge /\ pending' \subseteq Challenge
  BY <1>2, UnexpiredSubset DEF VerifyWrong, TypeOK
<1>4. Pruned(totpFailures, Window) \in [Users -> SUBSET Failure]
  BY PrunedType DEF TypeOK
<1>5. /\ totpFailures' \in [Users -> SUBSET Failure] /\ totpLocks' \in [Users -> Nat]
      /\ misses' \in [Users -> SUBSET Failure]
  <2>1. CASE c.method = "TOTP"
    <3>1. Recent(totpFailures[c.user], Window) \cup {miss} \subseteq Failure
      BY <1>1 DEF Recent, TypeOK, Challenge
    <3>2. totpFailures' \in [Users -> SUBSET Failure]
      BY <2>1, <3>1, <1>4 DEF VerifyWrong
    <3>3. now + Lockout \in Nat
      BY OtpConstants DEF TypeOK, Time
    <3>4. totpLocks' \in [Users -> Nat]
      BY <2>1, <3>3 DEF VerifyWrong, TypeOK
    <3>5. misses' \in [Users -> SUBSET Failure]
      BY <2>1, <1>1 DEF VerifyWrong, TypeOK
    <3> QED BY <3>2, <3>4, <3>5
  <2>2. CASE c.method # "TOTP"
    BY <2>2, PruneLocksType DEF VerifyWrong, TypeOK
  <2> QED BY <2>1, <2>2
<1>6. PruneLimits
  BY DEF VerifyWrong
<1>7. /\ now' \in Time /\ history' \subseteq Claim /\ requested' \subseteq Request
      /\ discarded' \subseteq Ids /\ accepted' \subseteq Acceptance
  BY DEF VerifyWrong, TypeOK
<1> QED BY <1>3, <1>5, <1>6, <1>7, PruneLimitsType DEF TypeOK

LEMMA ReserveRequestSlotTypeOK ==
    ASSUME TypeOK, NEW r \in Request, ReserveRequestSlot(r) PROVE TypeOK'
<1>1. challenges' \subseteq Challenge /\ pending' \subseteq Challenge
  BY PruneCodesType DEF ReserveRequestSlot
<1>2. totpFailures' \in [Users -> SUBSET Failure] /\ totpLocks' \in [Users -> Nat]
  BY PruneLocksType DEF ReserveRequestSlot
<1>3. lastSend' \in [SendKeys -> Time \cup {Never}]
  BY CoolingType DEF ReserveRequestSlot, TypeOK
<1>4. sends' \in [Budgets -> SUBSET Claim]
  BY PrunedType DEF ReserveRequestSlot, TypeOK
<1>5. destinationSends' \in [Places -> SUBSET Claim]
  BY PrunedType DEF ReserveRequestSlot, TypeOK
<1>6. ipSends' \in [Addresses -> SUBSET Claim]
  BY PrunedType DEF ReserveRequestSlot, TypeOK
<1>7. ipRequests' \in [Addresses -> SUBSET Request]
  BY ChargedType DEF ReserveRequestSlot, TypeOK
<1>8. /\ now' \in Time /\ history' \subseteq Claim /\ requested' \subseteq Request
      /\ discarded' \subseteq Ids /\ accepted' \subseteq Acceptance
      /\ misses' \in [Users -> SUBSET Failure]
  BY DEF ReserveRequestSlot, TypeOK
<1> QED BY <1>1, <1>2, <1>3, <1>4, <1>5, <1>6, <1>7, <1>8 DEF TypeOK

LEMMA SweepTypeOK == ASSUME TypeOK, Sweep PROVE TypeOK'
<1>1. PruneCodes /\ PruneLimits /\ PruneLocks
  BY DEF Sweep
<1>2. /\ now' \in Time /\ history' \subseteq Claim /\ requested' \subseteq Request
      /\ discarded' \subseteq Ids /\ accepted' \subseteq Acceptance
      /\ misses' \in [Users -> SUBSET Failure]
  BY DEF Sweep, TypeOK, ghosts
<1> QED BY <1>1, <1>2, PruneCodesType, PruneLimitsType, PruneLocksType DEF TypeOK

LEMMA InvalidateUserTypeOK ==
    ASSUME TypeOK, NEW u \in Users, InvalidateUser(u) PROVE TypeOK'
BY DEF InvalidateUser, TypeOK, limits

LEMMA TickTypeOK == ASSUME TypeOK, Tick PROVE TypeOK'
<1>1. now' \in Time
  BY OtpConstants DEF Tick, TypeOK, Time
<1> QED BY <1>1 DEF Tick, TypeOK, limits, locks, ghosts

-------------------------------------------------------------------------------
(* A step of Next, one case per method, with its inputs typed. *)

ClaimStep == \E c \in Claim : c.at = now /\ ClaimCode(c)
OpenStep == \E c \in Claim, throttled \in BOOLEAN, ttl \in Nat, replaces \in Supersedes :
    /\ ttl = TTL(c) /\ c.at = now /\ c.address = None
    /\ throttled = Throttled(c)
    /\ OpenTotp(c, throttled, ttl, replaces)

LEMMA NextCases ==
    ASSUME TypeOK, Next
    PROVE  \/ ClaimStep
           \/ \E c \in pending, replaces \in Supersedes : Commit(c, replaces)
           \/ OpenStep
           \/ \E c \in pending : Discard(c)
           \/ \E c \in challenges : VerifyRight(c)
           \/ \E c \in challenges : VerifyWrong(c)
           \/ \E r \in Request : ReserveRequestSlot(r)
           \/ Sweep
           \/ \E u \in Users : InvalidateUser(u)
           \/ Tick
<1> DEFINE Sent == [id : Ids \ Minted, user : Users, purpose : Purposes,
                    method : SentMethods, destination : Destinations,
                    address : Addresses \cup {None}, at : {now}]
           Opened == [id : Ids \ Minted, user : Users, purpose : Purposes,
                      method : {"TOTP"}, destination : {None}, address : {None}, at : {now}]
<1>1. Sent \subseteq Claim /\ \A c \in Sent : c.at = now
  BY DEF Claim, SentMethods, TypeOK
<1>2. \A c \in Opened : /\ c.at = now /\ c.method = "TOTP" /\ c.address = None
                         /\ "TOTP" \in Methods => c \in Claim
  BY DEF Claim, TypeOK
<1>3. \A r \in [id : Requests, address : Addresses, at : {now}] : r \in Request
  BY DEF Request, TypeOK
<1>4. ASSUME NEW c \in Opened, NEW replaces \in Supersedes,
             IF c.purpose = "verify_contact" THEN OpenTotp(c, FALSE, EnrolTTL, replaces)
                                             ELSE OpenTotp(c, TRUE, CodeTTL, replaces)
      PROVE  OpenStep
  <2>1. c.at = now /\ c.method = "TOTP" /\ c.address = None
    BY <1>2
  <2>2. "TOTP" \in Methods
    BY <1>4 DEF OpenTotp
  <2>3. c \in Claim
    BY <1>2, <2>2
  <2>4. EnrolTTL \in Nat /\ CodeTTL \in Nat
    BY OtpConstants
  <2>5. CASE c.purpose = "verify_contact"
    <3>1. TTL(c) = EnrolTTL /\ OpenTotp(c, FALSE, EnrolTTL, replaces)
      BY <1>4, <2>1, <2>5 DEF TTL
    <3>2. Throttled(c) = FALSE
      BY <2>1, <2>5 DEF Throttled, SendsMessage
    <3> QED BY <2>1, <2>3, <2>4, <3>1, <3>2 DEF OpenStep
  <2>6. CASE c.purpose # "verify_contact"
    <3>1. TTL(c) = CodeTTL /\ OpenTotp(c, TRUE, CodeTTL, replaces)
      BY <1>4, <2>1, <2>6 DEF TTL
    <3>2. Throttled(c) = TRUE
      BY <2>1, <2>6 DEF Throttled, SendsMessage
    <3> QED BY <2>1, <2>3, <2>4, <3>1, <3>2 DEF OpenStep
  <2> QED BY <2>5, <2>6
<1>5. CASE \E c \in Sent : Asked(c) /\ ClaimCode(c)
  BY <1>1, <1>5 DEF ClaimStep
<1>6. CASE \E c \in Opened, replaces \in Supersedes :
             /\ CanSupersede(c, replaces)
             /\ IF c.purpose = "verify_contact" THEN OpenTotp(c, FALSE, EnrolTTL, replaces)
                                                ELSE OpenTotp(c, TRUE, CodeTTL, replaces)
  BY <1>4, <1>6
<1>7. CASE \E r \in [id : Requests, address : Addresses, at : {now}] : ReserveRequestSlot(r)
  BY <1>3, <1>7
<1> QED BY <1>5, <1>6, <1>7 DEF Next

LEMMA NextTypeOK == TypeOK /\ [Next]_vars => TypeOK'
<1> SUFFICES ASSUME TypeOK, [Next]_vars PROVE TypeOK'
  OBVIOUS
<1>1. CASE UNCHANGED vars
  BY <1>1 DEF vars, limits, locks, ghosts, TypeOK
<1>2. CASE ClaimStep
  BY <1>2, ClaimCodeTypeOK DEF ClaimStep
<1>3. CASE \E c \in pending, replaces \in Supersedes : Commit(c, replaces)
  BY <1>3, CommitTypeOK
<1>4. CASE OpenStep
  BY <1>4, OpenTotpTypeOK DEF OpenStep
<1>5. CASE \E c \in pending : Discard(c)
  BY <1>5, DiscardTypeOK
<1>6. CASE \E c \in challenges : VerifyRight(c)
  BY <1>6, VerifyRightTypeOK
<1>7. CASE \E c \in challenges : VerifyWrong(c)
  BY <1>7, VerifyWrongTypeOK
<1>8. CASE \E r \in Request : ReserveRequestSlot(r)
  BY <1>8, ReserveRequestSlotTypeOK
<1>9. CASE Sweep
  BY <1>9, SweepTypeOK
<1>10. CASE \E u \in Users : InvalidateUser(u)
  BY <1>10, InvalidateUserTypeOK
<1>11. CASE Tick
  BY <1>11, TickTypeOK
<1> QED BY <1>1, <1>2, <1>3, <1>4, <1>5, <1>6, <1>7, <1>8, <1>9, <1>10, <1>11, NextCases

(***************************************************************************)
(* The store holds what its annotations say, whatever the limits, the      *)
(* number of users and the order of the calls.                             *)
(***************************************************************************)
THEOREM TypeCorrect == Spec => []TypeOK
BY InitTypeOK, NextTypeOK, PTL DEF Spec

-------------------------------------------------------------------------------
(* The codes themselves.  OneCodePerFlow and AcceptedOnceInTime are not    *)
(* inductive: a challenge that shared its id with a spent code, or whose   *)
(* claim was never made, could break them in one step.                     *)

UniqueIds ==
    /\ \A c, d \in challenges : c.id = d.id => c = d
    /\ \A c, d \in pending : c.id = d.id => c = d
    /\ \A c \in challenges, d \in pending : c.id # d.id
    /\ \A g, h \in history : g.id = h.id => g = h

\* Where a challenge comes from: its claim, whose lifetime it carries.
ClaimOf(c, h) ==
    /\ h.id = c.id /\ h.user = c.user /\ h.purpose = c.purpose
    /\ h.at <= now /\ c.expires = h.at + TTL(h)
Claimed == \A c \in challenges \cup pending : \E h \in history : ClaimOf(c, h)

SpentIsGone ==
    /\ \A x, y \in accepted : x.id = y.id => x = y
    /\ \A x \in accepted : x.id \in Minted
    /\ \A x \in accepted : \A c \in challenges \cup pending : c.id # x.id
    /\ \A x \in accepted : \E h \in history :
          h.id = x.id /\ h.at <= x.at /\ x.at < h.at + TTL(h)

CodeInv == UniqueIds /\ Claimed /\ SpentIsGone /\ OneCodePerFlow

\* Most methods only take codes away.
Shrinks ==
    /\ challenges' \subseteq challenges /\ pending' \subseteq pending
    /\ history' = history /\ accepted' = accepted
    /\ now' \in Time /\ now <= now'

LEMMA HistoryTimes ==
    ASSUME TypeOK
    PROVE  \A h \in history : h.at \in Int /\ TTL(h) \in Int
BY OtpConstants DEF TypeOK, Claim, Time, TTL

LEMMA ShrinksKeepsCodeInv == ASSUME TypeOK, CodeInv, Shrinks PROVE CodeInv'
<1>1. UniqueIds'
  BY DEF CodeInv, Shrinks, UniqueIds
<1>2. Claimed'
  <2>1. now \in Int /\ now' \in Int
    BY DEF Shrinks, TypeOK, Time
  <2> QED BY <2>1, HistoryTimes DEF CodeInv, Shrinks, Claimed, ClaimOf, TTL
<1>3. SpentIsGone'
  BY DEF CodeInv, Shrinks, SpentIsGone, Minted, Named, TTL
<1>4. OneCodePerFlow'
  BY DEF CodeInv, Shrinks, OneCodePerFlow, SameFlow
<1> QED BY <1>1, <1>2, <1>3, <1>4 DEF CodeInv

LEMMA NewChallengeClaimed ==
    ASSUME TypeOK, NEW c \in Claim, c.at = now, NEW ttl \in Nat, ttl = TTL(c)
    PROVE  /\ ClaimOf(NewChallenge(c, ttl), c)
           /\ NewChallenge(c, ttl).id = c.id
BY DEF ClaimOf, NewChallenge, TypeOK, Time

LEMMA ClaimCodeKeepsCodeInv ==
    ASSUME TypeOK, CodeInv, NEW c \in Claim, c.at = now, ClaimCode(c)
    PROVE  CodeInv'
<1> DEFINE n == NewChallenge(c, CodeTTL)
<1>1. c.id \notin Minted /\ c.method # "TOTP"
  BY DEF ClaimCode, SentMethods
<1>2. CodeTTL \in Nat /\ CodeTTL = TTL(c)
  BY <1>1, OtpConstants DEF TTL
<1>3. n.id = c.id /\ ClaimOf(n, c)
  BY <1>2, NewChallengeClaimed
<1>4. /\ challenges' \subseteq challenges /\ pending' \subseteq pending \cup {n}
      /\ history' = history \cup {c} /\ accepted' = accepted /\ now' = now
  BY UnexpiredSubset DEF ClaimCode
<1>5. \A d \in challenges \cup pending : d.id \in Minted
  BY DEF CodeInv, Claimed, ClaimOf, Minted, Named
<1>6. \A h \in history : h.id # c.id
  BY <1>1 DEF Minted, Named
<1>7. UniqueIds'
  BY <1>1, <1>3, <1>4, <1>5, <1>6 DEF CodeInv, UniqueIds
<1>8. Claimed'
  BY <1>3, <1>4 DEF CodeInv, Claimed, ClaimOf, TTL
<1>9. SpentIsGone'
  BY <1>1, <1>3, <1>4 DEF CodeInv, SpentIsGone, Minted, Named, TTL
<1>10. OneCodePerFlow'
  BY <1>4 DEF CodeInv, OneCodePerFlow, SameFlow
<1> QED BY <1>7, <1>8, <1>9, <1>10 DEF CodeInv

LEMMA CommitKeepsCodeInv ==
    ASSUME TypeOK, CodeInv, NEW c \in pending, NEW replaces, Commit(c, replaces)
    PROVE  CodeInv'
<1>1. /\ pending' = pending \ {c} /\ history' = history
      /\ accepted' = accepted /\ now' = now
  BY DEF Commit, ghosts
<1>2. CASE challenges' = challenges
  BY <1>1, <1>2, ShrinksKeepsCodeInv DEF Shrinks, TypeOK, Time
<1>3. CASE challenges' = Install(challenges, c)
  <2>1. challenges' = {d \in challenges : ~SameFlow(d, c)} \cup {c}
    BY <1>3 DEF Install
  <2>2. UniqueIds'
    BY <1>1, <2>1 DEF CodeInv, UniqueIds
  <2>3. Claimed'
    BY <1>1, <2>1 DEF CodeInv, Claimed, ClaimOf, TTL
  <2>4. SpentIsGone'
    BY <1>1, <2>1 DEF CodeInv, SpentIsGone, Minted, Named, TTL
  <2>5. OneCodePerFlow'
    BY <2>1 DEF CodeInv, OneCodePerFlow, SameFlow
  <2> QED BY <2>2, <2>3, <2>4, <2>5 DEF CodeInv
<1> QED BY <1>2, <1>3 DEF Commit

LEMMA OpenTotpKeepsCodeInv ==
    ASSUME TypeOK, CodeInv, NEW c \in Claim, c.at = now, NEW throttled,
           NEW ttl \in Nat, ttl = TTL(c), NEW replaces, OpenTotp(c, throttled, ttl, replaces)
    PROVE  CodeInv'
<1> DEFINE n == NewChallenge(c, ttl)
<1>1. c.id \notin Minted
  BY DEF OpenTotp
<1>2. n.id = c.id /\ n.user = c.user /\ n.purpose = c.purpose /\ ClaimOf(n, c)
  BY NewChallengeClaimed DEF NewChallenge
<1>3. /\ pending' \subseteq pending /\ history' = history \cup {c}
      /\ accepted' = accepted /\ now' = now
  BY UnexpiredSubset DEF OpenTotp
<1>4. \/ challenges' \subseteq challenges
      \/ /\ n \in challenges'
         /\ \A d \in challenges' : d = n \/ (d \in challenges /\ ~SameFlow(d, n))
  BY UnexpiredSubset DEF OpenTotp, Install
<1>5. \A d \in challenges \cup pending : d.id \in Minted
  BY DEF CodeInv, Claimed, ClaimOf, Minted, Named
<1>6. \A h \in history : h.id # c.id
  BY <1>1 DEF Minted, Named
<1>7. UniqueIds'
  BY <1>1, <1>2, <1>3, <1>4, <1>5, <1>6 DEF CodeInv, UniqueIds
<1>8. Claimed'
  BY <1>2, <1>3, <1>4 DEF CodeInv, Claimed, ClaimOf, TTL
<1>9. SpentIsGone'
  BY <1>1, <1>2, <1>3, <1>4 DEF CodeInv, SpentIsGone, Minted, Named, TTL
<1>10. OneCodePerFlow'
  BY <1>4 DEF CodeInv, OneCodePerFlow, SameFlow
<1> QED BY <1>7, <1>8, <1>9, <1>10 DEF CodeInv

LEMMA VerifyRightKeepsCodeInv ==
    ASSUME TypeOK, CodeInv, NEW c \in challenges, VerifyRight(c)
    PROVE  CodeInv'
<1> DEFINE x == [id |-> c.id, at |-> now]
<1>1. /\ challenges' \subseteq challenges \ {c} /\ pending' \subseteq pending
      /\ history' = history /\ accepted' = accepted \cup {x} /\ now' = now
      /\ c.expires > now
  BY UnexpiredSubset DEF VerifyRight, Unexpired
<1>2. x.id = c.id /\ x.at = now
  OBVIOUS
<1>3. PICK h \in history : ClaimOf(c, h)
  BY DEF CodeInv, Claimed
<1>4. h.id = x.id /\ h.at <= x.at /\ x.at < h.at + TTL(h)
  <2>1. c.expires \in Int /\ now \in Int
    BY DEF TypeOK, Challenge, Time
  <2> QED BY <1>1, <1>2, <1>3, <2>1, HistoryTimes DEF ClaimOf
<1>5. UniqueIds'
  BY <1>1 DEF CodeInv, UniqueIds
<1>6. Claimed'
  BY <1>1 DEF CodeInv, Claimed, ClaimOf, TTL
<1>7. \A d \in challenges' \cup pending' : d.id # x.id
  BY <1>1, <1>2 DEF CodeInv, UniqueIds
<1>8. SpentIsGone'
  BY <1>1, <1>2, <1>4, <1>7 DEF CodeInv, SpentIsGone, Minted, Named, TTL
<1>9. OneCodePerFlow'
  BY <1>1 DEF CodeInv, OneCodePerFlow, SameFlow
<1> QED BY <1>5, <1>6, <1>8, <1>9 DEF CodeInv

LEMMA VerifyWrongKeepsCodeInv ==
    ASSUME TypeOK, CodeInv, NEW c \in challenges, VerifyWrong(c)
    PROVE  CodeInv'
<1>1. PICK d \in Challenge :
        /\ d.id = c.id /\ d.user = c.user /\ d.purpose = c.purpose /\ d.expires = c.expires
        /\ challenges' \subseteq (challenges \ {c}) \cup {d}
  <2>1. c \in Challenge
    BY DEF TypeOK
  <2>2. CASE c.left > 1
    <3> DEFINE e == [c EXCEPT !.left = @ - 1]
    <3>1. /\ e \in Challenge
          /\ e.id = c.id /\ e.user = c.user /\ e.purpose = c.purpose /\ e.expires = c.expires
      BY <2>1, <2>2, OtpConstants DEF Challenge
    <3>2. challenges' \subseteq (challenges \ {c}) \cup {e}
      BY <2>2, UnexpiredSubset DEF VerifyWrong
    <3> QED BY <3>1, <3>2
  <2>3. CASE ~(c.left > 1)
    BY <2>1, <2>3, UnexpiredSubset DEF VerifyWrong
  <2> QED BY <2>2, <2>3
<1>2. /\ pending' \subseteq pending /\ history' = history
      /\ accepted' = accepted /\ now' = now
  BY UnexpiredSubset DEF VerifyWrong
<1>3. UniqueIds'
  BY <1>1, <1>2 DEF CodeInv, UniqueIds
<1>4. Claimed'
  BY <1>1, <1>2 DEF CodeInv, Claimed, ClaimOf, TTL
<1>5. SpentIsGone'
  BY <1>1, <1>2 DEF CodeInv, SpentIsGone, Minted, Named, TTL
<1>6. OneCodePerFlow'
  BY <1>1, <1>2 DEF CodeInv, OneCodePerFlow, SameFlow
<1> QED BY <1>3, <1>4, <1>5, <1>6 DEF CodeInv

LEMMA OtherStepsShrink ==
    ASSUME TypeOK,
           \/ UNCHANGED vars
           \/ \E c \in pending : Discard(c)
           \/ \E r \in Request : ReserveRequestSlot(r)
           \/ Sweep
           \/ \E u \in Users : InvalidateUser(u)
           \/ Tick
    PROVE  Shrinks
<1>1. now \in Int
  BY DEF TypeOK, Time
<1>2. CASE UNCHANGED vars
  BY <1>1, <1>2 DEF vars, ghosts, Shrinks, TypeOK
<1>3. CASE \E c \in pending : Discard(c)
  BY <1>1, <1>3 DEF Discard, Shrinks, TypeOK
<1>4. CASE \E r \in Request : ReserveRequestSlot(r)
  BY <1>1, <1>4, UnexpiredSubset DEF ReserveRequestSlot, PruneCodes, Shrinks, TypeOK
<1>5. CASE Sweep
  BY <1>1, <1>5, UnexpiredSubset DEF Sweep, PruneCodes, ghosts, Shrinks, TypeOK
<1>6. CASE \E u \in Users : InvalidateUser(u)
  BY <1>1, <1>6 DEF InvalidateUser, Shrinks, TypeOK
<1>7. CASE Tick
  BY <1>1, <1>7, TickTypeOK DEF Tick, ghosts, Shrinks, TypeOK
<1> QED BY <1>2, <1>3, <1>4, <1>5, <1>6, <1>7

LEMMA InitCodeInv == Init => CodeInv
BY DEF Init, CodeInv, UniqueIds, Claimed, SpentIsGone, OneCodePerFlow

LEMMA NextCodeInv == TypeOK /\ CodeInv /\ [Next]_vars => CodeInv'
<1> SUFFICES ASSUME TypeOK, CodeInv, [Next]_vars PROVE CodeInv'
  OBVIOUS
<1>1. CASE ClaimStep
  BY <1>1, ClaimCodeKeepsCodeInv DEF ClaimStep
<1>2. CASE \E c \in pending, replaces \in Supersedes : Commit(c, replaces)
  BY <1>2, CommitKeepsCodeInv
<1>3. CASE OpenStep
  BY <1>3, OpenTotpKeepsCodeInv DEF OpenStep
<1>4. CASE \E c \in challenges : VerifyRight(c)
  BY <1>4, VerifyRightKeepsCodeInv
<1>5. CASE \E c \in challenges : VerifyWrong(c)
  BY <1>5, VerifyWrongKeepsCodeInv
<1> QED BY <1>1, <1>2, <1>3, <1>4, <1>5, NextCases, OtherStepsShrink, ShrinksKeepsCodeInv

(***************************************************************************)
(* commit and claim_totp: at most one code per user and purpose is live,   *)
(* whatever the order of claims, sends and commits.                        *)
(***************************************************************************)
THEOREM OneLiveCode == Spec => []OneCodePerFlow
<1>1. CodeInv => OneCodePerFlow
  BY DEF CodeInv
<1> QED BY <1>1, TypeCorrect, InitCodeInv, NextCodeInv, PTL DEF Spec

(***************************************************************************)
(* verify: a code opens its flow once, and only before the lifetime that   *)
(* started at its claim has run out.                                       *)
(***************************************************************************)
THEOREM CodesWorkOnce == Spec => []AcceptedOnceInTime
<1>1. CodeInv => AcceptedOnceInTime
  BY DEF CodeInv, SpentIsGone, AcceptedOnceInTime, Named
<1> QED BY <1>1, TypeCorrect, InitCodeInv, NextCodeInv, PTL DEF Spec

-------------------------------------------------------------------------------
(* OtpService implements CodeLifecycle. *)

StageFacts ==
    /\ StageOfCode \in [Ids -> Codes!Stages]
    /\ \A i \in Ids :
         /\ StageOfCode[i] = "new" <=> i \notin Minted
         /\ StageOfCode[i] = "sending" <=> i \in Named(pending)
         /\ StageOfCode[i] = "live" <=> i \in Named(challenges)
         /\ StageOfCode[i] = "spent" <=> i \in Named(accepted)

FlowFacts ==
    /\ FlowOfCode \in [Ids -> (Users \X Purposes) \cup {<<>>}]
    /\ \A h \in history : FlowOfCode[h.id] = <<h.user, h.purpose>>
    /\ \A c \in challenges \cup pending : FlowOfCode[c.id] = <<c.user, c.purpose>>

LEMMA CodesAreMinted ==
    ASSUME CodeInv
    PROVE  /\ \A c \in challenges \cup pending : c.id \in Minted
           /\ \A x \in accepted : x.id \in Minted
BY DEF CodeInv, Claimed, ClaimOf, SpentIsGone, Minted, Named

LEMMA StageFactsHold == TypeOK /\ CodeInv => StageFacts
<1> SUFFICES ASSUME TypeOK, CodeInv PROVE StageFacts
  OBVIOUS
<1>1. StageOfCode \in [Ids -> Codes!Stages]
  BY DEF StageOfCode, Codes!Stages
<1>2. /\ Named(pending) \subseteq Minted /\ Named(challenges) \subseteq Minted
      /\ Named(accepted) \subseteq Minted
  BY CodesAreMinted DEF Named
<1>3. /\ Named(pending) \cap Named(challenges) = {}
      /\ Named(pending) \cap Named(accepted) = {}
      /\ Named(challenges) \cap Named(accepted) = {}
  BY DEF CodeInv, UniqueIds, SpentIsGone, Named
<1> QED BY <1>1, <1>2, <1>3 DEF StageFacts, StageOfCode

LEMMA FlowFactsHold == TypeOK /\ CodeInv => FlowFacts
<1> SUFFICES ASSUME TypeOK, CodeInv PROVE FlowFacts
  OBVIOUS
<1>1. ASSUME NEW h \in history
      PROVE  /\ h.id \in Ids /\ h.id \in Minted
             /\ (CHOOSE c \in history : c.id = h.id) = h
  BY <1>1 DEF TypeOK, Claim, Minted, Named, CodeInv, UniqueIds
<1>2. \A h \in history : FlowOfCode[h.id] = <<h.user, h.purpose>>
  BY <1>1 DEF FlowOfCode
<1>3. FlowOfCode \in [Ids -> (Users \X Purposes) \cup {<<>>}]
  <2>1. ASSUME NEW i \in Ids, i \in Minted
        PROVE  FlowOfCode[i] \in Users \X Purposes
    <3>1. PICK h \in history : h.id = i
      BY <2>1 DEF Minted, Named
    <3>2. h.user \in Users /\ h.purpose \in Purposes
      BY DEF TypeOK, Claim
    <3>3. FlowOfCode[i] = <<h.user, h.purpose>>
      BY <1>2, <3>1
    <3> QED BY <3>2, <3>3
  <2>2. \A i \in Ids : i \notin Minted => FlowOfCode[i] = <<>>
    BY DEF FlowOfCode
  <2>3. \A i \in Ids : FlowOfCode[i] \in (Users \X Purposes) \cup {<<>>}
    BY <2>1, <2>2
  <2> QED BY <2>3 DEF FlowOfCode
<1>4. \A c \in challenges \cup pending : FlowOfCode[c.id] = <<c.user, c.purpose>>
  BY <1>2 DEF CodeInv, Claimed, ClaimOf
<1> QED BY <1>2, <1>3, <1>4 DEF FlowFacts

\* The codes a step finds lapsed.
Gone == {i \in Codes!Held : StageOfCode'[i] = "dead"}

\* Every code but the one the step is about stays where it is, or lapses.
LEMMA OthersLapse ==
    ASSUME StageFacts, StageFacts', NEW moved \in SUBSET Ids,
           \A j \in Ids \ moved :
              /\ j \in Minted' <=> j \in Minted
              /\ j \in Named(accepted)' <=> j \in Named(accepted)
              /\ j \in Named(challenges)' => j \in Named(challenges)
              /\ j \in Named(pending)' => j \in Named(pending)
    PROVE  \A j \in Ids \ moved : StageOfCode'[j] = Codes!Lapse(Gone)[j]
BY DEF StageFacts, Gone, Codes!Held, Codes!Lapse, Codes!Stages

LEMMA ShrinksDrops ==
    ASSUME TypeOK, CodeInv, StageFacts, StageFacts', Shrinks
    PROVE  Codes!Drop(Gone)
<1>1. \A j \in Ids \ {} : /\ j \in Minted' <=> j \in Minted
                          /\ j \in Named(accepted)' <=> j \in Named(accepted)
                          /\ j \in Named(challenges)' => j \in Named(challenges)
                          /\ j \in Named(pending)' => j \in Named(pending)
  BY DEF Shrinks, Minted, Named
<1>2. {} \in SUBSET Ids
  OBVIOUS
<1>3. \A j \in Ids \ {} : StageOfCode'[j] = Codes!Lapse(Gone)[j]
  BY ONLY <1>1, <1>2, OthersLapse, StageFacts, StageFacts'
<1>4. StageOfCode' = Codes!Lapse(Gone)
  BY <1>3 DEF StageFacts, Codes!Lapse
<1>5. FlowOfCode' = FlowOfCode
  BY DEF FlowOfCode, Shrinks, Minted, Named
<1> QED BY <1>4, <1>5 DEF Codes!Drop

\* One code moves to another stage, the others stay or lapse.
LEMMA OneMoves ==
    ASSUME StageFacts, StageFacts', NEW i \in Ids, NEW to, StageOfCode'[i] = to,
           \A j \in Ids \ {i} : StageOfCode'[j] = Codes!Lapse(Gone)[j]
    PROVE  Codes!Move(i, to, Gone)
<1>1. StageOfCode' = [Codes!Lapse(Gone) EXCEPT ![i] = to]
  BY DEF StageFacts, Codes!Lapse
<1> QED BY <1>1 DEF Codes!Move

\* A claim, sent or opened, mints its id for its flow.
LEMMA ClaimMints ==
    ASSUME TypeOK, StageFacts, FlowFacts, FlowFacts', NEW c \in Claim,
           c.id \notin Minted, history' = history \cup {c}
    PROVE  Codes!Mint(c.id, <<c.user, c.purpose>>)
<1>1. c.id \in Ids
  BY DEF Claim
<1>2. StageOfCode[c.id] = "new"
  BY <1>1 DEF StageFacts
<1>3. \A i \in Ids : FlowOfCode'[i] = IF i = c.id THEN <<c.user, c.purpose>> ELSE FlowOfCode[i]
  <2>1. FlowOfCode'[c.id] = <<c.user, c.purpose>>
    BY DEF FlowFacts
  <2>2. ASSUME NEW i \in Ids, i # c.id, i \in Minted PROVE FlowOfCode'[i] = FlowOfCode[i]
    <3>1. PICK h \in history : h.id = i
      BY <2>2 DEF Minted, Named
    <3> QED BY <3>1 DEF FlowFacts
  <2>3. ASSUME NEW i \in Ids, i # c.id, i \notin Minted PROVE FlowOfCode'[i] = FlowOfCode[i]
    <3>1. i \notin Minted'
      BY <2>3 DEF Minted, Named
    <3> QED BY <2>3, <3>1 DEF FlowOfCode
  <2> QED BY <2>1, <2>2, <2>3
<1>4. FlowOfCode' = [FlowOfCode EXCEPT ![c.id] = <<c.user, c.purpose>>]
  BY <1>3 DEF FlowFacts
<1> QED BY <1>2, <1>4 DEF Codes!Mint

\* The codes of the flow a new one is installed in have lapsed.
LEMMA OthersOfFlowGone ==
    ASSUME TypeOK, CodeInv, CodeInv', StageFacts, StageFacts', FlowFacts, FlowFacts',
           NEW d \in challenges', d \in Challenge, NEW f, f = <<d.user, d.purpose>>,
           StageOfCode[d.id] # "live",
           history \subseteq history', accepted' = accepted, pending' \subseteq pending
    PROVE  Codes!LiveIn(f) \subseteq Gone
<1> SUFFICES ASSUME NEW j \in Ids, StageOfCode[j] = "live", FlowOfCode[j] = f
             PROVE  j \in Gone
  BY DEF Codes!LiveIn
<1>1. PICK c \in challenges : c.id = j
  BY DEF StageFacts, Named
<1>2. c.user = d.user /\ c.purpose = d.purpose
  BY <1>1 DEF FlowFacts
<1>3. j \in Minted /\ j \in Minted'
  BY DEF StageFacts, Minted, Named
<1>4. StageOfCode'[j] # "live"
  <2> SUFFICES ASSUME StageOfCode'[j] = "live" PROVE FALSE
    OBVIOUS
  <2>1. PICK e \in challenges' : e.id = j
    BY DEF StageFacts, Named
  <2>2. PICK g \in history : g.id = j /\ g.user = c.user /\ g.purpose = c.purpose
    BY <1>1 DEF CodeInv, Claimed, ClaimOf
  <2>3. PICK h \in history' : h.id = j /\ h.user = e.user /\ h.purpose = e.purpose
    BY <2>1 DEF CodeInv, Claimed, ClaimOf
  <2>4. g = h
    BY <2>2, <2>3 DEF CodeInv, UniqueIds
  <2>5. e = d
    BY <1>2, <2>2, <2>3, <2>4 DEF CodeInv, OneCodePerFlow, SameFlow
  <2> QED BY <2>1, <2>5
<1>5. StageOfCode'[j] # "sending" /\ StageOfCode'[j] # "spent" /\ StageOfCode'[j] # "new"
  BY <1>3 DEF StageFacts, Named
<1> QED BY <1>4, <1>5 DEF Gone, Codes!Held, StageFacts, Codes!Stages

LEMMA ClaimCodeRefines ==
    ASSUME TypeOK, TypeOK', CodeInv, CodeInv', StageFacts, StageFacts', FlowFacts, FlowFacts',
           NEW c \in Claim, ClaimCode(c)
    PROVE  Codes!Next
<1> DEFINE n == NewChallenge(c, CodeTTL)
<1>1. /\ c.id \in Ids /\ c.id \notin Minted /\ <<c.user, c.purpose>> \in Users \X Purposes
      /\ history' = history \cup {c}
  BY DEF Claim, ClaimCode
<1>2. /\ n.id = c.id /\ n \in pending' /\ pending' \subseteq pending \cup {n}
      /\ challenges' \subseteq challenges /\ accepted' = accepted
  BY UnexpiredSubset DEF ClaimCode, NewChallenge
<1>3. Codes!Mint(c.id, <<c.user, c.purpose>>)
  BY <1>1, ClaimMints
<1>4. \A j \in Ids \ {c.id} : /\ j \in Minted' <=> j \in Minted
                              /\ j \in Named(accepted)' <=> j \in Named(accepted)
                              /\ j \in Named(challenges)' => j \in Named(challenges)
                              /\ j \in Named(pending)' => j \in Named(pending)
  BY <1>1, <1>2 DEF Minted, Named
<1>5. {c.id} \in SUBSET Ids
  BY <1>1
<1>6. \A j \in Ids \ {c.id} : StageOfCode'[j] = Codes!Lapse(Gone)[j]
  BY ONLY <1>4, <1>5, OthersLapse, StageFacts, StageFacts'
<1>7. StageOfCode'[c.id] = "sending"
  BY <1>1, <1>2 DEF StageFacts, Named
<1>8. Codes!Move(c.id, "sending", Gone)
  BY <1>1, <1>6, <1>7, OneMoves
<1>9. Gone \in SUBSET Codes!Held
  BY DEF Gone
<1> QED BY <1>1, <1>3, <1>8, <1>9 DEF Codes!Next, Codes!StartSending

LEMMA CommitRefines ==
    ASSUME TypeOK, TypeOK', CodeInv, CodeInv', StageFacts, StageFacts', FlowFacts, FlowFacts',
           NEW c \in pending, NEW replaces, Commit(c, replaces)
    PROVE  Codes!Next
<1>1. /\ pending' = pending \ {c} /\ history' = history
      /\ accepted' = accepted /\ now' = now
  BY DEF Commit, ghosts
<1>2. Gone \in SUBSET Codes!Held
  BY DEF Gone
<1>3. CASE challenges' = challenges
  <2>1. Shrinks
    BY <1>1, <1>3 DEF Shrinks, TypeOK, Time
  <2> QED BY <1>2, <2>1, ShrinksDrops DEF Codes!Next
<1>4. CASE challenges' = Install(challenges, c)
  <2>1. c \in Challenge /\ c.id \in Ids
    BY DEF TypeOK, Challenge
  <2>2. c \in challenges' /\ challenges' \subseteq challenges \cup {c}
    BY <1>4 DEF Install
  <2>3. StageOfCode[c.id] = "sending" /\ StageOfCode'[c.id] = "live"
    BY <2>1, <2>2 DEF StageFacts, Named
  <2>4. \A j \in Ids \ {c.id} : /\ j \in Minted' <=> j \in Minted
                                /\ j \in Named(accepted)' <=> j \in Named(accepted)
                                /\ j \in Named(challenges)' => j \in Named(challenges)
                                /\ j \in Named(pending)' => j \in Named(pending)
    BY <1>1, <2>2 DEF Minted, Named
  <2>5. {c.id} \in SUBSET Ids
    BY <2>1
  <2>6. \A j \in Ids \ {c.id} : StageOfCode'[j] = Codes!Lapse(Gone)[j]
    BY ONLY <2>4, <2>5, OthersLapse, StageFacts, StageFacts'
  <2>7. Codes!Move(c.id, "live", Gone)
    BY <2>1, <2>3, <2>6, OneMoves
  <2>8. Codes!LiveIn(<<c.user, c.purpose>>) \subseteq Gone
    BY <1>1, <2>1, <2>2, <2>3, OthersOfFlowGone
  <2>9. FlowOfCode[c.id] = <<c.user, c.purpose>>
    BY DEF FlowFacts
  <2>10. FlowOfCode' = FlowOfCode
    BY <1>1 DEF FlowOfCode, Minted, Named
  <2>11. c.id \notin Gone
    BY <2>3 DEF Gone
  <2>12. Codes!Install(c.id, Gone)
    BY <2>3, <2>7, <2>8, <2>9, <2>10, <2>11 DEF Codes!Install
  <2> QED BY <1>2, <2>1, <2>12 DEF Codes!Next
<1> QED BY <1>3, <1>4 DEF Commit

LEMMA OpenTotpRefines ==
    ASSUME TypeOK, TypeOK', CodeInv, CodeInv', StageFacts, StageFacts', FlowFacts, FlowFacts',
           NEW c \in Claim, NEW throttled, NEW ttl \in Nat, NEW replaces,
           OpenTotp(c, throttled, ttl, replaces)
    PROVE  Codes!Next
<1> DEFINE n == NewChallenge(c, ttl)
           f == <<c.user, c.purpose>>
<1>1. /\ c.id \in Ids /\ c.id \notin Minted /\ f \in Users \X Purposes
      /\ history' = history \cup {c} /\ accepted' = accepted
  BY DEF Claim, OpenTotp
<1>2. /\ n.id = c.id /\ n.user = c.user /\ n.purpose = c.purpose
      /\ pending' \subseteq pending /\ challenges' \subseteq challenges \cup {n}
  BY UnexpiredSubset DEF OpenTotp, Install, NewChallenge
<1>3. Codes!Mint(c.id, f)
  BY <1>1, ClaimMints
<1>4. \A j \in Ids \ {c.id} : /\ j \in Minted' <=> j \in Minted
                              /\ j \in Named(accepted)' <=> j \in Named(accepted)
                              /\ j \in Named(challenges)' => j \in Named(challenges)
                              /\ j \in Named(pending)' => j \in Named(pending)
  BY <1>1, <1>2 DEF Minted, Named
<1>5. {c.id} \in SUBSET Ids
  BY <1>1
<1>6. \A j \in Ids \ {c.id} : StageOfCode'[j] = Codes!Lapse(Gone)[j]
  BY ONLY <1>4, <1>5, OthersLapse, StageFacts, StageFacts'
<1>7. Gone \in SUBSET Codes!Held
  BY DEF Gone
<1>8. CASE n \in challenges'
  <2>1. n \in Challenge
    BY <1>8 DEF TypeOK
  <2>2. StageOfCode[c.id] = "new" /\ StageOfCode'[c.id] = "live"
    BY <1>1, <1>2, <1>8 DEF StageFacts, Named
  <2>3. Codes!Move(c.id, "live", Gone)
    BY <1>1, <1>6, <2>2, OneMoves
  <2>4. f = <<n.user, n.purpose>> /\ history \subseteq history' /\ StageOfCode[n.id] # "live"
    BY <1>1, <1>2, <2>2
  <2>5. Codes!LiveIn(f) \subseteq Gone
    BY <1>1, <1>2, <1>8, <2>1, <2>4, OthersOfFlowGone
  <2>6. Codes!Open(c.id, f, Gone)
    BY <1>3, <2>3, <2>5 DEF Codes!Open
  <2> QED BY <1>1, <1>7, <2>6 DEF Codes!Next
<1>9. CASE n \notin challenges'
  <2>1. c.id \in Minted'
    BY <1>1 DEF Minted, Named
  <2>2. /\ c.id \notin Named(challenges) /\ c.id \notin Named(pending)
        /\ c.id \notin Named(accepted)
    BY <1>1, CodesAreMinted DEF Named
  <2>3. StageOfCode'[c.id] = "dead"
    BY <1>1, <1>2, <1>9, <2>1, <2>2 DEF StageFacts, Codes!Stages, Named
  <2>4. Codes!Move(c.id, "dead", Gone)
    BY <1>1, <1>6, <2>3, OneMoves
  <2>5. Codes!Refuse(c.id, f, Gone)
    BY <1>3, <2>4 DEF Codes!Refuse
  <2> QED BY <1>1, <1>7, <2>5 DEF Codes!Next
<1> QED BY <1>8, <1>9

LEMMA VerifyRightRefines ==
    ASSUME TypeOK, TypeOK', CodeInv, CodeInv', StageFacts, StageFacts',
           NEW c \in challenges, VerifyRight(c)
    PROVE  Codes!Next
<1> DEFINE x == [id |-> c.id, at |-> now]
<1>1. /\ challenges' \subseteq challenges /\ pending' \subseteq pending
      /\ history' = history /\ accepted' = accepted \cup {x} /\ x.id = c.id
  BY UnexpiredSubset DEF VerifyRight
<1>2. c.id \in Ids
  BY DEF TypeOK, Challenge
<1>3. \A j \in Ids \ {c.id} : /\ j \in Minted' <=> j \in Minted
                              /\ j \in Named(accepted)' <=> j \in Named(accepted)
                              /\ j \in Named(challenges)' => j \in Named(challenges)
                              /\ j \in Named(pending)' => j \in Named(pending)
  BY <1>1 DEF Minted, Named
<1>4. {c.id} \in SUBSET Ids
  BY <1>2
<1>5. \A j \in Ids \ {c.id} : StageOfCode'[j] = Codes!Lapse(Gone)[j]
  BY ONLY <1>3, <1>4, OthersLapse, StageFacts, StageFacts'
<1>6. StageOfCode[c.id] = "live" /\ StageOfCode'[c.id] = "spent"
  BY <1>1, <1>2 DEF StageFacts, Named
<1>7. Codes!Move(c.id, "spent", Gone)
  BY <1>2, <1>5, <1>6, OneMoves
<1>8. FlowOfCode' = FlowOfCode /\ c.id \notin Gone /\ Gone \in SUBSET Codes!Held
  BY <1>1, <1>6 DEF FlowOfCode, Minted, Named, Gone
<1>9. Codes!Spend(c.id, Gone)
  BY <1>6, <1>7, <1>8 DEF Codes!Spend
<1> QED BY <1>2, <1>8, <1>9 DEF Codes!Next

\* A wrong guess replaces a challenge by itself with one attempt less.
LEMMA VerifyWrongRefines ==
    ASSUME TypeOK, TypeOK', CodeInv, CodeInv', StageFacts, StageFacts',
           NEW c \in challenges, VerifyWrong(c)
    PROVE  Codes!Next
<1>1. \A d \in challenges' : d.id \in Named(challenges)
  BY UnexpiredSubset DEF VerifyWrong, Named, TypeOK, Challenge
<1>2. /\ pending' \subseteq pending /\ history' = history /\ accepted' = accepted
  BY UnexpiredSubset DEF VerifyWrong
<1>3. \A j \in Ids \ {} : /\ j \in Minted' <=> j \in Minted
                          /\ j \in Named(accepted)' <=> j \in Named(accepted)
                          /\ j \in Named(challenges)' => j \in Named(challenges)
                          /\ j \in Named(pending)' => j \in Named(pending)
  BY <1>1, <1>2 DEF Minted, Named
<1>4. {} \in SUBSET Ids
  OBVIOUS
<1>5. \A j \in Ids \ {} : StageOfCode'[j] = Codes!Lapse(Gone)[j]
  BY ONLY <1>3, <1>4, OthersLapse, StageFacts, StageFacts'
<1>6. StageOfCode' = Codes!Lapse(Gone)
  BY <1>5 DEF StageFacts, Codes!Lapse
<1>7. FlowOfCode' = FlowOfCode /\ Gone \in SUBSET Codes!Held
  BY <1>2 DEF FlowOfCode, Minted, Named, Gone
<1> QED BY <1>6, <1>7 DEF Codes!Next, Codes!Drop

LEMMA InitRefines == Init => Codes!Init
BY DEF Init, Codes!Init, StageOfCode, FlowOfCode, Minted, Named

LEMMA NextRefines ==
    ASSUME TypeOK, TypeOK', CodeInv, CodeInv', StageFacts, StageFacts', FlowFacts, FlowFacts',
           [Next]_vars
    PROVE  [Codes!Next]_Codes!vars
<1>1. CASE ClaimStep
  BY <1>1, ClaimCodeRefines DEF ClaimStep
<1>2. CASE \E c \in pending, replaces \in Supersedes : Commit(c, replaces)
  BY <1>2, CommitRefines
<1>3. CASE OpenStep
  BY <1>3, OpenTotpRefines DEF OpenStep
<1>4. CASE \E c \in challenges : VerifyRight(c)
  BY <1>4, VerifyRightRefines
<1>5. CASE \E c \in challenges : VerifyWrong(c)
  BY <1>5, VerifyWrongRefines
<1>6. ASSUME Shrinks PROVE Codes!Next
  <2>1. Gone \in SUBSET Codes!Held
    BY DEF Gone
  <2> QED BY <1>6, <2>1, ShrinksDrops DEF Codes!Next
<1> QED BY <1>1, <1>2, <1>3, <1>4, <1>5, <1>6, NextCases, OtherStepsShrink

(***************************************************************************)
(* The store, with all its limits, implements the life of a single-use     *)
(* code: its callers may reason about CodeLifecycle instead.               *)
(***************************************************************************)
THEOREM Implements == Spec => CodesAreSingleUse
<1>1. TypeOK /\ CodeInv => StageFacts /\ FlowFacts
  BY StageFactsHold, FlowFactsHold
<1>2. TypeOK /\ TypeOK' /\ CodeInv /\ CodeInv' /\ StageFacts /\ StageFacts'
        /\ FlowFacts /\ FlowFacts' /\ [Next]_vars => [Codes!Next]_Codes!vars
  BY NextRefines
<1> QED BY <1>1, <1>2, InitRefines, InitTypeOK, NextTypeOK, InitCodeInv, NextCodeInv, PTL
        DEF Spec, CodesAreSingleUse, Codes!Spec

-------------------------------------------------------------------------------
(* One rolling window.  A cap on every stretch of the whole log is not     *)
(* inductive: the code counts what its pruned store still holds, so that   *)
(* store must hold every entry a stretch ending now could contain.         *)

Counted(store, log, age, cap, t) ==
    /\ store \subseteq log /\ IsFiniteSet(log)
    /\ \A e \in log : e.at \in Nat /\ e.at <= t
    /\ \A e \in log : e.at >= t - age => e \in store
    /\ Sliding(log, age, cap)

LEMMA CountedPrunes ==
    ASSUME NEW store, NEW log, NEW age \in Nat, NEW cap, now \in Nat,
           Counted(store, log, age, cap, now)
    PROVE  Counted(Recent(store, age), log, age, cap, now)
BY DEF Counted, Recent

LEMMA CountedAges ==
    ASSUME NEW store, NEW log, NEW age \in Nat, NEW cap, now \in Nat,
           Counted(store, log, age, cap, now)
    PROVE  Counted(store, log, age, cap, now + 1)
BY DEF Counted

LEMMA CountedGrows ==
    ASSUME NEW store, NEW log, NEW age \in Nat, NEW cap \in Nat, now \in Nat,
           Counted(store, log, age, cap, now), NEW c, c.at = now,
           Cardinality(Recent(store, age)) < cap
    PROVE  Counted(Recent(store, age) \cup {c}, log \cup {c}, age, cap, now)
<1> DEFINE kept == Recent(store, age)
           Stretch(S, e) == {f \in S : e.at <= f.at /\ f.at <= e.at + age}
<1>1. /\ kept \subseteq log /\ IsFiniteSet(log) /\ kept \in SUBSET log
      /\ \A e \in log : e.at \in Nat /\ e.at <= now
      /\ \A e \in log : e.at >= now - age => e \in kept
  BY DEF Counted, Recent
<1>2. IsFiniteSet(kept) /\ Cardinality(kept) \in Nat
  BY <1>1, FS_Subset, FS_CardinalityType
<1>3. IsFiniteSet(kept \cup {c}) /\ Cardinality(kept \cup {c}) <= cap
      /\ Cardinality(kept \cup {c}) \in Nat
  <2>1. IsFiniteSet(kept \cup {c})
        /\ Cardinality(kept \cup {c}) = IF c \in kept THEN Cardinality(kept)
                                                      ELSE Cardinality(kept) + 1
    BY <1>2, FS_AddElement
  <2>2. Cardinality(kept) < cap
    OBVIOUS
  <2> QED BY <1>2, <2>1, <2>2
<1>4. IsFiniteSet(log \cup {c})
  BY <1>1, FS_AddElement
<1>5. ASSUME NEW e \in log \cup {c}
      PROVE  Cardinality(Stretch(log \cup {c}, e)) <= cap
  <2>1. CASE e.at + age >= now
    <3>1. Stretch(log \cup {c}, e) \in SUBSET (kept \cup {c})
      BY <1>1, <1>5, <2>1
    <3>2. /\ IsFiniteSet(Stretch(log \cup {c}, e))
          /\ Cardinality(Stretch(log \cup {c}, e)) <= Cardinality(kept \cup {c})
      BY <1>3, <3>1, FS_Subset
    <3>3. Cardinality(Stretch(log \cup {c}, e)) \in Nat
      BY <3>2, FS_CardinalityType
    <3> HIDE DEF kept, Stretch
    <3> QED BY <1>3, <3>2, <3>3
  <2>2. CASE ~(e.at + age >= now)
    <3>1. e \in log
      BY <1>5, <2>2
    <3>2. Stretch(log \cup {c}, e) = Stretch(log, e)
      BY <1>1, <2>2, <3>1
    <3>3. Cardinality(Stretch(log, e)) <= cap
      BY <3>1 DEF Counted, Sliding
    <3> QED BY <3>2, <3>3
  <2> QED BY <2>1, <2>2
<1>6. Sliding(log \cup {c}, age, cap)
  BY <1>5 DEF Sliding
<1>7. /\ kept \cup {c} \subseteq log \cup {c}
      /\ \A e \in log \cup {c} : e.at \in Nat /\ e.at <= now
      /\ \A e \in log \cup {c} : e.at >= now - age => e \in kept \cup {c}
  BY <1>1
<1> QED BY <1>4, <1>6, <1>7 DEF Counted

-------------------------------------------------------------------------------
(* The four windows of the store and the log each of them bounds. *)

SentBy == [k \in Budgets |->
    {c \in history : SendsMessage(c) /\ LimitGroup(c.purpose) = k[1] /\ c.user = k[2]}]
SentTo == [k \in Places |-> {c \in history : c.method = k[1] /\ c.destination = k[2]}]
SentFrom == [a \in Addresses |-> {c \in history : c.address = a}]
RequestedFrom == [a \in Addresses |-> {r \in requested : r.address = a}]

UsersCounted ==
    \A k \in Budgets : Counted(sends[k], SentBy[k], Day, DailyCap(k[1]), now)
PlacesCounted ==
    \A k \in Places : Counted(destinationSends[k], SentTo[k], Window, DestinationCap, now)
AddressesCounted ==
    \A a \in Addresses : Counted(ipSends[a], SentFrom[a], Window, AddressCap, now)
RequestsCounted ==
    \A a \in Addresses : Counted(ipRequests[a], RequestedFrom[a], Window, AddressCap, now)
WindowsInv == UsersCounted /\ PlacesCounted /\ AddressesCounted /\ RequestsCounted

LEMMA Settings ==
    /\ Day \in Nat /\ Window \in Nat /\ DestinationCap \in Nat /\ AddressCap \in Nat
    /\ \A g : DailyCap(g) \in Nat
BY OtpConstants DEF DailyCap

LEMMA WindowsShow == WindowsInv => DestinationWindow /\ AddressWindow /\ DailyAllowance
<1> SUFFICES ASSUME WindowsInv PROVE DestinationWindow /\ AddressWindow /\ DailyAllowance
  OBVIOUS
<1>1. ASSUME NEW m \in SentMethods, NEW d \in Destinations
      PROVE  Sliding({c \in history : c.method = m /\ c.destination = d}, Window,
                     DestinationCap)
  <2>1. <<m, d>> \in Places /\ <<m, d>>[1] = m /\ <<m, d>>[2] = d
    BY DEF Places
  <2>2. SentTo[<<m, d>>] = {c \in history : c.method = m /\ c.destination = d}
    BY <2>1 DEF SentTo
  <2> QED BY <2>1, <2>2 DEF WindowsInv, PlacesCounted, Counted
<1>2. ASSUME NEW a \in Addresses
      PROVE  /\ Sliding({c \in history : c.address = a}, Window, AddressCap)
             /\ Sliding({r \in requested : r.address = a}, Window, AddressCap)
  <2>1. /\ SentFrom[a] = {c \in history : c.address = a}
        /\ RequestedFrom[a] = {r \in requested : r.address = a}
    BY DEF SentFrom, RequestedFrom
  <2> QED BY <2>1 DEF WindowsInv, AddressesCounted, RequestsCounted, Counted
<1>3. ASSUME NEW g \in Groups, NEW u \in Users
      PROVE  Sliding({c \in history : /\ SendsMessage(c) /\ LimitGroup(c.purpose) = g
                                      /\ c.user = u}, Day, DailyCap(g))
  <2>1. <<g, u>> \in Budgets /\ <<g, u>>[1] = g /\ <<g, u>>[2] = u
    BY DEF Budgets
  <2>2. SentBy[<<g, u>>] =
          {c \in history : SendsMessage(c) /\ LimitGroup(c.purpose) = g /\ c.user = u}
    BY <2>1 DEF SentBy
  <2> QED BY <2>1, <2>2 DEF WindowsInv, UsersCounted, Counted
<1>4. DestinationWindow
  BY <1>1 DEF DestinationWindow
<1>5. AddressWindow
  BY <1>2 DEF AddressWindow
<1>6. DailyAllowance
  BY <1>3 DEF DailyAllowance
<1> QED BY <1>4, <1>5, <1>6

LEMMA InitWindowsInv == Init => WindowsInv
<1> SUFFICES ASSUME Init PROVE WindowsInv
  OBVIOUS
<1>1. ASSUME NEW age, NEW cap PROVE Counted({}, {}, age, cap, now)
  BY FS_EmptySet DEF Counted, Sliding
<1>2. /\ \A k \in Budgets : sends[k] = {} /\ SentBy[k] = {}
      /\ \A k \in Places : destinationSends[k] = {} /\ SentTo[k] = {}
      /\ \A a \in Addresses : /\ ipSends[a] = {} /\ SentFrom[a] = {}
                              /\ ipRequests[a] = {} /\ RequestedFrom[a] = {}
  BY DEF Init, SentBy, SentTo, SentFrom, RequestedFrom
<1> QED BY <1>1, <1>2 DEF WindowsInv, UsersCounted, PlacesCounted, AddressesCounted,
                          RequestsCounted

\* Every call that sends nothing: the windows are left alone or pruned.
LogsSame ==
    /\ SentBy' = SentBy /\ SentTo' = SentTo /\ SentFrom' = SentFrom
    /\ RequestedFrom' = RequestedFrom
StoresPruned ==
    /\ sends' = Pruned(sends, Day)
    /\ destinationSends' = Pruned(destinationSends, Window)
    /\ ipSends' = Pruned(ipSends, Window)
    /\ ipRequests' = Pruned(ipRequests, Window)
StoresSame ==
    /\ sends' = sends /\ destinationSends' = destinationSends
    /\ ipSends' = ipSends /\ ipRequests' = ipRequests

LEMMA HistorySameLogsSame ==
    ASSUME history' = history, requested' = requested PROVE LogsSame
BY DEF LogsSame, SentBy, SentTo, SentFrom, RequestedFrom

LEMMA SameKeepsWindows ==
    ASSUME WindowsInv, StoresSame, LogsSame, now' = now PROVE WindowsInv'
<1>1. UsersCounted'
  BY DEF WindowsInv, UsersCounted, StoresSame, LogsSame
<1>2. PlacesCounted'
  BY DEF WindowsInv, PlacesCounted, StoresSame, LogsSame
<1>3. AddressesCounted'
  BY DEF WindowsInv, AddressesCounted, StoresSame, LogsSame
<1>4. RequestsCounted'
  BY DEF WindowsInv, RequestsCounted, StoresSame, LogsSame
<1> QED BY <1>1, <1>2, <1>3, <1>4 DEF WindowsInv

LEMMA TickKeepsWindows ==
    ASSUME TypeOK, WindowsInv, StoresSame, LogsSame, now' = now + 1 PROVE WindowsInv'
<1>1. now \in Nat
  BY DEF TypeOK, Time
<1>2. UsersCounted'
  BY <1>1, Settings, CountedAges DEF WindowsInv, UsersCounted, StoresSame, LogsSame
<1>3. PlacesCounted'
  BY <1>1, Settings, CountedAges DEF WindowsInv, PlacesCounted, StoresSame, LogsSame
<1>4. AddressesCounted'
  BY <1>1, Settings, CountedAges DEF WindowsInv, AddressesCounted, StoresSame, LogsSame
<1>5. RequestsCounted'
  BY <1>1, Settings, CountedAges DEF WindowsInv, RequestsCounted, StoresSame, LogsSame
<1> QED BY <1>2, <1>3, <1>4, <1>5 DEF WindowsInv

LEMMA PruningKeepsWindows ==
    ASSUME TypeOK, WindowsInv, StoresPruned, LogsSame, now' = now PROVE WindowsInv'
<1>1. now \in Nat
  BY DEF TypeOK, Time
<1>2. /\ \A k \in Budgets : sends'[k] = Recent(sends[k], Day)
      /\ \A k \in Places : destinationSends'[k] = Recent(destinationSends[k], Window)
      /\ \A a \in Addresses : /\ ipSends'[a] = Recent(ipSends[a], Window)
                              /\ ipRequests'[a] = Recent(ipRequests[a], Window)
  BY DEF StoresPruned, Pruned, TypeOK
<1>3. UsersCounted'
  BY <1>1, <1>2, Settings, CountedPrunes DEF WindowsInv, UsersCounted, LogsSame
<1>4. PlacesCounted'
  BY <1>1, <1>2, Settings, CountedPrunes DEF WindowsInv, PlacesCounted, LogsSame
<1>5. AddressesCounted'
  BY <1>1, <1>2, Settings, CountedPrunes DEF WindowsInv, AddressesCounted, LogsSame
<1>6. RequestsCounted'
  BY <1>1, <1>2, Settings, CountedPrunes DEF WindowsInv, RequestsCounted, LogsSame
<1> QED BY <1>3, <1>4, <1>5, <1>6 DEF WindowsInv

\* A charged claim: each window it falls into had room, the others are pruned.
LEMMA ChargeKeepsWindows ==
    ASSUME TypeOK, WindowsInv, NEW c \in Claim, c.at = now, Admitted(c), Charge(c),
           history' = history \cup {c}, requested' = requested, now' = now
    PROVE  WindowsInv'
<1>1. now \in Nat
  BY DEF TypeOK, Time
<1>2. UsersCounted'
  <2> SUFFICES ASSUME NEW k \in Budgets
               PROVE  Counted(sends[k], SentBy[k], Day, DailyCap(k[1]), now)'
    BY DEF UsersCounted
  <2> DEFINE hit == SendsMessage(c) /\ k = BudgetOf(c)
  <2>0. k = <<k[1], k[2]>>
    BY DEF Budgets
  <2>1. Counted(sends[k], SentBy[k], Day, DailyCap(k[1]), now)
    BY DEF WindowsInv, UsersCounted
  <2>2. sends'[k] = Recent(sends[k], Day) \cup (IF hit THEN {c} ELSE {})
    BY DEF Charge, Charged, TypeOK
  <2>3. hit <=> SendsMessage(c) /\ LimitGroup(c.purpose) = k[1] /\ c.user = k[2]
    BY <2>0 DEF BudgetOf
  <2>4. SentBy'[k] = SentBy[k] \cup (IF hit THEN {c} ELSE {})
    BY <2>3 DEF SentBy, SendsMessage, LimitGroup
  <2>5. CASE hit
    <3>1. Cardinality(Recent(sends[k], Day)) < DailyCap(k[1])
      BY <2>3, <2>5 DEF Admitted
    <3> QED BY <1>1, <2>1, <2>2, <2>4, <2>5, <3>1, Settings, CountedGrows
  <2>6. CASE ~hit
    <3>1. sends'[k] = Recent(sends[k], Day) /\ SentBy'[k] = SentBy[k]
      BY <2>2, <2>4, <2>6
    <3> QED BY <1>1, <2>1, <3>1, Settings, CountedPrunes
  <2> QED BY <2>5, <2>6
<1>3. PlacesCounted'
  <2> SUFFICES ASSUME NEW k \in Places
               PROVE  Counted(destinationSends[k], SentTo[k], Window, DestinationCap, now)'
    BY DEF PlacesCounted
  <2> DEFINE hit == k = <<c.method, c.destination>>
  <2>0. k = <<k[1], k[2]>> /\ k[2] \in Destinations
    BY DEF Places
  <2>1. Counted(destinationSends[k], SentTo[k], Window, DestinationCap, now)
    BY DEF WindowsInv, PlacesCounted
  <2>2. destinationSends'[k] =
          Recent(destinationSends[k], Window) \cup (IF hit THEN {c} ELSE {})
    BY DEF Charge, Charged, TypeOK
  <2>3. hit <=> c.method = k[1] /\ c.destination = k[2]
    BY <2>0
  <2>4. SentTo'[k] = SentTo[k] \cup (IF hit THEN {c} ELSE {})
    BY <2>3 DEF SentTo
  <2>5. CASE hit
    <3>1. c.destination # None
      BY <2>0, <2>3, <2>5, OtpConstants
    <3>2. Cardinality(Recent(destinationSends[k], Window)) < DestinationCap
      BY <2>5, <3>1 DEF Admitted
    <3> QED BY <1>1, <2>1, <2>2, <2>4, <2>5, <3>2, Settings, CountedGrows
  <2>6. CASE ~hit
    <3>1. destinationSends'[k] = Recent(destinationSends[k], Window) /\ SentTo'[k] = SentTo[k]
      BY <2>2, <2>4, <2>6
    <3> QED BY <1>1, <2>1, <3>1, Settings, CountedPrunes
  <2> QED BY <2>5, <2>6
<1>4. AddressesCounted'
  <2> SUFFICES ASSUME NEW a \in Addresses
               PROVE  Counted(ipSends[a], SentFrom[a], Window, AddressCap, now)'
    BY DEF AddressesCounted
  <2>1. Counted(ipSends[a], SentFrom[a], Window, AddressCap, now)
    BY DEF WindowsInv, AddressesCounted
  <2>2. ipSends'[a] = Recent(ipSends[a], Window) \cup (IF a = c.address THEN {c} ELSE {})
    BY DEF Charge, Charged, TypeOK
  <2>3. SentFrom'[a] = SentFrom[a] \cup (IF a = c.address THEN {c} ELSE {})
    BY DEF SentFrom
  <2>4. CASE a = c.address
    <3>1. Cardinality(Recent(ipSends[a], Window)) < AddressCap
      BY <2>4, OtpConstants DEF Admitted
    <3> QED BY <1>1, <2>1, <2>2, <2>3, <2>4, <3>1, Settings, CountedGrows
  <2>5. CASE a # c.address
    <3>1. ipSends'[a] = Recent(ipSends[a], Window) /\ SentFrom'[a] = SentFrom[a]
      BY <2>2, <2>3, <2>5
    <3> QED BY <1>1, <2>1, <3>1, Settings, CountedPrunes
  <2> QED BY <2>4, <2>5
<1>5. RequestsCounted'
  <2>1. \A a \in Addresses : /\ ipRequests'[a] = Recent(ipRequests[a], Window)
                             /\ RequestedFrom'[a] = RequestedFrom[a]
    BY DEF Charge, Pruned, RequestedFrom, TypeOK
  <2> QED BY <1>1, <2>1, Settings, CountedPrunes DEF WindowsInv, RequestsCounted
<1> QED BY <1>2, <1>3, <1>4, <1>5 DEF WindowsInv

LEMMA RequestKeepsWindows ==
    ASSUME TypeOK, WindowsInv, NEW r \in Request, ReserveRequestSlot(r) PROVE WindowsInv'
<1>1. now \in Nat /\ now' = now /\ r.at = now
  BY DEF TypeOK, Time, ReserveRequestSlot
<1>2. SentBy' = SentBy /\ SentTo' = SentTo /\ SentFrom' = SentFrom
  BY DEF ReserveRequestSlot, SentBy, SentTo, SentFrom
<1>3. /\ \A k \in Budgets : sends'[k] = Recent(sends[k], Day)
      /\ \A k \in Places : destinationSends'[k] = Recent(destinationSends[k], Window)
      /\ \A a \in Addresses : ipSends'[a] = Recent(ipSends[a], Window)
  BY DEF ReserveRequestSlot, Pruned, TypeOK
<1>4. UsersCounted'
  BY <1>1, <1>2, <1>3, Settings, CountedPrunes DEF WindowsInv, UsersCounted
<1>5. PlacesCounted'
  BY <1>1, <1>2, <1>3, Settings, CountedPrunes DEF WindowsInv, PlacesCounted
<1>6. AddressesCounted'
  BY <1>1, <1>2, <1>3, Settings, CountedPrunes DEF WindowsInv, AddressesCounted
<1>7. RequestsCounted'
  <2> SUFFICES ASSUME NEW a \in Addresses
               PROVE  Counted(ipRequests[a], RequestedFrom[a], Window, AddressCap, now)'
    BY DEF RequestsCounted
  <2>1. Counted(ipRequests[a], RequestedFrom[a], Window, AddressCap, now)
    BY DEF WindowsInv, RequestsCounted
  <2>2. ipRequests'[a] = Recent(ipRequests[a], Window) \cup (IF a = r.address THEN {r} ELSE {})
    BY DEF ReserveRequestSlot, Charged, TypeOK
  <2>3. RequestedFrom'[a] = RequestedFrom[a] \cup (IF a = r.address THEN {r} ELSE {})
    BY DEF RequestedFrom, ReserveRequestSlot
  <2>4. CASE a = r.address
    <3>1. Cardinality(Recent(ipRequests[a], Window)) < AddressCap
      BY <2>4 DEF ReserveRequestSlot
    <3> QED BY <1>1, <2>1, <2>2, <2>3, <2>4, <3>1, Settings, CountedGrows
  <2>5. CASE a # r.address
    <3>1. /\ ipRequests'[a] = Recent(ipRequests[a], Window)
          /\ RequestedFrom'[a] = RequestedFrom[a]
      BY <2>2, <2>3, <2>5
    <3> QED BY <1>1, <2>1, <3>1, Settings, CountedPrunes
  <2> QED BY <2>4, <2>5
<1> QED BY <1>4, <1>5, <1>6, <1>7 DEF WindowsInv

\* An enrolment is not throttled: it falls into no window, so none is charged.
LEMMA EnrolmentLogsSame ==
    ASSUME NEW c, c.method = "TOTP", c.address = None,
           history' = history \cup {c}, requested' = requested
    PROVE  LogsSame
<1>1. \A k \in Places : k[1] # "TOTP"
  BY DEF Places, SentMethods
<1>2. SentBy' = SentBy
  BY DEF SentBy, SendsMessage, LimitGroup
<1>3. SentTo' = SentTo
  BY <1>1 DEF SentTo
<1>4. SentFrom' = SentFrom
  BY OtpConstants DEF SentFrom
<1>5. RequestedFrom' = RequestedFrom
  BY DEF RequestedFrom
<1> QED BY <1>2, <1>3, <1>4, <1>5 DEF LogsSame

LEMMA NextWindowsInv == TypeOK /\ WindowsInv /\ [Next]_vars => WindowsInv'
<1> SUFFICES ASSUME TypeOK, WindowsInv, [Next]_vars PROVE WindowsInv'
  OBVIOUS
<1>1. CASE UNCHANGED vars
  BY <1>1, SameKeepsWindows, HistorySameLogsSame DEF vars, limits, ghosts, StoresSame
<1>2. CASE ClaimStep
  <2>1. PICK c \in Claim : c.at = now /\ ClaimCode(c)
    BY <1>2 DEF ClaimStep
  <2>2. /\ Admitted(c) /\ Charge(c)
        /\ history' = history \cup {c} /\ requested' = requested /\ now' = now
    BY <2>1 DEF ClaimCode
  <2> QED BY <2>1, <2>2, ChargeKeepsWindows
<1>3. CASE \E c \in pending, replaces \in Supersedes : Commit(c, replaces)
  BY <1>3, SameKeepsWindows, HistorySameLogsSame DEF Commit, limits, ghosts, StoresSame
<1>4. CASE OpenStep
  <2>1. PICK c \in Claim, throttled \in BOOLEAN, ttl \in Nat, replaces \in Supersedes :
          c.at = now /\ c.address = None /\ OpenTotp(c, throttled, ttl, replaces)
    BY <1>4 DEF OpenStep
  <2>2. /\ c.method = "TOTP" /\ now' = now
        /\ history' = history \cup {c} /\ requested' = requested
    BY <2>1 DEF OpenTotp
  <2>3. CASE throttled
    <3>1. Admitted(c) /\ Charge(c)
      BY <2>1, <2>3 DEF OpenTotp
    <3> QED BY <2>1, <2>2, <3>1, ChargeKeepsWindows
  <2>4. CASE ~throttled
    <3>1. StoresPruned
      BY <2>1, <2>4 DEF OpenTotp, PruneLimits, StoresPruned
    <3> QED BY <2>1, <2>2, <3>1, EnrolmentLogsSame, PruningKeepsWindows
  <2> QED BY <2>3, <2>4
<1>5. CASE \E c \in pending : Discard(c)
  BY <1>5, SameKeepsWindows, HistorySameLogsSame DEF Discard, StoresSame
<1>6. CASE \E c \in challenges : VerifyRight(c)
  BY <1>6, PruningKeepsWindows, HistorySameLogsSame
     DEF VerifyRight, PruneLimits, StoresPruned
<1>7. CASE \E c \in challenges : VerifyWrong(c)
  BY <1>7, PruningKeepsWindows, HistorySameLogsSame
     DEF VerifyWrong, PruneLimits, StoresPruned
<1>8. CASE \E r \in Request : ReserveRequestSlot(r)
  BY <1>8, RequestKeepsWindows
<1>9. CASE Sweep
  BY <1>9, PruningKeepsWindows, HistorySameLogsSame
     DEF Sweep, PruneLimits, StoresPruned, ghosts
<1>10. CASE \E u \in Users : InvalidateUser(u)
  BY <1>10, SameKeepsWindows, HistorySameLogsSame DEF InvalidateUser, limits, StoresSame
<1>11. CASE Tick
  BY <1>11, TickKeepsWindows, HistorySameLogsSame DEF Tick, limits, ghosts, StoresSame
<1> QED BY <1>1, <1>2, <1>3, <1>4, <1>5, <1>6, <1>7, <1>8, <1>9, <1>10, <1>11, NextCases

(***************************************************************************)
(* _check_window, for every cap and window: no stretch of Window ticks,    *)
(* wherever it starts, holds more messages to one destination than its cap, *)
(* whichever users and flows asked for them.                               *)
(***************************************************************************)
THEOREM DestinationsAreBounded == Spec => []DestinationWindow
BY TypeCorrect, WindowsShow, InitWindowsInv, NextWindowsInv, PTL DEF Spec

(***************************************************************************)
(* _check_window and reserve_request_slot: the same of the messages charged *)
(* to one address, and of the recovery requests from it.                   *)
(***************************************************************************)
THEOREM AddressesAreBounded == Spec => []AddressWindow
BY TypeCorrect, WindowsShow, InitWindowsInv, NextWindowsInv, PTL DEF Spec

(***************************************************************************)
(* _reserve: no stretch of a day holds more messages of one user in one    *)
(* group than the cap of the group, the failed ones included.              *)
(***************************************************************************)
THEOREM DaysAreBounded == Spec => []DailyAllowance
BY TypeCorrect, WindowsShow, InitWindowsInv, NextWindowsInv, PTL DEF Spec

-------------------------------------------------------------------------------
(* The cooldown.  A failed send is given back by the name of its channel,  *)
(* so a late failure could wipe the timestamp of a newer claim: with every *)
(* failure heard of inside the cooldown, the claim given back is the only  *)
(* one of its channel that still cools.                                    *)

Counts(c) == Throttled(c) /\ c.id \notin discarded

CooldownInv ==
    /\ CooldownKept
    /\ \A c \in history :
         /\ c.at <= now
         /\ Counts(c) /\ now - c.at < Cooldown => lastSend[KeyOf(c)] = c.at
    /\ discarded \subseteq Minted
    /\ \A c \in pending :
         /\ c.id \notin discarded
         /\ \E h \in history : /\ h.id = c.id /\ h.user = c.user /\ h.purpose = c.purpose
                               /\ h.method = c.method /\ SendsMessage(h)
                               /\ c.expires = h.at + CodeTTL

LEMMA KeysOfClaims ==
    ASSUME TypeOK
    PROVE  \A c \in Claim \cup Challenge : KeyOf(c) \in SendKeys
BY DEF KeyOf, SendKeys, Groups, LimitGroup, Claim, Challenge

LEMMA ClaimTimes ==
    ASSUME TypeOK
    PROVE  /\ now \in Nat /\ Cooldown \in Nat
           /\ \A c \in history : c.at \in Nat /\ c \in Claim
           /\ lastSend \in [SendKeys -> Nat \cup {Never}]
BY OtpConstants DEF TypeOK, Claim, Time

\* Pruning never forgets a channel that still cools.
LEMMA CoolingKeeps ==
    ASSUME TypeOK, CooldownInv
    PROVE  /\ Cooling \in [SendKeys -> Time \cup {Never}]
           /\ \A c \in history :
                Counts(c) /\ now - c.at < Cooldown => Cooling[KeyOf(c)] = c.at
<1>1. Cooling \in [SendKeys -> Time \cup {Never}]
  BY CoolingType DEF TypeOK
<1>2. ASSUME NEW c \in history, Counts(c), now - c.at < Cooldown
      PROVE  Cooling[KeyOf(c)] = c.at
  <2>1. /\ KeyOf(c) \in SendKeys /\ c.at \in Nat
        /\ lastSend[KeyOf(c)] = c.at
    BY <1>2, KeysOfClaims, ClaimTimes DEF CooldownInv
  <2>2. c.at # Never
    BY <2>1 DEF Never
  <2>3. Cooling[KeyOf(c)] =
          IF lastSend[KeyOf(c)] # Never /\ now - lastSend[KeyOf(c)] < Cooldown
            THEN lastSend[KeyOf(c)] ELSE Never
    BY <2>1 DEF Cooling
  <2> QED BY <1>2, <2>1, <2>2, <2>3
<1> QED BY <1>1, <1>2

LEMMA InitCooldownInv == Init => CooldownInv
BY DEF Init, CooldownInv, CooldownKept

\* Every call that neither claims nor gives back.
LEMMA QuietKeepsCooldown ==
    ASSUME TypeOK, CooldownInv, history' = history, discarded' = discarded,
           pending' \subseteq pending, now' \in Nat, now <= now',
           lastSend' = lastSend \/ lastSend' = Cooling
    PROVE  CooldownInv'
<1>1. CooldownKept'
  BY DEF CooldownInv, CooldownKept, Throttled, SendsMessage, KeyOf, LimitGroup
<1>2. ASSUME NEW c \in history'
      PROVE  /\ c.at <= now'
             /\ (Counts(c) /\ now - c.at < Cooldown => lastSend[KeyOf(c)] = c.at)'
  <2>1. c \in history /\ c.at \in Nat /\ c.at <= now /\ now \in Nat /\ Cooldown \in Nat
    BY <1>2, ClaimTimes DEF CooldownInv
  <2>2. Counts(c) /\ now - c.at < Cooldown =>
          lastSend[KeyOf(c)] = c.at /\ Cooling[KeyOf(c)] = c.at
    BY <2>1, CoolingKeeps DEF CooldownInv
  <2>3. Counts(c)' = Counts(c)
    BY DEF Counts, Throttled, SendsMessage
  <2>4. ASSUME Counts(c)', now' - c.at < Cooldown PROVE lastSend'[KeyOf(c)] = c.at
    <3>1. now - c.at < Cooldown
      BY <2>1, <2>4
    <3> QED BY <2>2, <2>3, <2>4, <3>1
  <2>5. KeyOf(c)' = KeyOf(c)
    BY DEF KeyOf, LimitGroup
  <2>6. c.at <= now'
    BY <2>1
  <2> QED BY <2>4, <2>5, <2>6
<1>3. discarded' \subseteq Minted'
  BY DEF CooldownInv, Minted, Named
<1>4. (\A c \in pending :
         /\ c.id \notin discarded
         /\ \E h \in history : /\ h.id = c.id /\ h.user = c.user /\ h.purpose = c.purpose
                               /\ h.method = c.method /\ SendsMessage(h)
                               /\ c.expires = h.at + CodeTTL)'
  BY DEF CooldownInv, SendsMessage
<1> QED BY <1>1, <1>2, <1>3, <1>4 DEF CooldownInv

\* A claim: if it is throttled, every other of its channel that counts is a
\* cooldown old, because a channel that still cools admits nothing.
LEMMA ClaimKeepsCooldown ==
    ASSUME TypeOK, CooldownInv, NEW c \in Claim, c.at = now, c.id \notin Minted,
           history' = history \cup {c}, discarded' = discarded, now' = now,
           IF Throttled(c) THEN /\ Cooling[KeyOf(c)] = Never
                                /\ lastSend' = [Cooling EXCEPT ![KeyOf(c)] = now]
                           ELSE lastSend' = Cooling,
           pending' \subseteq pending \cup {NewChallenge(c, CodeTTL)},
           ~SendsMessage(c) => pending' \subseteq pending
    PROVE  CooldownInv'
<1>1. /\ now \in Nat /\ Cooldown \in Nat /\ KeyOf(c) \in SendKeys
      /\ \A h \in history : h.at \in Nat /\ h.at <= now /\ KeyOf(h) \in SendKeys
      /\ CodeTTL \in Nat
  BY ClaimTimes, KeysOfClaims, OtpConstants DEF CooldownInv
<1>2. \A h \in history : h.id # c.id
  BY DEF Minted, Named
<1>3. c.id \notin discarded
  BY DEF CooldownInv
<1>4. \A d : Counts(d)' = Counts(d) /\ KeyOf(d)' = KeyOf(d)
  BY DEF Counts, Throttled, SendsMessage, KeyOf, LimitGroup
<1>5. ASSUME Throttled(c), NEW d \in history, Counts(d), KeyOf(d) = KeyOf(c)
      PROVE  now - d.at >= Cooldown
  <2>1. SUFFICES ASSUME now - d.at < Cooldown PROVE FALSE
    BY <1>1
  <2>2. Cooling[KeyOf(c)] = d.at
    BY <1>5, <2>1, CoolingKeeps
  <2>3. Cooling[KeyOf(c)] = Never
    BY <1>5
  <2>4. d.at \in Nat
    BY <1>1
  <2>5. Never \notin Nat
    BY DEF Never
  <2> QED BY <2>2, <2>3, <2>4, <2>5
<1>6. CooldownKept'
  <2> SUFFICES ASSUME NEW d \in history', NEW e \in history', Counts(d), Counts(e),
                      d # e, KeyOf(d) = KeyOf(e)
               PROVE  d.at - e.at >= Cooldown \/ e.at - d.at >= Cooldown
    BY <1>4 DEF CooldownKept, Counts
  <2>1. CASE d = c
    <3>1. e \in history /\ Throttled(c)
      BY <2>1 DEF Counts
    <3>2. now - e.at >= Cooldown
      BY <1>5, <2>1, <3>1
    <3> QED BY <2>1, <3>2
  <2>2. CASE e = c
    <3>1. d \in history /\ Throttled(c)
      BY <2>2 DEF Counts
    <3>2. now - d.at >= Cooldown
      BY <1>5, <2>2, <3>1
    <3> QED BY <2>2, <3>2
  <2>3. CASE d # c /\ e # c
    <3>1. d \in history /\ e \in history
      BY <2>3
    <3> QED BY <3>1 DEF CooldownInv, CooldownKept, Counts
  <2> QED BY <2>1, <2>2, <2>3
<1>7. ASSUME NEW d \in history'
      PROVE  /\ d.at <= now'
             /\ (Counts(d) /\ now - d.at < Cooldown => lastSend[KeyOf(d)] = d.at)'
  <2>1. d.at <= now'
    BY <1>1
  <2>2. ASSUME Counts(d), now - d.at < Cooldown PROVE lastSend'[KeyOf(d)] = d.at
    <3>1. CASE d = c
      <4>1. Throttled(c)
        BY <2>2, <3>1 DEF Counts
      <4>2. lastSend' = [Cooling EXCEPT ![KeyOf(c)] = now]
        BY <4>1
      <4> QED BY <1>1, <3>1, <4>2, CoolingKeeps
    <3>2. CASE d # c
      <4>1. d \in history /\ Cooling[KeyOf(d)] = d.at
        BY <2>2, <3>2, CoolingKeeps
      <4>2. CASE Throttled(c)
        <5>1. KeyOf(d) # KeyOf(c)
          BY <1>1, <1>5, <2>2, <4>1, <4>2
        <5>2. lastSend' = [Cooling EXCEPT ![KeyOf(c)] = now]
          BY <4>2
        <5> QED BY <1>1, <4>1, <5>1, <5>2, CoolingKeeps
      <4>3. CASE ~Throttled(c)
        BY <4>1, <4>3
      <4> QED BY <4>2, <4>3
    <3> QED BY <3>1, <3>2
  <2> QED BY <1>4, <2>1, <2>2
<1>8. discarded' \subseteq Minted'
  BY DEF CooldownInv, Minted, Named
<1>9. ASSUME NEW p \in pending'
      PROVE  /\ p.id \notin discarded'
             /\ \E h \in history' : /\ h.id = p.id /\ h.user = p.user
                                    /\ h.purpose = p.purpose /\ h.method = p.method
                                    /\ SendsMessage(h) /\ p.expires = h.at + CodeTTL
  <2>1. CASE p \in pending
    BY <2>1 DEF CooldownInv
  <2>2. CASE p \notin pending
    <3>1. p = NewChallenge(c, CodeTTL) /\ SendsMessage(c)
      BY <2>2
    <3>2. /\ p.id = c.id /\ p.user = c.user /\ p.purpose = c.purpose
          /\ p.method = c.method /\ p.expires = c.at + CodeTTL
      BY <3>1 DEF NewChallenge
    <3> QED BY <1>3, <3>1, <3>2
  <2> QED BY <2>1, <2>2
<1>10. \A h : SendsMessage(h)' = SendsMessage(h)
  BY DEF SendsMessage
<1> QED BY <1>6, <1>7, <1>8, <1>9, <1>10 DEF CooldownInv

\* A failed send, heard of within the cooldown: what it gives back is its own.
LEMMA DiscardKeepsCooldown ==
    ASSUME SendTimeout < Cooldown, TypeOK, UniqueIds, CooldownInv,
           NEW c \in pending, Discard(c)
    PROVE  CooldownInv'
<1>1. /\ now \in Nat /\ Cooldown \in Nat /\ SendTimeout \in Nat /\ CodeTTL \in Nat
      /\ \A h \in history : h.at \in Nat /\ h.at <= now /\ KeyOf(h) \in SendKeys
  BY ClaimTimes, KeysOfClaims, OtpConstants DEF CooldownInv
<1>2. PICK g \in history : /\ g.id = c.id /\ g.user = c.user /\ g.purpose = c.purpose
                           /\ g.method = c.method /\ SendsMessage(g)
                           /\ c.expires = g.at + CodeTTL
  BY DEF CooldownInv
<1>3. Counts(g) /\ KeyOf(g) = KeyOf(c)
  BY <1>2 DEF CooldownInv, Counts, Throttled, KeyOf
<1>4. now - g.at < Cooldown
  <2>1. now <= c.expires - CodeTTL + SendTimeout
    BY DEF Discard
  <2>2. now <= g.at + SendTimeout
    BY <1>1, <1>2, <2>1
  <2> QED BY <1>1, <2>2
<1>5. /\ history' = history /\ now' = now /\ pending' = pending \ {c}
      /\ discarded' = discarded \cup {c.id}
      /\ lastSend' = [lastSend EXCEPT ![KeyOf(c)] = Never]
  BY DEF Discard
<1>6. \A d : KeyOf(d)' = KeyOf(d) /\ (Counts(d)' => Counts(d) /\ d.id # c.id)
  BY <1>5 DEF Counts, Throttled, SendsMessage, KeyOf, LimitGroup
<1>7. CooldownKept'
  <2> SUFFICES ASSUME NEW d \in history, NEW e \in history, Counts(d), Counts(e),
                      d # e, KeyOf(d) = KeyOf(e)
               PROVE  d.at - e.at >= Cooldown \/ e.at - d.at >= Cooldown
    BY <1>5, <1>6 DEF CooldownKept, Counts
  <2> QED BY DEF CooldownInv, CooldownKept, Counts
<1>8. ASSUME NEW d \in history'
      PROVE  /\ d.at <= now'
             /\ (Counts(d) /\ now - d.at < Cooldown => lastSend[KeyOf(d)] = d.at)'
  <2>1. d \in history /\ d.at <= now'
    BY <1>1, <1>5
  <2>2. ASSUME Counts(d)', now - d.at < Cooldown PROVE lastSend'[KeyOf(d)] = d.at
    <3>1. Counts(d) /\ d # g
      BY <1>2, <1>6, <2>2
    <3>2. lastSend[KeyOf(d)] = d.at
      BY <2>1, <2>2, <3>1 DEF CooldownInv
    <3>3. KeyOf(d) # KeyOf(g)
      <4>1. SUFFICES ASSUME KeyOf(d) = KeyOf(g) PROVE FALSE
        OBVIOUS
      <4>2. d.at - g.at >= Cooldown \/ g.at - d.at >= Cooldown
        BY <1>3, <2>1, <3>1, <4>1 DEF CooldownInv, CooldownKept, Counts
      <4> QED BY <1>1, <1>4, <2>1, <2>2, <4>2
    <3> QED BY <1>1, <1>3, <1>5, <2>1, <3>2, <3>3, ClaimTimes
  <2> QED BY <1>5, <1>6, <2>1, <2>2
<1>9. discarded' \subseteq Minted'
  BY <1>2, <1>5 DEF CooldownInv, Minted, Named
<1>10. \A p \in pending' : p \in pending /\ p.id # c.id
  BY <1>5 DEF UniqueIds
<1>11. (\A p \in pending :
         /\ p.id \notin discarded
         /\ \E h \in history : /\ h.id = p.id /\ h.user = p.user /\ h.purpose = p.purpose
                               /\ h.method = p.method /\ SendsMessage(h)
                               /\ p.expires = h.at + CodeTTL)'
  BY <1>5, <1>10 DEF CooldownInv, SendsMessage
<1> QED BY <1>7, <1>8, <1>9, <1>11 DEF CooldownInv

LEMMA NextCooldownInv ==
    ASSUME SendTimeout < Cooldown
    PROVE  TypeOK /\ CodeInv /\ CooldownInv /\ [Next]_vars => CooldownInv'
<1> SUFFICES ASSUME TypeOK, CodeInv, CooldownInv, [Next]_vars PROVE CooldownInv'
  OBVIOUS
<1>0. now \in Nat
  BY DEF TypeOK, Time
<1>1. CASE UNCHANGED vars
  BY <1>0, <1>1, QuietKeepsCooldown DEF vars, limits, ghosts
<1>2. CASE ClaimStep
  <2>1. PICK c \in Claim : c.at = now /\ ClaimCode(c)
    BY <1>2 DEF ClaimStep
  <2>2. /\ c.id \notin Minted /\ now' = now
        /\ history' = history \cup {c} /\ discarded' = discarded
        /\ Cooling[KeyOf(c)] = Never
        /\ lastSend' = [Cooling EXCEPT ![KeyOf(c)] = now]
        /\ pending' \subseteq pending \cup {NewChallenge(c, CodeTTL)}
    BY <2>1, UnexpiredSubset DEF ClaimCode, Admitted, Charge
  <2>3. SendsMessage(c) /\ Throttled(c)
    BY <2>1 DEF ClaimCode, SentMethods, SendsMessage, Throttled
  <2> QED BY <2>1, <2>2, <2>3, ClaimKeepsCooldown
<1>3. CASE \E c \in pending, replaces \in Supersedes : Commit(c, replaces)
  <2>1. /\ history' = history /\ discarded' = discarded /\ now' = now
        /\ pending' \subseteq pending /\ lastSend' = lastSend
    BY <1>3 DEF Commit, limits, ghosts
  <2> QED BY <1>0, <2>1, QuietKeepsCooldown
<1>4. CASE OpenStep
  <2>1. PICK c \in Claim, throttled \in BOOLEAN, ttl \in Nat, replaces \in Supersedes :
          /\ c.at = now /\ throttled = Throttled(c)
          /\ OpenTotp(c, throttled, ttl, replaces)
    BY <1>4 DEF OpenStep
  <2>2. /\ c.id \notin Minted /\ now' = now
        /\ history' = history \cup {c} /\ discarded' = discarded
        /\ pending' \subseteq pending
    BY <2>1, UnexpiredSubset DEF OpenTotp
  <2>3. IF Throttled(c) THEN /\ Cooling[KeyOf(c)] = Never
                             /\ lastSend' = [Cooling EXCEPT ![KeyOf(c)] = now]
                        ELSE lastSend' = Cooling
    BY <2>1 DEF OpenTotp, Admitted, Charge, PruneLimits
  <2>4. pending' \subseteq pending \cup {NewChallenge(c, CodeTTL)}
    BY <2>2
  <2> QED BY <2>1, <2>2, <2>3, <2>4, ClaimKeepsCooldown
<1>5. CASE \E c \in pending : Discard(c)
  BY <1>5, DiscardKeepsCooldown DEF CodeInv
<1>6. CASE \E c \in challenges : VerifyRight(c) \/ VerifyWrong(c)
  <2>1. /\ history' = history /\ discarded' = discarded /\ now' = now
        /\ pending' \subseteq pending /\ lastSend' = Cooling
    BY <1>6, UnexpiredSubset DEF VerifyRight, VerifyWrong, PruneLimits
  <2> QED BY <1>0, <2>1, QuietKeepsCooldown
<1>7. CASE \E r \in Request : ReserveRequestSlot(r)
  <2>1. /\ history' = history /\ discarded' = discarded /\ now' = now
        /\ pending' \subseteq pending /\ lastSend' = Cooling
    BY <1>7, UnexpiredSubset DEF ReserveRequestSlot, PruneCodes
  <2> QED BY <1>0, <2>1, QuietKeepsCooldown
<1>8. CASE Sweep
  <2>1. /\ history' = history /\ discarded' = discarded /\ now' = now
        /\ pending' \subseteq pending /\ lastSend' = Cooling
    BY <1>8, UnexpiredSubset DEF Sweep, PruneCodes, PruneLimits, ghosts
  <2> QED BY <1>0, <2>1, QuietKeepsCooldown
<1>9. CASE \E u \in Users : InvalidateUser(u)
  <2>1. /\ history' = history /\ discarded' = discarded /\ now' = now
        /\ pending' \subseteq pending /\ lastSend' = lastSend
    BY <1>9 DEF InvalidateUser, limits
  <2> QED BY <1>0, <2>1, QuietKeepsCooldown
<1>10. CASE Tick
  <2>1. /\ history' = history /\ discarded' = discarded /\ now' \in Nat /\ now <= now'
        /\ pending' \subseteq pending /\ lastSend' = lastSend
    BY <1>0, <1>10 DEF Tick, limits, ghosts
  <2> QED BY <2>1, QuietKeepsCooldown
<1> QED BY <1>1, <1>2, <1>3, <1>4, <1>5, <1>6, <1>7, <1>8, <1>9, <1>10, NextCases

(***************************************************************************)
(* As long as a failed send is heard of before the cooldown ends, two      *)
(* codes of one user, channel and group are a cooldown apart, the failed   *)
(* ones left out, however claims, failures and commits interleave.         *)
(***************************************************************************)
THEOREM CooldownHolds ==
    ASSUME SendTimeout < Cooldown
    PROVE  Spec => []CooldownKept
<1>1. CooldownInv => CooldownKept
  BY DEF CooldownInv
<1> QED BY <1>1, TypeCorrect, InitTypeOK, NextTypeOK, InitCodeInv, NextCodeInv,
           InitCooldownInv, NextCooldownInv, PTL DEF Spec

-------------------------------------------------------------------------------
(* The authenticator's guesses.  The code locks on the failures its pruned *)
(* store still holds, and forgets the lock when it ends: what has to be    *)
(* kept is that a full stretch which could still grow is under a lock.     *)

Span == IF Lockout < Window THEN Lockout ELSE Window
Since(log, e) == {f \in log : e.at <= f.at}
Guessed(log, e) == {f \in log : e.at <= f.at /\ f.at < e.at + Span}

Watched(fails, lock, log, t) ==
    /\ fails \subseteq log /\ IsFiniteSet(log)
    /\ \A f \in log : f.at \in Nat /\ f.at <= t
    /\ \A f \in log : f.at >= t - Window => f \in fails
    /\ \A e \in log : Cardinality(Guessed(log, e)) <= MaxAttempts
    /\ \A e \in log : t < e.at + Span /\ Cardinality(Since(log, e)) >= MaxAttempts
                        => lock >= e.at + Span

GuessInv == \A u \in Users : Watched(totpFailures[u], totpLocks[u], misses[u], now)

LEMMA Spans ==
    /\ Span \in Nat /\ Span <= Lockout /\ Span <= Window
    /\ Lockout \in Nat /\ Window \in Nat /\ MaxAttempts \in Nat /\ MaxAttempts >= 1
BY OtpConstants DEF Span

LEMMA WatchedEmpty == \A lock, t : Watched({}, lock, {}, t)
BY FS_EmptySet DEF Watched

LEMMA WatchedAges ==
    ASSUME NEW fails, NEW lock, NEW log, now \in Nat, Watched(fails, lock, log, now)
    PROVE  Watched(fails, lock, log, now + 1)
<1>1. \A e \in log : now + 1 < e.at + Span => now < e.at + Span
  BY Spans DEF Watched
<1> QED BY <1>1, Spans DEF Watched

LEMMA WatchedPrunes ==
    ASSUME NEW fails, NEW lock \in Nat, NEW log, now \in Nat,
           Watched(fails, lock, log, now)
    PROVE  Watched(Recent(fails, Window), IF lock > now THEN lock ELSE 0, log, now)
<1>1. /\ Recent(fails, Window) \subseteq log
      /\ \A f \in log : f.at >= now - Window => f \in Recent(fails, Window)
  BY DEF Watched, Recent
<1>2. ASSUME NEW e \in log, now < e.at + Span, Cardinality(Since(log, e)) >= MaxAttempts
      PROVE  (IF lock > now THEN lock ELSE 0) >= e.at + Span
  <2>1. lock >= e.at + Span /\ e.at \in Nat
    BY <1>2 DEF Watched
  <2>2. lock > now
    BY <1>2, <2>1, Spans
  <2> QED BY <2>1, <2>2
<1> QED BY <1>1, <1>2 DEF Watched

\* One more wrong code, looked at because no lock was on.
LEMMA WatchedGrows ==
    ASSUME NEW fails, NEW lock \in Nat, NEW log, now \in Nat,
           Watched(fails, lock, log, now), lock <= now, NEW m, m.at = now,
           NEW kept, kept = Recent(fails, Window) \cup {m},
           NEW lockNow \in Nat, Cardinality(kept) >= MaxAttempts => lockNow = now + Lockout
    PROVE  Watched(kept, lockNow, log \cup {m}, now)
<1> DEFINE all == log \cup {m}
<1>1. /\ IsFiniteSet(log) /\ fails \subseteq log
      /\ \A f \in log : f.at \in Nat /\ f.at <= now
      /\ \A f \in log : f.at >= now - Window => f \in fails
  BY DEF Watched
<1>2. /\ IsFiniteSet(all) /\ \A f \in all : f.at \in Nat /\ f.at <= now
      /\ kept \subseteq all
      /\ \A f \in all : f.at >= now - Window => f \in kept
  BY <1>1, FS_AddElement DEF Recent
<1>3. IsFiniteSet(kept) /\ Cardinality(kept) \in Nat
  BY <1>2, FS_Subset, FS_CardinalityType
<1>4. ASSUME NEW e \in log, now < e.at + Span
      PROVE  Cardinality(Since(all, e)) <= MaxAttempts
  <2>1. ~(Cardinality(Since(log, e)) >= MaxAttempts)
    <3>1. SUFFICES ASSUME Cardinality(Since(log, e)) >= MaxAttempts PROVE FALSE
      OBVIOUS
    <3>2. lock >= e.at + Span
      BY <1>4, <3>1 DEF Watched
    <3> QED BY <1>1, <1>4, <3>2, Spans
  <2>2. IsFiniteSet(Since(log, e)) /\ Cardinality(Since(log, e)) \in Nat
    BY <1>1, FS_Subset, FS_CardinalityType DEF Since
  <2>3. Since(all, e) = Since(log, e) \cup {m}
    BY <1>1 DEF Since
  <2>4. Cardinality(Since(log, e) \cup {m}) =
          IF m \in Since(log, e) THEN Cardinality(Since(log, e))
                                 ELSE Cardinality(Since(log, e)) + 1
    BY <2>2, FS_AddElement
  <2> HIDE DEF all
  <2> QED BY <2>1, <2>2, <2>3, <2>4, Spans
<1>5. ASSUME NEW e \in all, now < e.at + Span
      PROVE  Cardinality(Since(all, e)) <= MaxAttempts
  <2>1. CASE e \in log
    BY <1>4, <1>5, <2>1
  <2>2. CASE e = m /\ \E g \in log : g.at = now
    <3>1. PICK g \in log : g.at = now
      BY <2>2
    <3>2. Since(all, e) = Since(all, g) /\ now < g.at + Span
      BY <1>5, <2>2, <3>1 DEF Since
    <3> QED BY <1>4, <3>2
  <2>3. CASE e = m /\ ~\E g \in log : g.at = now
    <3>1. Since(all, e) = {m}
      BY <1>1, <2>3 DEF Since
    <3>2. Cardinality({m}) = 1
      BY FS_Singleton
    <3> QED BY <3>1, <3>2, Spans
  <2> QED BY <1>5, <2>1, <2>2, <2>3
<1>6. ASSUME NEW e \in all
      PROVE  Cardinality(Guessed(all, e)) <= MaxAttempts
  <2>1. CASE now < e.at + Span
    <3>1. Guessed(all, e) = Since(all, e)
      BY <1>2, <2>1, Spans DEF Guessed, Since
    <3> QED BY <1>5, <2>1, <3>1
  <2>2. CASE ~(now < e.at + Span) /\ e \in log
    <3>1. Guessed(all, e) = Guessed(log, e)
      BY <1>1, <2>2, Spans DEF Guessed
    <3> QED BY <2>2, <3>1 DEF Watched
  <2>3. CASE ~(now < e.at + Span) /\ e = m
    <3>1. Guessed(all, e) = {}
      BY <1>2, <2>3, Spans DEF Guessed
    <3> QED BY <3>1, FS_EmptySet, Spans
  <2> QED BY <1>6, <2>1, <2>2, <2>3
<1>7. ASSUME NEW e \in all, now < e.at + Span, Cardinality(Since(all, e)) >= MaxAttempts
      PROVE  lockNow >= e.at + Span
  <2>0. e.at \in Nat /\ e.at <= now
    BY <1>2
  <2>1. Since(all, e) \in SUBSET kept
    <3>1. \A f \in Since(all, e) : f \in all /\ f.at >= now - Window
      BY <1>2, <1>7, <2>0, Spans DEF Since
    <3> QED BY <1>2, <3>1
  <2>2. /\ IsFiniteSet(Since(all, e))
        /\ Cardinality(Since(all, e)) <= Cardinality(kept)
    BY <1>3, <2>1, FS_Subset
  <2>3. Cardinality(Since(all, e)) \in Nat
    BY <2>2, FS_CardinalityType
  <2>4. Cardinality(kept) >= MaxAttempts
    BY <1>3, <1>7, <2>2, <2>3, Spans
  <2>5. lockNow = now + Lockout
    BY <2>4
  <2> QED BY <2>0, <2>5, Spans
<1> QED BY <1>2, <1>6, <1>7 DEF Watched

LEMMA GuessShows == GuessInv => GuessBudget
<1> SUFFICES ASSUME GuessInv, NEW u \in Users, NEW e \in misses[u]
             PROVE  Cardinality(Guessed(misses[u], e)) <= MaxAttempts
  BY DEF GuessBudget, Guessed, Span
<1> QED BY DEF GuessInv, Watched

LEMMA InitGuessInv == Init => GuessInv
BY WatchedEmpty DEF Init, GuessInv

\* Every call but a wrong or right authenticator code: left alone or pruned.
LEMMA PruningKeepsGuesses ==
    ASSUME TypeOK, GuessInv, misses' = misses, now' = now,
           totpFailures' = Pruned(totpFailures, Window),
           totpLocks' = [u \in Users |-> IF Locked(u) THEN totpLocks[u] ELSE 0]
    PROVE  GuessInv'
<1> SUFFICES ASSUME NEW u \in Users
             PROVE  Watched(totpFailures'[u], totpLocks'[u], misses'[u], now')
  BY DEF GuessInv
<1>1. now \in Nat /\ totpLocks[u] \in Nat
  BY DEF TypeOK, Time
<1>2. /\ totpFailures'[u] = Recent(totpFailures[u], Window)
      /\ totpLocks'[u] = IF totpLocks[u] > now THEN totpLocks[u] ELSE 0
  BY DEF Pruned, Locked, TypeOK
<1>3. Watched(totpFailures[u], totpLocks[u], misses[u], now)
  BY DEF GuessInv
<1> QED BY <1>1, <1>2, <1>3, WatchedPrunes

\* The failures of one user are forgotten, with the run of misses they count.
LEMMA VerifyRightKeepsGuesses ==
    ASSUME TypeOK, GuessInv, NEW c \in challenges, VerifyRight(c) PROVE GuessInv'
<1>0. c.user \in Users
  BY DEF TypeOK, Challenge
<1>1. CASE c.method # "TOTP"
  BY <1>1, PruningKeepsGuesses DEF VerifyRight
<1>2. CASE c.method = "TOTP"
  <2> SUFFICES ASSUME NEW u \in Users
               PROVE  Watched(totpFailures'[u], totpLocks'[u], misses'[u], now')
    BY DEF GuessInv
  <2>1. CASE u = c.user
    <3>1. totpFailures'[u] = {} /\ misses'[u] = {}
      BY <1>2, <2>1 DEF VerifyRight, Pruned, TypeOK
    <3> QED BY <3>1, WatchedEmpty
  <2>2. CASE u # c.user
    <3>1. now \in Nat /\ now' = now /\ totpLocks[u] \in Nat
      BY DEF TypeOK, Time, VerifyRight
    <3>2. /\ totpFailures'[u] = Recent(totpFailures[u], Window)
          /\ totpLocks'[u] = IF totpLocks[u] > now THEN totpLocks[u] ELSE 0
          /\ misses'[u] = misses[u]
      BY <1>2, <2>2 DEF VerifyRight, Pruned, Locked, TypeOK
    <3>3. Watched(totpFailures[u], totpLocks[u], misses[u], now)
      BY DEF GuessInv
    <3> QED BY <3>1, <3>2, <3>3, WatchedPrunes
  <2> QED BY <2>1, <2>2
<1> QED BY <1>1, <1>2

LEMMA VerifyWrongKeepsGuesses ==
    ASSUME TypeOK, GuessInv, NEW c \in challenges, VerifyWrong(c) PROVE GuessInv'
<1>0. c.user \in Users
  BY DEF TypeOK, Challenge
<1>1. CASE c.method # "TOTP"
  BY <1>1, PruningKeepsGuesses DEF VerifyWrong, PruneLocks
<1>2. CASE c.method = "TOTP"
  <2> SUFFICES ASSUME NEW u \in Users
               PROVE  Watched(totpFailures'[u], totpLocks'[u], misses'[u], now')
    BY DEF GuessInv
  <2>0. PICK m : m = [id |-> c.id, left |-> c.left, at |-> now]
    OBVIOUS
  <2>1. /\ now \in Nat /\ now' = now /\ totpLocks[u] \in Nat /\ totpLocks'[u] \in Nat
        /\ m.at = now
    <3>1. TypeOK'
      BY VerifyWrongTypeOK
    <3>2. totpLocks[u] \in Nat /\ now \in Nat
      BY DEF TypeOK, Time
    <3>3. totpLocks'[u] \in Nat
      BY <3>1 DEF TypeOK
    <3>4. now' = now
      BY DEF VerifyWrong
    <3> QED BY <2>0, <3>2, <3>3, <3>4
  <2>2. Watched(totpFailures[u], totpLocks[u], misses[u], now)
    BY DEF GuessInv
  <2>3. CASE u = c.user
    <3>1. /\ totpFailures'[u] = Recent(totpFailures[u], Window) \cup {m}
          /\ misses'[u] = misses[u] \cup {m}
      BY <1>2, <2>0, <2>3 DEF VerifyWrong, Pruned, TypeOK
    <3>2. totpLocks[u] <= now
      BY <1>2, <2>1, <2>3 DEF VerifyWrong, Locked
    <3>3. Cardinality(totpFailures'[u]) >= MaxAttempts => totpLocks'[u] = now + Lockout
      BY <1>2, <2>0, <2>3, <3>1 DEF VerifyWrong
    <3> QED BY <2>1, <2>2, <3>1, <3>2, <3>3, WatchedGrows
  <2>4. CASE u # c.user
    <3>1. /\ totpFailures'[u] = Recent(totpFailures[u], Window)
          /\ totpLocks'[u] = IF totpLocks[u] > now THEN totpLocks[u] ELSE 0
          /\ misses'[u] = misses[u]
      BY <1>2, <2>4 DEF VerifyWrong, Pruned, Locked, TypeOK
    <3> QED BY <2>1, <2>2, <3>1, WatchedPrunes
  <2> QED BY <2>3, <2>4
<1> QED BY <1>1, <1>2

LEMMA NextGuessInv == TypeOK /\ GuessInv /\ [Next]_vars => GuessInv'
<1> SUFFICES ASSUME TypeOK, GuessInv, [Next]_vars PROVE GuessInv'
  OBVIOUS
<1>1. CASE UNCHANGED vars
  BY <1>1 DEF vars, locks, ghosts, GuessInv
<1>2. CASE ClaimStep
  BY <1>2, PruningKeepsGuesses DEF ClaimStep, ClaimCode, PruneLocks
<1>3. CASE \E c \in pending, replaces \in Supersedes : Commit(c, replaces)
  BY <1>3 DEF Commit, locks, ghosts, GuessInv
<1>4. CASE OpenStep
  BY <1>4, PruningKeepsGuesses DEF OpenStep, OpenTotp, PruneLocks
<1>5. CASE \E c \in pending : Discard(c)
  BY <1>5 DEF Discard, locks, GuessInv
<1>6. CASE \E c \in challenges : VerifyRight(c)
  BY <1>6, VerifyRightKeepsGuesses
<1>7. CASE \E c \in challenges : VerifyWrong(c)
  BY <1>7, VerifyWrongKeepsGuesses
<1>8. CASE \E r \in Request : ReserveRequestSlot(r)
  BY <1>8, PruningKeepsGuesses DEF ReserveRequestSlot, PruneLocks
<1>9. CASE Sweep
  BY <1>9, PruningKeepsGuesses DEF Sweep, PruneLocks, ghosts
<1>10. CASE \E u \in Users : InvalidateUser(u)
  <2>1. PICK v \in Users : InvalidateUser(v)
    BY <1>10
  <2> SUFFICES ASSUME NEW u \in Users
               PROVE  Watched(totpFailures'[u], totpLocks'[u], misses'[u], now')
    BY DEF GuessInv
  <2>2. CASE u = v
    <3>1. totpFailures'[u] = {} /\ misses'[u] = {}
      BY <2>1, <2>2 DEF InvalidateUser, TypeOK
    <3> QED BY <3>1, WatchedEmpty
  <2>3. CASE u # v
    <3>1. /\ totpFailures'[u] = totpFailures[u] /\ totpLocks'[u] = totpLocks[u]
          /\ misses'[u] = misses[u] /\ now' = now
      BY <2>1, <2>3 DEF InvalidateUser, TypeOK
    <3> QED BY <3>1 DEF GuessInv
  <2> QED BY <2>2, <2>3
<1>11. CASE Tick
  <2>1. /\ totpFailures' = totpFailures /\ totpLocks' = totpLocks /\ misses' = misses
        /\ now' = now + 1 /\ now \in Nat
    BY <1>11 DEF Tick, locks, ghosts, TypeOK, Time
  <2> QED BY <2>1, WatchedAges DEF GuessInv
<1> QED BY <1>1, <1>2, <1>3, <1>4, <1>5, <1>6, <1>7, <1>8, <1>9, <1>10, <1>11, NextCases

(***************************************************************************)
(* For every lockout and window: a run of wrong authenticator codes, over  *)
(* as many challenges as it likes, gets at most MaxAttempts looked at in   *)
(* any stretch shorter than both.                                          *)
(***************************************************************************)
THEOREM GuessesAreBounded == Spec => []GuessBudget
BY TypeCorrect, GuessShows, InitGuessInv, NextGuessInv, PTL DEF Spec

-------------------------------------------------------------------------------
(* What makes a live code leave the store. *)

Leaves(c) ==
    \/ now >= c.expires
    \/ c.id \in Named(challenges')
    \/ c.id \in Named(accepted') \ Named(accepted)
    \/ c.left = 1 /\ VerifyWrong(c)
    \/ \E d \in challenges' : d.id \notin Named(challenges) /\ SameFlow(c, d)
    \/ InvalidateUser(c.user)

LEMMA KeptCodeStays ==
    ASSUME NEW c \in challenges, c \in challenges' PROVE Leaves(c)
BY DEF Leaves, Named

\* A pruning that hides nothing else: what is gone had expired.
LEMMA PrunedCodeExpired ==
    ASSUME TypeOK, NEW c \in challenges, c \notin Unexpired(challenges)
    PROVE  now >= c.expires
BY DEF Unexpired, TypeOK, Time, Challenge

\* A code replaces those of its own flow only.
LEMMA InstallReplacesItsFlow ==
    ASSUME NEW held, held \subseteq challenges, NEW n, n.id \notin Named(challenges),
           challenges' = Install(held, n), NEW c \in held
    PROVE  Leaves(c)
<1>1. n \in challenges'
  BY DEF Install
<1>2. CASE SameFlow(c, n)
  BY <1>1, <1>2 DEF Leaves
<1>3. CASE ~SameFlow(c, n)
  <2>1. c \in challenges'
    BY <1>3 DEF Install
  <2> QED BY <2>1, KeptCodeStays
<1> QED BY <1>2, <1>3

LEMMA LiveCodeLeaves ==
    ASSUME TypeOK, CodeInv, Next, NEW c \in challenges PROVE Leaves(c)
<1>1. CASE c \notin Unexpired(challenges)
  BY <1>1, PrunedCodeExpired DEF Leaves
<1>2. CASE c \in Unexpired(challenges)
  <2>1. CASE ClaimStep
    <3>1. challenges' = Unexpired(challenges)
      BY <2>1 DEF ClaimStep, ClaimCode
    <3> QED BY <1>2, <3>1, KeptCodeStays
  <2>2. CASE \E p \in pending, replaces \in Supersedes : Commit(p, replaces)
    <3>1. PICK p \in pending, replaces \in Supersedes : Commit(p, replaces)
      BY <2>2
    <3>2. p.id \notin Named(challenges)
      BY <3>1 DEF CodeInv, UniqueIds, Named
    <3>3. challenges' = Install(challenges, p) \/ challenges' = challenges
      BY <3>1 DEF Commit
    <3> QED BY <3>2, <3>3, KeptCodeStays, InstallReplacesItsFlow
  <2>3. CASE OpenStep
    <3>1. PICK n \in Claim, throttled \in BOOLEAN, ttl \in Nat, replaces \in Supersedes :
            OpenTotp(n, throttled, ttl, replaces)
      BY <2>3 DEF OpenStep
    <3>2. NewChallenge(n, ttl).id \notin Named(challenges)
      BY <3>1, CodesAreMinted DEF OpenTotp, NewChallenge, Named
    <3>3. \/ challenges' = Install(Unexpired(challenges), NewChallenge(n, ttl))
          \/ challenges' = Unexpired(challenges)
      BY <3>1 DEF OpenTotp
    <3> QED BY <1>2, <3>2, <3>3, UnexpiredSubset, KeptCodeStays, InstallReplacesItsFlow
  <2>4. CASE \E p \in pending : Discard(p)
    <3>1. challenges' = challenges
      BY <2>4 DEF Discard
    <3> QED BY <3>1, KeptCodeStays
  <2>5. CASE \E d \in challenges : VerifyRight(d)
    <3>1. PICK d \in challenges : VerifyRight(d)
      BY <2>5
    <3>2. CASE d = c
      <4>1. [id |-> c.id, at |-> now] \in accepted'
        BY <3>1, <3>2 DEF VerifyRight
      <4>2. [id |-> c.id, at |-> now].id = c.id
        OBVIOUS
      <4>3. c.id \in Named(accepted')
        BY <4>1, <4>2 DEF Named
      <4>4. c.id \notin Named(accepted)
        BY DEF CodeInv, SpentIsGone, Named
      <4> QED BY <4>3, <4>4 DEF Leaves
    <3>3. CASE d # c
      <4>1. c \in challenges'
        BY <1>2, <3>1, <3>3 DEF VerifyRight
      <4> QED BY <4>1, KeptCodeStays
    <3> QED BY <3>2, <3>3
  <2>6. CASE \E d \in challenges : VerifyWrong(d)
    <3>1. PICK d \in challenges : VerifyWrong(d)
      BY <2>6
    <3>2. CASE d = c
      <4>1. c.left \in 1 .. MaxAttempts
        BY DEF TypeOK, Challenge
      <4>2. CASE c.left > 1
        <5>1. [c EXCEPT !.left = @ - 1] \in challenges'
          BY <3>1, <3>2, <4>2 DEF VerifyWrong
        <5>2. [c EXCEPT !.left = @ - 1].id = c.id
          BY DEF TypeOK, Challenge
        <5> QED BY <5>1, <5>2 DEF Leaves, Named
      <4>3. CASE ~(c.left > 1)
        <5>1. c.left = 1
          BY <4>1, <4>3, OtpConstants
        <5> QED BY <3>1, <3>2, <5>1 DEF Leaves
      <4> QED BY <4>2, <4>3
    <3>3. CASE d # c
      <4>1. c \in challenges'
        BY <1>2, <3>1, <3>3 DEF VerifyWrong
      <4> QED BY <4>1, KeptCodeStays
    <3> QED BY <3>2, <3>3
  <2>7. CASE \E r \in Request : ReserveRequestSlot(r)
    <3>1. challenges' = Unexpired(challenges)
      BY <2>7 DEF ReserveRequestSlot, PruneCodes
    <3> QED BY <1>2, <3>1, KeptCodeStays
  <2>8. CASE Sweep
    <3>1. challenges' = Unexpired(challenges)
      BY <2>8 DEF Sweep, PruneCodes
    <3> QED BY <1>2, <3>1, KeptCodeStays
  <2>9. CASE \E u \in Users : InvalidateUser(u)
    <3>1. PICK u \in Users : InvalidateUser(u)
      BY <2>9
    <3>2. challenges' = {d \in challenges : d.user # u}
      BY <3>1 DEF InvalidateUser
    <3>3. CASE c.user = u
      BY <3>1, <3>3 DEF Leaves
    <3>4. CASE c.user # u
      BY <3>2, <3>4, KeptCodeStays
    <3> QED BY <3>3, <3>4
  <2>10. CASE Tick
    <3>1. challenges' = challenges
      BY <2>10 DEF Tick
    <3> QED BY <3>1, KeptCodeStays
  <2> QED BY <2>1, <2>2, <2>3, <2>4, <2>5, <2>6, <2>7, <2>8, <2>9, <2>10, NextCases
<1> QED BY <1>1, <1>2

(***************************************************************************)
(* A live code leaves the store only when it has expired, or in the step   *)
(* that accepts it, takes its last attempt, drops all its user held or     *)
(* puts a newer code of its flow in its place: a failed, refused or        *)
(* foreign send never costs it.                                            *)
(***************************************************************************)
THEOREM HeldCodesSurvive == Spec => HeldCodeSurvives
<1>1. TypeOK /\ CodeInv /\ [Next]_vars =>
        [\A c \in challenges :
            \/ now >= c.expires
            \/ c.id \in Named(challenges')
            \/ c.id \in Named(accepted') \ Named(accepted)
            \/ c.left = 1 /\ VerifyWrong(c)
            \/ \E d \in challenges' : d.id \notin Named(challenges) /\ SameFlow(c, d)
            \/ InvalidateUser(c.user)]_vars
  BY LiveCodeLeaves DEF Leaves
<1> QED BY <1>1, TypeCorrect, InitCodeInv, NextCodeInv, PTL DEF Spec, HeldCodeSurvives
===============================================================================
