--------------------------- MODULE BackoffProofs ---------------------------
(***************************************************************************)
(* Proofs about Backoff, for every policy, jitter and length of a refusal. *)
(* The arithmetic comes first: what a power is, and that it grows, is      *)
(* proved by induction, and the rest follows from where each outcome puts  *)
(* the next wake.                                                          *)
(***************************************************************************)
EXTENDS Backoff, WellFoundedInduction, TLAPS

-----------------------------------------------------------------------------
(* Powers *)

(* Induction over a set: WFMin takes a set where the library's induction     *)
(* takes a predicate.                                                      *)
LEMMA Induction ==
  ASSUME NEW S, 0 \in S, \A n \in Nat : n \in S => n + 1 \in S
  PROVE  Nat \subseteq S
<1> DEFINE R == {p \in Nat \X Nat : p[1] < p[2]}
           T == Nat \ S
<1> SUFFICES ASSUME T # {} PROVE FALSE
  OBVIOUS
<1>1. IsWellFoundedOn(R, Nat)
  BY NatLessThanWellFounded DEF OpToRel
<1>2. PICK x \in T : \A y \in T : ~(<<y, x>> \in R)
  <2> HIDE DEF R
  <2>1. T \subseteq Nat
    OBVIOUS
  <2> HIDE DEF T
  <2> QED BY <1>1, <2>1, WFMin
<1>3. x \in Nat /\ x # 0 /\ x - 1 \in Nat
  OBVIOUS
<1>4. <<x - 1, x>> \in R
  BY <1>3
<1> QED BY <1>2, <1>3, <1>4

(* An initial piece of the powers.                                         *)
Piece(b, n, h) ==
  /\ h \in [0..n -> Nat] /\ h[0] = 1
  /\ \A i \in 1..n : h[i] = b * h[i - 1]

(* There is one of every length.                                           *)
LEMMA Pieces ==
  ASSUME NEW b \in Nat
  PROVE  \A n \in Nat : \E h : Piece(b, n, h)
<1> DEFINE S == {n \in Nat : \E h : Piece(b, n, h)}
<1>1. 0 \in S
  <2>1. Piece(b, 0, [i \in 0..0 |-> 1])
    BY DEF Piece
  <2> QED BY <2>1
<1>2. ASSUME NEW n \in Nat, n \in S PROVE n + 1 \in S
  <2>1. PICK h : Piece(b, n, h)
    BY <1>2
  <2> DEFINE k == [i \in 0..(n + 1) |-> IF i <= n THEN h[i] ELSE b * h[n]]
  <2>2. h[n] \in Nat /\ b * h[n] \in Nat
    BY <2>1 DEF Piece
  <2>3. k \in [0..(n + 1) -> Nat] /\ k[0] = 1
    BY <2>1, <2>2 DEF Piece
  <2>4. ASSUME NEW i \in 1..(n + 1) PROVE k[i] = b * k[i - 1]
    <3>1. CASE i \in 1..n
      BY <2>1, <3>1 DEF Piece
    <3>2. CASE i = n + 1
      BY <3>2
    <3> QED BY <3>1, <3>2
  <2>5. Piece(b, n + 1, k)
    <3> HIDE DEF k
    <3> QED BY <2>3, <2>4 DEF Piece
  <2> QED BY <2>5
<1> HIDE DEF S
<1>3. Nat \subseteq S
  BY <1>1, <1>2, Induction
<1> QED BY <1>3 DEF S

(* Two pieces agree where both are defined.                                *)
LEMMA PiecesAgree ==
  ASSUME NEW b \in Nat, NEW n \in Nat, NEW g, NEW h, Piece(b, n, g), Piece(b, n + 1, h)
  PROVE  g[n] = h[n]
<1> DEFINE S == {i \in Nat : i <= n => g[i] = h[i]}
<1>1. 0 \in S
  BY DEF Piece
<1>2. ASSUME NEW i \in Nat, i \in S PROVE i + 1 \in S
  BY <1>2 DEF Piece
<1> HIDE DEF S
<1>3. Nat \subseteq S
  BY <1>1, <1>2, Induction
<1> QED BY <1>3 DEF S

(* So Power is the function its recursion describes.                       *)
LEMMA Powers ==
  ASSUME NEW b \in Nat
  PROVE  /\ Power(b, 0) = 1
         /\ \A n \in Nat : Power(b, n) \in Nat /\ Power(b, n + 1) = b * Power(b, n)
<1> DEFINE piece(n) == CHOOSE h : Piece(b, n, h)
           p == [n \in Nat |-> piece(n)[n]]
           Unfolds(f) == f = [i \in Nat |-> IF i = 0 THEN 1 ELSE b * f[i - 1]]
<1>1. ASSUME NEW n \in Nat PROVE Piece(b, n, piece(n))
  BY Pieces
<1> HIDE DEF piece
<1>2. p[0] = 1 /\ \A n \in Nat : p[n] \in Nat
  BY <1>1 DEF Piece
<1>3. ASSUME NEW n \in Nat PROVE p[n + 1] = b * p[n]
  <2>1. Piece(b, n, piece(n)) /\ Piece(b, n + 1, piece(n + 1))
    BY <1>1
  <2>2. piece(n)[n] = piece(n + 1)[n]
    BY <2>1, PiecesAgree
  <2>3. piece(n + 1)[n + 1] = b * piece(n + 1)[n]
    BY <2>1 DEF Piece
  <2> QED BY <2>2, <2>3
<1>4. Unfolds(p)
  <2>1. ASSUME NEW n \in Nat PROVE p[n] = IF n = 0 THEN 1 ELSE b * p[n - 1]
    <3> HIDE DEF p
    <3>1. CASE n = 0
      BY <1>2, <3>1
    <3>2. CASE n # 0
      <4>1. n - 1 \in Nat /\ (n - 1) + 1 = n
        BY <3>2
      <4> QED BY <1>3, <3>2, <4>1
    <3> QED BY <3>1, <3>2
  <2> QED BY <2>1
<1> DEFINE f == CHOOSE f : Unfolds(f)
<1>5. Unfolds(f)
  <2> HIDE DEF Unfolds
  <2> QED BY <1>4
<1>6. \A n : Power(b, n) = f[n]
  BY DEF Power
<1> HIDE DEF f
<1>7. f[0] = 1 /\ \A n \in Nat : f[n + 1] = b * f[n]
  BY <1>5
<1> DEFINE S == {n \in Nat : f[n] \in Nat}
<1>8. Nat \subseteq S
  <2>1. 0 \in S
    BY <1>7
  <2>2. ASSUME NEW n \in Nat, n \in S PROVE n + 1 \in S
    BY <1>7, <2>2
  <2> HIDE DEF S
  <2> QED BY <2>1, <2>2, Induction
<1> QED BY <1>6, <1>7, <1>8

(* A larger factor makes a larger product.                                 *)
LEMMA Products ==
  ASSUME NEW b \in Nat \ {0}, NEW x \in Nat \ {0}
  PROVE  b * x \in Nat \ {0} /\ x <= b * x
<1>1. b * x \in Nat
  OBVIOUS
<1>2. (b - 1) * x \in Nat /\ b * x = (b - 1) * x + x
  BY Z3
<1> QED BY <1>1, <1>2

(* A product grows with its factor.                                        *)
LEMMA ProductsGrow ==
  ASSUME NEW b \in Nat, NEW x \in Nat, NEW y \in Nat, x <= y
  PROVE  b * x <= b * y
<1>1. b * (y - x) \in Nat /\ b * y = b * x + b * (y - x)
  BY Z3
<1> QED BY <1>1

(* Powers of a factor are positive and never shrink.                       *)
LEMMA PowersGrow ==
  ASSUME NEW b \in Nat \ {0}
  PROVE  \A n \in Nat : Power(b, n) \in Nat \ {0} /\ Power(b, n) <= Power(b, n + 1)
<1> DEFINE S == {n \in Nat : Power(b, n) \in Nat \ {0}}
<1>1. 0 \in S
  BY Powers
<1>2. ASSUME NEW n \in Nat, n \in S PROVE n + 1 \in S
  <2>1. Power(b, n) \in Nat \ {0} /\ Power(b, n + 1) = b * Power(b, n)
    BY <1>2, Powers
  <2> QED BY <2>1, Products
<1> HIDE DEF S
<1>3. Nat \subseteq S
  BY <1>1, <1>2, Induction
<1>4. ASSUME NEW n \in Nat
      PROVE  Power(b, n) \in Nat \ {0} /\ Power(b, n) <= Power(b, n + 1)
  <2>1. Power(b, n) \in Nat \ {0}
    BY <1>3 DEF S
  <2>2. Power(b, n + 1) = b * Power(b, n)
    BY Powers
  <2> QED BY <2>1, <2>2, Products
<1> QED BY <1>4

-----------------------------------------------------------------------------
(* Delays *)

(* What a policy is made of.                                               *)
LEMMA PolicyFields ==
  ASSUME NEW p \in Policies
  PROVE  /\ p.kind \in Kind
         /\ p.floor \in Nat \ {0} /\ p.base \in Nat \ {0} /\ p.ceiling \in Nat \ {0}
         /\ p.every \in Nat \ {0} /\ p.factor \in Nat \ {0}
BY PolicyAssumption

(* The lesser and the greater of two numbers.                              *)
LEMMA Bounds ==
  ASSUME NEW x \in Int, NEW y \in Int
  PROVE  /\ Least(x, y) \in {x, y} /\ Least(x, y) <= x /\ Least(x, y) <= y
         /\ Most(x, y) \in {x, y} /\ Most(x, y) >= x /\ Most(x, y) >= y
BY DEF Least, Most

(* A streak that is counted on stays within its bound and does not shrink.  *)
LEMMA Streaks ==
  ASSUME NEW n \in 0..MaxStreak
  PROVE  Streak(n) \in 1..MaxStreak /\ Streak(n) \in {n, n + 1}
BY PolicyAssumption DEF Streak, Least

(* A retry comes within its bounds, and no sooner after more failures.     *)
LEMMA ErrorDelays ==
  ASSUME NEW s \in Nat \ {0}
  PROVE  /\ ErrorDelay(s) \in ErrorBase..ErrorMax
         /\ ErrorDelay(s) <= ErrorDelay(s + 1)
<1> DEFINE x == Power(2, s - 1)
           y == Power(2, s)
<1>1. x \in Nat \ {0} /\ y \in Nat \ {0} /\ x <= y
  <2>1. s - 1 \in Nat /\ (s - 1) + 1 = s /\ s \in Nat
    OBVIOUS
  <2> QED BY <2>1, PowersGrow
<1>2. ErrorDelay(s) = Least(30 * x, 900) /\ ErrorDelay(s + 1) = Least(30 * y, 900)
  BY DEF ErrorDelay, ErrorBase, ErrorMax
<1> HIDE DEF x, y
<1> QED BY <1>1, <1>2 DEF Least, ErrorBase, ErrorMax

(* The backoff of an idle streak without jitter.                           *)
Curve(p, s) == Least(p.base * Power(p.factor, s - 1), p.ceiling)

(* It starts at the base, never shrinks, and ends at the ceiling.          *)
LEMMA Curves ==
  ASSUME NEW p \in Policies, NEW s \in Nat \ {0}
  PROVE  /\ Curve(p, s) \in Nat \ {0}
         /\ Least(p.base, p.ceiling) <= Curve(p, s) /\ Curve(p, s) <= p.ceiling
         /\ Curve(p, s) <= Curve(p, s + 1)
<1> DEFINE x == Power(p.factor, s - 1)
           y == Power(p.factor, s)
<1>1. p.base \in Nat \ {0} /\ p.ceiling \in Nat \ {0} /\ p.factor \in Nat \ {0}
  BY PolicyFields
<1>2. x \in Nat \ {0} /\ y \in Nat \ {0} /\ x <= y
  <2>1. s - 1 \in Nat /\ (s - 1) + 1 = s /\ s \in Nat
    OBVIOUS
  <2> QED BY <1>1, <2>1, PowersGrow
<1>3. Curve(p, s) = Least(p.base * x, p.ceiling)
      /\ Curve(p, s + 1) = Least(p.base * y, p.ceiling)
  BY DEF Curve
<1> HIDE DEF x, y
<1>4. /\ p.base * x \in Nat \ {0} /\ p.base * y \in Nat
      /\ p.base <= p.base * x /\ p.base * x <= p.base * y
  <2>1. p.base * x \in Nat \ {0} /\ p.base * y \in Nat \ {0}
    BY <1>1, <1>2, Products
  <2>2. p.base * 1 <= p.base * x /\ p.base * 1 = p.base
    BY <1>1, <1>2, ProductsGrow
  <2> QED BY <1>1, <1>2, <2>1, <2>2, ProductsGrow
<1> DEFINE u == p.base * x
           v == p.base * y
<1> HIDE DEF u, v
<1>5. u \in Nat \ {0} /\ v \in Nat /\ p.base <= u /\ u <= v
      /\ Curve(p, s) = Least(u, p.ceiling) /\ Curve(p, s + 1) = Least(v, p.ceiling)
  BY <1>3, <1>4 DEF u, v
<1> QED BY <1>1, <1>5 DEF Least

(* Jitter lengthens a delay by a tenth at most, and the tenth of what it    *)
(* becomes covers it.                                                      *)
LEMMA Jittered ==
  ASSUME NEW c \in Nat, NEW j \in 0..10, NEW d, d = c + (c * j) \div 100
  PROVE  d \in Nat /\ c <= d /\ d <= c + c \div 10 /\ d - d \div 10 <= c
<1>1. c * j \in Nat /\ c * j <= c * 10
  BY ProductsGrow
<1>2. (c * j) \div 100 \in Nat /\ (c * j) \div 100 <= (c * 10) \div 100
  <2> DEFINE q == c * j
  <2> HIDE DEF q
  <2>1. q \in Nat /\ q <= c * 10
    BY <1>1 DEF q
  <2>2. q \div 100 \in Nat /\ q \div 100 <= (c * 10) \div 100
    BY <2>1
  <2> QED BY <2>2 DEF q
<1>3. (c * 10) \div 100 = c \div 10
  OBVIOUS
<1> DEFINE x == (c * j) \div 100
<1>4. x \in Nat /\ x <= c \div 10 /\ d = c + x
  BY <1>2, <1>3
<1> HIDE DEF x
<1> QED BY <1>4

(* A backoff comes within its bounds, and jitter only lengthens it.        *)
LEMMA IdleDelays ==
  ASSUME policy \in Policies, NEW s \in Nat \ {0}, NEW j \in Jitters
  PROVE  /\ IdleDelay(s, j) \in Nat \ {0} /\ Curve(policy, s) <= IdleDelay(s, j)
         /\ IdleDelay(s, j) - IdleDelay(s, j) \div 10 <= Curve(policy, s)
         /\ IdleDelay(s, j) <= policy.ceiling + policy.ceiling \div 10
<1> DEFINE c == Curve(policy, s)
           d == IdleDelay(s, j)
<1>1. d = c + (c * j) \div 100
  BY DEF IdleDelay, Curve
<1>2. c \in Nat \ {0} /\ c <= policy.ceiling /\ policy.ceiling \in Nat \ {0}
  BY Curves, PolicyFields
<1>3. j \in 0..10
  BY PolicyAssumption
<1> HIDE DEF c, d
<1>4. d \in Nat /\ c <= d /\ d <= c + c \div 10 /\ d - d \div 10 <= c
  BY <1>1, <1>2, <1>3, Jittered, ZenonT(60)
<1>5. d \in Nat \ {0} /\ d <= policy.ceiling + policy.ceiling \div 10
  BY <1>2, <1>4
<1> QED BY <1>4, <1>5 DEF c, d

-----------------------------------------------------------------------------
(* Where an outcome puts the next wake *)

(* Each outcome's wake lies where its rule says, and is, with the           *)
(* arithmetic forgotten, the one that Scheduler gives it.                  *)
LEMMA ComputedWakes ==
  ASSUME TypeOK, NEW outcome \in Outcome, NEW j \in Jitters, NEW next,
         next = ComputeNextWake(outcome, j)
  PROVE  /\ next.idle \in 0..MaxStreak /\ next.err \in 0..MaxStreak
         /\ next.reason \in Reason
         /\ outcome \in {"BLOCKED", "RATE_LIMITED"} => next.wait = Never
         /\ outcome = "RETRYABLE_ERROR" => next.wait \in ErrorBase..ErrorMax
         /\ outcome \in {"WORK_DONE", "NO_WORK"} =>
              /\ policy.kind \in {"manual", "on_message"} => next.wait = Never
              /\ policy.kind = "schedule" => next.wait = policy.every
              /\ policy.kind = "continuous" =>
                   IF outcome = "WORK_DONE" THEN next.wait = policy.floor
                   ELSE /\ next.wait \in Nat \ {0}
                        /\ Least(policy.base, policy.ceiling) <= next.wait
                        /\ next.wait <= policy.ceiling + policy.ceiling \div 10
         /\ Wake(Class(next.wait), next.reason) = NextWake(policy.kind, outcome)
<1>1. /\ 0 \in 0..MaxStreak /\ Streak(idle) \in 0..MaxStreak /\ Streak(err) \in 0..MaxStreak
      /\ Streak(idle) \in Nat \ {0} /\ Streak(err) \in Nat \ {0}
      /\ idle \in 0..MaxStreak /\ err \in 0..MaxStreak
  BY Streaks, PolicyAssumption DEF TypeOK
<1>2. /\ policy \in Policies /\ policy.kind \in Kind
      /\ policy.floor \in Nat \ {0} /\ policy.every \in Nat \ {0}
  BY PolicyFields DEF TypeOK
<1>3. Class(Never) = "never" /\ \A w \in Nat \ {0} : Class(w) = "later"
  BY PolicyAssumption DEF Class
<1>4. CASE outcome = "BLOCKED"
  BY <1>1, <1>3, <1>4 DEF ComputeNextWake, Computed, Reason, Wake, NextWake
<1>5. CASE outcome = "RATE_LIMITED"
  BY <1>1, <1>3, <1>5 DEF ComputeNextWake, Computed, Reason, Wake, NextWake
<1>6. CASE outcome = "RETRYABLE_ERROR"
  <2>1. next = Computed(ErrorDelay(Streak(err)), "backoff", idle, Streak(err))
    BY <1>6 DEF ComputeNextWake
  <2>2. ErrorDelay(Streak(err)) \in ErrorBase..ErrorMax
    BY <1>1, ErrorDelays
  <2>3. ErrorDelay(Streak(err)) \in Nat \ {0}
    BY <2>2 DEF ErrorBase, ErrorMax
  <2> QED BY <1>1, <1>3, <1>6, <2>1, <2>2, <2>3 DEF Computed, Reason, Wake, NextWake
<1>7. CASE outcome \in {"WORK_DONE", "NO_WORK"}
  <2>1. CASE policy.kind = "manual"
    BY <1>1, <1>3, <1>7, <2>1 DEF ComputeNextWake, Computed, Reason, Wake, NextWake
  <2>2. CASE policy.kind = "on_message"
    BY <1>1, <1>3, <1>7, <2>2 DEF ComputeNextWake, Computed, Reason, Wake, NextWake
  <2>3. CASE policy.kind = "schedule"
    <3>1. next = Computed(policy.every, "schedule", 0, 0)
      BY <1>7, <2>3 DEF ComputeNextWake
    <3> QED BY <1>1, <1>2, <1>3, <1>7, <2>3, <3>1 DEF Computed, Reason, Wake, NextWake
  <2>4. CASE policy.kind = "continuous" /\ outcome = "WORK_DONE"
    <3>1. next = Computed(policy.floor, "schedule", 0, 0)
      BY <2>4 DEF ComputeNextWake
    <3> QED BY <1>1, <1>2, <1>3, <2>4, <3>1 DEF Computed, Reason, Wake, NextWake
  <2>5. CASE policy.kind = "continuous" /\ outcome = "NO_WORK"
    <3> DEFINE d == IdleDelay(Streak(idle), j)
               s == Streak(idle)
    <3>1. next = Computed(d, "backoff", s, 0)
      BY <2>5 DEF ComputeNextWake
    <3>2. /\ d \in Nat \ {0} /\ Curve(policy, s) <= d
          /\ d <= policy.ceiling + policy.ceiling \div 10
      BY <1>1, <1>2, IdleDelays
    <3>3. Least(policy.base, policy.ceiling) <= d
      <4>1. /\ Curve(policy, s) \in Nat \ {0}
            /\ Least(policy.base, policy.ceiling) <= Curve(policy, s)
        BY <1>1, <1>2, Curves
      <4>2. Least(policy.base, policy.ceiling) \in Nat
        BY <1>2, PolicyFields DEF Least
      <4> HIDE DEF d, s
      <4> QED BY <3>2, <4>1, <4>2
    <3>4. s \in 0..MaxStreak
      BY <1>1
    <3> HIDE DEF d, s
    <3> QED BY <1>1, <1>3, <2>5, <3>1, <3>2, <3>3, <3>4
            DEF Computed, Reason, Wake, NextWake
  <2> QED BY <1>2, <1>7, <2>1, <2>2, <2>3, <2>4, <2>5 DEF Kind
<1> QED BY <1>4, <1>5, <1>6, <1>7 DEF Outcome

(* A wake that is not withheld is a positive wait.                         *)
LEMMA WaitsAreNatural ==
  ASSUME TypeOK, NEW outcome \in Outcome, NEW j \in Jitters, NEW next,
         next = ComputeNextWake(outcome, j)
  PROVE  next.wait = Never \/ next.wait \in Nat \ {0}
<1>1. policy \in Policies
  BY DEF TypeOK
<1>2. policy.kind \in Kind /\ policy.floor \in Nat \ {0} /\ policy.every \in Nat \ {0}
  BY <1>1, PolicyFields
<1>3. ErrorBase..ErrorMax \subseteq Nat \ {0}
  BY DEF ErrorBase, ErrorMax
<1> QED BY <1>2, <1>3, ComputedWakes DEF Outcome, Kind

(* A lane's gate is no row, or when it is over.                            *)
LEMMA Gates ==
  ASSUME gate = Never \/ gate \in Int, NEW r \in Refusals
  PROVE  /\ Closed(r) \in Nat \ {0} /\ r <= Closed(r)
         /\ Closed(r) = r \/ (gate # Never /\ Closed(r) = gate)
<1>1. r \in Nat \ {0} /\ Never \notin Int
  BY PolicyAssumption
<1>2. CASE gate = Never
  BY <1>1, <1>2 DEF Closed
<1>3. CASE gate \in Int
  BY <1>1, <1>3 DEF Closed, Most
<1> QED BY <1>2, <1>3

(* What succeed writes: the computed wake, or what the lane's gate says.    *)
LEMMA Settlements ==
  ASSUME TypeOK, NEW outcome \in Outcome, NEW j \in Jitters, Settle(outcome, j)
  PROVE  /\ gate' = Never \/ gate' \in Int
         /\ wait' = IF outcome = "RATE_LIMITED" THEN LaneWake(gate')
                    ELSE ComputeNextWake(outcome, j).wait
         /\ LaneWake(gate') \in Int
         /\ reason' \in Reason
         /\ idle' = ComputeNextWake(outcome, j).idle
         /\ err' = ComputeNextWake(outcome, j).err
         /\ delay' = IF wait' = Never THEN 0 ELSE Most(wait', 0)
         /\ last' = outcome /\ since' = 0 /\ bumped' = FALSE /\ refused' \in BOOLEAN
         /\ phase = "running" /\ phase' = "asleep" /\ policy' = policy
         /\ \/ refused' = FALSE /\ UNCHANGED gate
            \/ /\ outcome = "RATE_LIMITED" /\ refused' = TRUE
               /\ \E r \in Refusals : gate' = Closed(r)
<1> DEFINE computed == ComputeNextWake(outcome, j)
           next == Laned(outcome, computed, gate')
<1>1. /\ wait' = next.wait /\ reason' = next.reason /\ idle' = next.idle /\ err' = next.err
      /\ delay' = IF wait' = Never THEN 0 ELSE Most(wait', 0)
      /\ last' = outcome /\ since' = 0 /\ bumped' = FALSE
      /\ phase = "running" /\ phase' = "asleep" /\ policy' = policy
  BY DEF Settle, Written
<1>2. \/ refused' = FALSE /\ UNCHANGED gate
      \/ /\ outcome = "RATE_LIMITED" /\ refused' = TRUE
         /\ \E r \in Refusals : gate' = Closed(r)
  BY DEF Settle
<1>3. gate' = Never \/ gate' \in Int
  BY <1>2, Gates DEF TypeOK
<1>4. LaneWake(gate') \in Int
  BY <1>3 DEF LaneWake, LaneFallback
<1>5. computed.reason \in Reason
  <2> HIDE DEF computed
  <2> QED BY ComputedWakes DEF computed
<1>6. /\ wait' = IF outcome = "RATE_LIMITED" THEN LaneWake(gate') ELSE computed.wait
      /\ reason' \in Reason /\ idle' = computed.idle /\ err' = computed.err
  <2>1. CASE outcome = "RATE_LIMITED"
    <3>1. computed = Computed(Never, "event", idle, 0)
      BY <2>1 DEF ComputeNextWake
    <3>2. /\ next.wait = LaneWake(gate') /\ next.reason = "schedule"
          /\ next.idle = computed.idle /\ next.err = computed.err
      BY <2>1, <3>1 DEF Laned, Computed
    <3> QED BY <1>1, <2>1, <3>2 DEF Reason
  <2>2. CASE outcome # "RATE_LIMITED"
    <3>1. next = computed
      BY <2>2 DEF Laned
    <3> QED BY <1>1, <1>5, <2>2, <3>1
  <2> QED BY <2>1, <2>2
<1> HIDE DEF computed, next
<1>7. refused' \in BOOLEAN
  BY <1>2
<1> QED BY <1>1, <1>2, <1>3, <1>4, <1>6, <1>7 DEF computed

(* What backoffWithoutRun writes: an on_message agent has no wake then.    *)
LEMMA Backoffs ==
  ASSUME TypeOK, NEW j \in Jitters, BackoffWithoutRun(j)
  PROVE  /\ wait' = Never /\ delay' = 0 /\ idle' \in 0..MaxStreak /\ reason' \in Reason
         /\ last' = "NO_WORK" /\ since' = 0 /\ bumped' = FALSE /\ refused' = FALSE
         /\ policy.kind = "on_message" /\ UNCHANGED <<policy, phase, err, gate>>
<1> DEFINE next == ComputeNextWake("NO_WORK", j)
<1>1. /\ wait' = next.wait /\ idle' = next.idle /\ reason' = next.reason
      /\ delay' = IF wait' = Never THEN 0 ELSE Most(wait', 0)
      /\ last' = "NO_WORK" /\ since' = 0 /\ bumped' = FALSE /\ refused' = FALSE
      /\ policy.kind = "on_message" /\ UNCHANGED <<policy, phase, err, gate>>
  BY DEF BackoffWithoutRun, Written
<1> HIDE DEF next
<1>2. next.wait = Never /\ next.idle \in 0..MaxStreak /\ next.reason \in Reason
  BY <1>1, ComputedWakes DEF Outcome, next
<1> QED BY <1>1, <1>2

-----------------------------------------------------------------------------
(* Types *)

(* The bounds are bounds.                                                  *)
LEMMA Zeros == 0 \in 0..Horizon /\ Horizon \in 0..Horizon /\ 0 \in 0..MaxStreak
<1>1. Horizon \in Nat /\ MaxStreak \in Nat
  BY PolicyAssumption
<1> QED BY <1>1

(* Every step keeps the types.                                             *)
LEMMA TypesStep ==
  ASSUME TypeOK, [Next]_vars
  PROVE  TypeOK'
<1>1. ASSUME NEW d \in Gaps, Elapse(d) PROVE TypeOK'
  <2>1. d \in Nat /\ Horizon \in Nat /\ Past \in Nat
    BY PolicyAssumption
  <2>2. wait' = Never \/ wait' \in Int
    BY <1>1, <2>1 DEF Elapse, Passes, Most, TypeOK
  <2>3. gate' = Never \/ gate' \in Int
    BY <1>1, <2>1 DEF Elapse, Passes, Most, TypeOK
  <2>4. since' \in 0..Horizon
    BY <1>1, <2>1 DEF Elapse, Least, TypeOK
  <2> QED BY <1>1, <2>2, <2>3, <2>4 DEF Elapse, TypeOK
<1>2. CASE Begin
  BY <1>2 DEF Begin, TypeOK
<1>3. CASE Bump
  BY <1>3 DEF Bump, TypeOK, Reason
<1>4. ASSUME NEW j \in Jitters, BackoffWithoutRun(j) PROVE TypeOK'
  <2>1. /\ wait' = Never /\ delay' = 0 /\ idle' \in 0..MaxStreak /\ reason' \in Reason
        /\ last' = "NO_WORK" /\ since' = 0 /\ bumped' = FALSE /\ refused' = FALSE
        /\ UNCHANGED <<policy, phase, err, gate>>
    BY <1>4, Backoffs
  <2> QED BY <2>1, Zeros DEF TypeOK, Outcome
<1>5. ASSUME NEW j \in Jitters, NEW outcome \in Outcome, Settle(outcome, j) PROVE TypeOK'
  <2> DEFINE computed == ComputeNextWake(outcome, j)
  <2> HIDE DEF computed
  <2>1. /\ gate' = Never \/ gate' \in Int
        /\ reason' \in Reason /\ LaneWake(gate') \in Int /\ refused' \in BOOLEAN
        /\ wait' = IF outcome = "RATE_LIMITED" THEN LaneWake(gate') ELSE computed.wait
        /\ idle' = computed.idle /\ err' = computed.err
        /\ delay' = IF wait' = Never THEN 0 ELSE Most(wait', 0)
        /\ last' = outcome /\ since' = 0 /\ bumped' = FALSE
        /\ phase' = "asleep" /\ policy' = policy
    BY <1>5, Settlements DEF computed
  <2>2. /\ computed.idle \in 0..MaxStreak /\ computed.err \in 0..MaxStreak
        /\ computed.wait = Never \/ computed.wait \in Nat \ {0}
    BY ComputedWakes, WaitsAreNatural DEF computed
  <2>3. wait' = Never \/ wait' \in Int
    <3>1. CASE outcome = "RATE_LIMITED"
      BY <2>1, <3>1
    <3>2. CASE outcome # "RATE_LIMITED"
      BY <2>1, <2>2, <3>2
    <3> QED BY <3>1, <3>2
  <2>4. delay' \in Nat
    BY <2>1, <2>3 DEF Most
  <2> QED BY <2>1, <2>2, <2>3, <2>4, Zeros DEF TypeOK
<1>6. ASSUME NEW r \in Refusals, LaneCloses(r) PROVE TypeOK'
  BY <1>6, Gates DEF LaneCloses, TypeOK
<1>7. CASE UNCHANGED vars
  BY <1>7 DEF vars, TypeOK
<1> QED BY <1>1, <1>2, <1>3, <1>4, <1>5, <1>6, <1>7 DEF Next

(* Whatever the policies, the row of an agent keeps its types.             *)
THEOREM BackoffTypes == Spec => []TypeOK
<1>1. Init => TypeOK
  <2> SUFFICES ASSUME Init PROVE TypeOK
    OBVIOUS
  <2>1. /\ policy \in Policies /\ phase \in {"asleep", "running"} /\ reason \in Reason
        /\ last \in Outcome \cup {"none"} /\ bumped \in BOOLEAN /\ refused \in BOOLEAN
    BY DEF Init, Reason
  <2>2. /\ wait \in Int /\ gate = Never /\ delay \in Nat /\ since \in 0..Horizon
        /\ idle \in 0..MaxStreak /\ err \in 0..MaxStreak
    BY Zeros DEF Init
  <2> QED BY <2>1, <2>2 DEF TypeOK
<1> QED BY <1>1, TypesStep, PTL DEF Spec

(* computeNextWake, arithmetic included, is the NextWake that Scheduler     *)
(* uses, for every policy, jitter and pair of streaks: no delay is zero and *)
(* none is withheld that the classes grant.                                *)
THEOREM WakesAgree == Spec => []AgreesWithWakes
<1>1. TypeOK => AgreesWithWakes
  BY ComputedWakes DEF AgreesWithWakes
<1> QED BY <1>1, BackoffTypes, PTL

-----------------------------------------------------------------------------
(* No wake is too far away *)

(* The longest that a refusal closes the lane.                             *)
Longest == CHOOSE r \in Refusals : \A s \in Refusals : r >= s

(* No refusal closes the lane for longer than the longest.                 *)
LEMMA LongestRefusal ==
  ASSUME \E r \in Refusals : \A s \in Refusals : r >= s
  PROVE  Longest \in Nat /\ \A s \in Refusals : s \in Nat /\ s <= Longest
<1>1. Longest \in Refusals /\ \A s \in Refusals : Longest >= s
  BY DEF Longest
<1> QED BY <1>1, PolicyAssumption

(* The ceiling after an outcome under a policy.                            *)
CeilingOf(p, outcome) ==
  CASE outcome = "RETRYABLE_ERROR" -> ErrorMax
    [] outcome = "RATE_LIMITED"    -> Most(LaneFallback, Longest)
    [] OTHER -> Most(p.floor, Most(p.every, p.ceiling + p.ceiling \div 10))

(* The largest of the ceilings covers what each outcome computes.          *)
LEMMA CeilingCovers ==
  ASSUME NEW p \in Policies, NEW outcome, \E r \in Refusals : \A s \in Refusals : r >= s
  PROVE  /\ CeilingOf(p, outcome) \in Nat
         /\ outcome = "RETRYABLE_ERROR" => CeilingOf(p, outcome) = ErrorMax
         /\ outcome = "RATE_LIMITED" =>
              LaneFallback <= CeilingOf(p, outcome) /\ Longest <= CeilingOf(p, outcome)
         /\ outcome \notin {"RETRYABLE_ERROR", "RATE_LIMITED"} =>
              /\ p.floor <= CeilingOf(p, outcome) /\ p.every <= CeilingOf(p, outcome)
              /\ p.ceiling + p.ceiling \div 10 <= CeilingOf(p, outcome)
<1> DEFINE top == p.ceiling + p.ceiling \div 10
           inner == Most(p.every, top)
<1>1. p.floor \in Nat /\ p.every \in Nat /\ top \in Nat
  BY PolicyFields
<1>2. CASE outcome = "RETRYABLE_ERROR"
  BY <1>2 DEF CeilingOf, ErrorMax
<1>3. CASE outcome = "RATE_LIMITED"
  BY <1>3, LongestRefusal DEF CeilingOf, Most, LaneFallback
<1>4. CASE outcome \notin {"RETRYABLE_ERROR", "RATE_LIMITED"}
  <2>1. CeilingOf(p, outcome) = Most(p.floor, inner)
    BY <1>4 DEF CeilingOf
  <2> HIDE DEF top
  <2>2. inner \in Nat /\ inner >= p.every /\ inner >= top
    BY <1>1 DEF Most
  <2> HIDE DEF inner
  <2>3. Most(p.floor, inner) \in Nat /\ Most(p.floor, inner) >= p.floor
        /\ Most(p.floor, inner) >= inner
    BY <1>1, <2>2 DEF Most
  <2> QED BY <1>1, <1>4, <2>1, <2>2, <2>3 DEF top
<1> QED BY <1>2, <1>3, <1>4

(* WakesInTime's ceiling is the one of the last outcome, now and after.    *)
LEMMA Ceilings == Ceiling = CeilingOf(policy, last) /\ Ceiling' = CeilingOf(policy', last')
BY DEF Ceiling, CeilingOf, Longest

(* A lane is closed no longer than a refusal may close it.                 *)
Measured == gate # Never => gate <= Longest

(* Every step keeps each wake within the ceiling of the last outcome.      *)
LEMMA MeasuredStep ==
  ASSUME TypeOK, TypeOK', Measured, WakesInTime, [Next]_vars,
         \E r \in Refusals : \A s \in Refusals : r >= s
  PROVE  Measured' /\ WakesInTime'
<1>1. /\ policy \in Policies /\ Horizon \in Nat /\ Never \notin Int /\ Longest \in Nat
      /\ gate = Never \/ (gate \in Int /\ gate <= Longest)
      /\ wait = Never \/ wait \in Int
      /\ Past \in Nat
  BY LongestRefusal, PolicyAssumption DEF Measured, TypeOK
<1>2. ASSUME NEW d \in Gaps, Elapse(d) PROVE Measured' /\ WakesInTime'
  <2>1. d \in Nat /\ Ceiling \in Nat /\ Ceiling' = Ceiling
    BY <1>1, <1>2, Ceilings, CeilingCovers, PolicyAssumption DEF Elapse
  <2>2. wait' = Never <=> wait = Never
    BY <1>1, <1>2, <2>1 DEF Elapse, Passes, Most
  <2>3. wait # Never => wait' \in Int /\ (wait' <= wait \/ wait' <= 0)
    BY <1>1, <1>2, <2>1 DEF Elapse, Passes, Most
  <2>4. Measured'
    <3>1. gate' = Never \/ (gate' \in Int /\ gate' <= Longest)
      BY <1>1, <1>2, <2>1 DEF Elapse, Passes, Most
    <3> QED BY <3>1 DEF Measured, Longest
  <2>5. UNCHANGED <<policy, last>>
    BY <1>2 DEF Elapse
  <2>6. CASE wait = Never
    BY <2>2, <2>4, <2>5, <2>6 DEF WakesInTime
  <2>7. CASE wait # Never
    <3>1. wait \in Int /\ wait <= Ceiling
      BY <1>1, <2>7 DEF WakesInTime
    <3>2. wait' <= Ceiling' /\ wait' # Never
      <4> HIDE DEF Ceiling
      <4> QED BY <2>1, <2>2, <2>3, <2>7, <3>1
    <3> QED BY <2>4, <3>2 DEF WakesInTime
  <2> QED BY <2>6, <2>7
<1>3. CASE Begin
  BY <1>3 DEF Begin, Measured, WakesInTime, Ceiling, Longest
<1>4. CASE Bump
  <2>1. Ceiling \in Nat /\ Ceiling' = Ceiling
    BY <1>1, <1>4, Ceilings, CeilingCovers DEF Bump
  <2>2. wait' = 0 /\ wait' # Never /\ wait' <= Ceiling'
    BY <1>1, <1>4, <2>1 DEF Bump
  <2>3. Measured'
    BY <1>4 DEF Bump, Measured, Longest
  <2> QED BY <2>2, <2>3 DEF WakesInTime
<1>5. ASSUME NEW j \in Jitters, BackoffWithoutRun(j) PROVE Measured' /\ WakesInTime'
  BY <1>5, Backoffs DEF Measured, WakesInTime, Longest
<1>6. ASSUME NEW j \in Jitters, NEW outcome \in Outcome, Settle(outcome, j)
      PROVE  Measured' /\ WakesInTime'
  <2> DEFINE computed == ComputeNextWake(outcome, j)
  <2>1. /\ policy' = policy /\ last' = outcome
        /\ wait' = IF outcome = "RATE_LIMITED" THEN LaneWake(gate') ELSE computed.wait
        /\ UNCHANGED gate \/ \E r \in Refusals : gate' = Closed(r)
    BY <1>6, Settlements
  <2>2. gate' = Never \/ (gate' \in Int /\ gate' <= Longest)
    BY <1>1, <2>1, Gates, LongestRefusal
  <2>3. Measured'
    BY <2>2 DEF Measured, Longest
  <2>4. Ceiling' = CeilingOf(policy, outcome)
    BY <2>1, Ceilings
  <2> HIDE DEF computed
  <2>5. CASE outcome = "RATE_LIMITED"
    <3>1. wait' = LaneWake(gate')
      BY <2>1, <2>5
    <3>2. /\ Ceiling' \in Nat /\ LaneFallback <= Ceiling' /\ Longest <= Ceiling'
      BY <1>1, <2>4, <2>5, CeilingCovers
    <3> DEFINE highest == Ceiling'
    <3> HIDE DEF highest
    <3>3. wait' # Never /\ wait' <= highest
      BY <1>1, <2>2, <3>1, <3>2 DEF LaneWake, LaneFallback, highest
    <3> QED BY <2>3, <3>3 DEF WakesInTime, highest
  <2>6. CASE outcome = "BLOCKED"
    BY <2>1, <2>3, <2>6, ComputedWakes DEF WakesInTime, computed
  <2>7. CASE outcome = "RETRYABLE_ERROR"
    <3>1. wait' \in Int /\ wait' <= Ceiling'
      <4>1. wait' \in ErrorBase..ErrorMax
        BY <2>1, <2>7, ComputedWakes DEF computed
      <4>2. Ceiling' = ErrorMax
        BY <1>1, <2>4, <2>7, CeilingCovers
      <4> QED BY <4>1, <4>2 DEF ErrorBase, ErrorMax
    <3> QED BY <1>1, <2>3, <3>1 DEF WakesInTime
  <2>8. CASE outcome \in {"WORK_DONE", "NO_WORK"}
    <3>1. /\ wait' = computed.wait /\ policy.kind \in Kind
          /\ policy.floor \in Nat /\ policy.every \in Nat /\ policy.ceiling \in Nat
      BY <1>1, <2>1, <2>8, PolicyFields
    <3>2. /\ policy.kind \in {"manual", "on_message"} => wait' = Never
          /\ policy.kind = "schedule" => wait' = policy.every
          /\ policy.kind = "continuous" =>
               \/ wait' = policy.floor
               \/ wait' \in Nat /\ wait' <= policy.ceiling + policy.ceiling \div 10
      BY <2>8, <3>1, ComputedWakes DEF computed
    <3>3. /\ Ceiling' \in Nat /\ policy.floor <= Ceiling' /\ policy.every <= Ceiling'
          /\ policy.ceiling + policy.ceiling \div 10 <= Ceiling'
      BY <1>1, <2>4, <2>8, CeilingCovers
    <3> DEFINE top == policy.ceiling + policy.ceiling \div 10
               highest == Ceiling'
    <3>4. top \in Nat
      BY <3>1
    <3> HIDE DEF top, highest
    <3>5. policy.kind \in {"continuous", "schedule"} => wait' \in Int /\ wait' <= highest
      BY <3>1, <3>2, <3>3, <3>4 DEF top, highest
    <3>6. CASE policy.kind \in {"continuous", "schedule"}
      BY <1>1, <2>3, <3>5, <3>6 DEF WakesInTime, highest
    <3>7. CASE policy.kind \notin {"continuous", "schedule"}
      <4>1. wait' = Never
        BY <3>1, <3>2, <3>7 DEF Kind
      <4> QED BY <2>1, <2>3, <3>7, <4>1 DEF WakesInTime
    <3> QED BY <3>6, <3>7
  <2> QED BY <2>5, <2>6, <2>7, <2>8 DEF Outcome
<1>7. ASSUME NEW r \in Refusals, LaneCloses(r) PROVE Measured' /\ WakesInTime'
  <2>1. gate' # Never => gate' <= Longest
    BY <1>1, <1>7, Gates, LongestRefusal DEF LaneCloses
  <2> QED BY <1>7, <2>1 DEF LaneCloses, Measured, WakesInTime, Ceiling, Longest
<1>8. CASE UNCHANGED vars
  BY <1>8 DEF vars, Measured, WakesInTime, Ceiling, Longest
<1> QED BY <1>2, <1>3, <1>4, <1>5, <1>6, <1>7, <1>8 DEF Next

(* Whatever the policy, the jitter, the streak and the time that passes,   *)
(* succeed, backoffWithoutRun and bumpWake leave an agent with a wake that *)
(* comes within the ceiling of its last outcome, and one that wakes by     *)
(* itself with none only when a human owes it an answer, provided that     *)
(* there is a longest refusal.                                             *)
THEOREM WakesComeInTime ==
  (\E r \in Refusals : \A s \in Refusals : r >= s) => (Spec => []WakesInTime)
<1> SUFFICES ASSUME \E r \in Refusals : \A s \in Refusals : r >= s
             PROVE  Spec => []WakesInTime
  OBVIOUS
<1>1. Init => Measured /\ WakesInTime
  <2> SUFFICES ASSUME Init PROVE Measured /\ WakesInTime
    OBVIOUS
  <2>1. policy \in Policies /\ Ceiling \in Nat /\ 0 # Never /\ Longest \in Nat
    BY Ceilings, CeilingCovers, LongestRefusal, PolicyAssumption DEF Init
  <2> QED BY <2>1, PolicyAssumption DEF Init, Measured, WakesInTime
<1>2. TypeOK /\ TypeOK' /\ (Measured /\ WakesInTime) /\ [Next]_vars
      => (Measured /\ WakesInTime)'
  BY MeasuredStep
<1> QED BY <1>1, <1>2, BackoffTypes, PTL DEF Spec

-----------------------------------------------------------------------------
(* No agent is a hot loop *)

(* The shortest that a refusal closes the lane.                            *)
Shortest == CHOOSE r \in Refusals : \A s \in Refusals : r <= s

(* There is a shortest refusal as soon as there is one.                    *)
LEMMA ShortestRefusal ==
  ASSUME NEW r \in Refusals
  PROVE  Shortest \in Nat /\ Shortest <= r
<1> DEFINE R == {p \in Nat \X Nat : p[1] < p[2]}
<1>1. Refusals \subseteq Nat /\ Refusals # {}
  BY PolicyAssumption
<1>2. IsWellFoundedOn(R, Nat)
  BY NatLessThanWellFounded DEF OpToRel
<1>3. PICK x \in Refusals : \A y \in Refusals : ~(<<y, x>> \in R)
  <2> HIDE DEF R
  <2> QED BY <1>1, <1>2, WFMin
<1>4. ASSUME NEW y \in Refusals PROVE x <= y
  <2>1. x \in Nat /\ y \in Nat /\ ~(<<y, x>> \in R)
    BY <1>1, <1>3
  <2> QED BY <2>1
<1>5. Shortest \in Refusals /\ \A y \in Refusals : Shortest <= y
  BY <1>4 DEF Shortest
<1> QED BY <1>1, <1>5

(* What is promised after an outcome under a policy.                       *)
PromisedOf(p, outcome, byVendor) ==
  CASE outcome = "none"            -> 0
    [] outcome = "RETRYABLE_ERROR" -> ErrorBase
    [] outcome = "RATE_LIMITED"    -> IF byVendor THEN Shortest ELSE 1
    [] outcome = "BLOCKED"         -> Horizon
    [] OTHER -> CASE p.kind = "continuous" -> Least(p.floor, Least(p.base, p.ceiling))
                  [] p.kind = "schedule"   -> p.every
                  [] OTHER                 -> Horizon

(* It is the one of the last outcome, now and after.                       *)
LEMMA Promises ==
  /\ Promised = PromisedOf(policy, last, refused)
  /\ Promised' = PromisedOf(policy', last', refused')
BY DEF Promised, PromisedOf, Shortest

(* As long as nobody bumps the agent, what is left of its wait and what    *)
(* has passed since its outcome make up at least what was promised; what   *)
(* lies beyond the horizon has passed.  A turn that declared itself refused *)
(* on a lane whose gate is past is left out.                                *)
Patient ==
  /\ Promised \in Nat
  /\ ~bumped /\ wait # Never =>
       DeclaredLate \/ since = Horizon \/ wait + since >= Promised

(* What succeed writes keeps the promise of the outcome it writes.         *)
LEMMA SettledPatient ==
  ASSUME TypeOK, NEW outcome \in Outcome, NEW j \in Jitters, Settle(outcome, j)
  PROVE  Patient'
<1> DEFINE computed == ComputeNextWake(outcome, j)
<1>1. /\ last' = outcome /\ since' = 0 /\ policy' = policy
      /\ wait' = IF outcome = "RATE_LIMITED" THEN LaneWake(gate') ELSE computed.wait
      /\ LaneWake(gate') \in Int /\ delay' = IF wait' = Never THEN 0 ELSE Most(wait', 0)
      /\ \/ refused' = FALSE
         \/ refused' = TRUE /\ \E r \in Refusals : gate' = Closed(r)
  BY Settlements
<1>2. Promised' = PromisedOf(policy, outcome, refused')
  BY <1>1, Promises
<1>3. /\ policy \in Policies /\ Horizon \in Nat /\ Never \notin Int
      /\ gate = Never \/ gate \in Int
  BY PolicyAssumption DEF TypeOK
<1> HIDE DEF computed
<1>4. ASSUME wait' \in Nat, Promised' \in Nat, Promised' <= wait' PROVE Patient'
  <2> DEFINE w == wait'
             p == Promised'
  <2>1. w \in Nat /\ p \in Nat /\ p <= w
    BY <1>4
  <2> HIDE DEF w, p
  <2>2. w + 0 >= p
    BY <2>1
  <2> QED BY <1>1, <2>1, <2>2 DEF Patient, w, p
<1>5. CASE outcome = "RATE_LIMITED"
  <2>1. wait' = LaneWake(gate') /\ wait' \in Int /\ wait' # Never
    BY <1>1, <1>3, <1>5
  <2>2. CASE refused'
    <3>1. PICK r \in Refusals : gate' = Closed(r)
      BY <1>1, <2>2
    <3>2. Shortest \in Nat /\ Shortest <= r /\ r \in Nat
      BY ShortestRefusal, PolicyAssumption
    <3>3. Closed(r) \in Nat /\ r <= Closed(r)
      BY <1>3, Gates
    <3>4. Promised' = Shortest /\ wait' = gate'
      BY <1>2, <1>3, <1>5, <2>1, <2>2, <3>1, <3>3 DEF PromisedOf, LaneWake
    <3> QED BY <1>4, <3>1, <3>2, <3>3, <3>4
  <2>3. CASE ~refused'
    <3>1. Promised' = 1
      BY <1>2, <1>5, <2>3 DEF PromisedOf
    <3>2. CASE wait' > 0
      BY <1>4, <2>1, <3>1, <3>2
    <3>3. CASE ~(wait' > 0)
      <4>1. delay' = 0
        BY <1>1, <2>1, <3>3 DEF Most
      <4> QED BY <1>1, <1>5, <2>3, <3>1, <4>1 DEF Patient, DeclaredLate
    <3> QED BY <3>2, <3>3
  <2> QED BY <2>2, <2>3
<1>6. CASE outcome = "BLOCKED"
  <2>1. wait' = Never /\ Promised' = Horizon
    BY <1>1, <1>2, <1>6, ComputedWakes DEF PromisedOf, computed
  <2> QED BY <1>3, <2>1 DEF Patient
<1>7. CASE outcome = "RETRYABLE_ERROR"
  <2>1. wait' \in ErrorBase..ErrorMax /\ Promised' = ErrorBase
    BY <1>1, <1>2, <1>7, ComputedWakes DEF PromisedOf, computed
  <2> QED BY <1>4, <2>1 DEF ErrorBase, ErrorMax
<1>8. CASE outcome \in {"WORK_DONE", "NO_WORK"}
  <2> DEFINE least == Least(policy.base, policy.ceiling)
             either == Least(policy.floor, least)
  <2>1. /\ wait' = computed.wait /\ policy.kind \in Kind
        /\ policy.floor \in Nat \ {0} /\ policy.every \in Nat \ {0} /\ least \in Nat
    BY <1>1, <1>3, <1>8, PolicyFields DEF Least
  <2>2. either \in Nat /\ either <= policy.floor /\ either <= least
    <3> HIDE DEF least
    <3> QED BY <2>1 DEF Least
  <2>3. CASE policy.kind \in {"manual", "on_message"}
    <3>1. wait' = Never /\ Promised' = Horizon
      BY <1>2, <1>8, <2>1, <2>3, ComputedWakes DEF PromisedOf, computed
    <3> QED BY <1>3, <3>1 DEF Patient
  <2>4. CASE policy.kind = "schedule"
    <3>1. wait' = policy.every /\ Promised' = policy.every
      BY <1>2, <1>8, <2>1, <2>4, ComputedWakes DEF PromisedOf, computed
    <3> QED BY <1>1, <2>1, <3>1 DEF Patient
  <2>5. CASE policy.kind = "continuous"
    <3>1. Promised' = either
      BY <1>2, <1>8, <2>5 DEF PromisedOf
    <3>2. wait' = policy.floor \/ (wait' \in Nat /\ least <= wait')
      BY <1>8, <2>1, <2>5, ComputedWakes DEF computed
    <3> HIDE DEF least, either
    <3>3. wait' \in Nat /\ either <= wait'
      BY <2>1, <2>2, <3>2
    <3> QED BY <1>4, <2>2, <3>1, <3>3
  <2> QED BY <2>1, <2>3, <2>4, <2>5 DEF Kind
<1> QED BY <1>5, <1>6, <1>7, <1>8 DEF Outcome

(* Time takes from the wait what it adds to what has passed; only succeed   *)
(* gives an agent another wait that nobody asked for.                      *)
LEMMA PatientStep ==
  ASSUME TypeOK, Patient, [Next]_vars
  PROVE  Patient'
<1>1. Horizon \in Nat /\ Past \in Nat /\ Never \notin Int /\ (wait = Never \/ wait \in Int)
      /\ since \in 0..Horizon /\ Promised \in Nat
  BY PolicyAssumption DEF TypeOK, Patient
<1>2. ASSUME UNCHANGED <<policy, last, refused>> PROVE Promised' = Promised
  BY <1>2, Promises
<1>3. ASSUME NEW d \in Gaps, Elapse(d) PROVE Patient'
  <2>1. d \in Nat /\ Promised' = Promised /\ bumped' = bumped
        /\ since' = Least(since + d, Horizon) /\ wait' = Passes(wait, d)
    BY <1>2, <1>3, PolicyAssumption DEF Elapse
  <2>2. ASSUME ~bumped, wait' # Never
        PROVE  DeclaredLate' \/ since' = Horizon \/ wait' + since' >= Promised
    <3>0. DeclaredLate' = DeclaredLate
      BY <1>3 DEF Elapse, DeclaredLate
    <3>1. wait \in Int /\ wait' \in Int /\ wait' >= wait - d
      BY <1>1, <2>1, <2>2 DEF Passes, Most
    <3>2. since' = Horizon \/ (since # Horizon /\ since' = since + d)
      BY <1>1, <2>1 DEF Least
    <3>3. CASE ~DeclaredLate /\ since # Horizon /\ since' = since + d
      <4>1. wait + since >= Promised
        BY <1>1, <2>1, <2>2, <3>1, <3>3 DEF Patient
      <4> QED BY <1>1, <2>1, <3>1, <3>3, <4>1
    <3> QED BY <3>0, <3>2, <3>3
  <2> QED BY <1>1, <2>1, <2>2 DEF Patient
<1>4. CASE Begin
  BY <1>1, <1>2, <1>4 DEF Begin, Patient, DeclaredLate
<1>5. CASE Bump
  BY <1>1, <1>2, <1>5 DEF Bump, Patient
<1>6. ASSUME NEW j \in Jitters, BackoffWithoutRun(j) PROVE Patient'
  <2>1. wait' = Never /\ last' = "NO_WORK" /\ policy' = policy
        /\ policy.kind = "on_message"
    BY <1>6, Backoffs
  <2>2. Promised' = Horizon
    BY <2>1, Promises DEF PromisedOf
  <2> QED BY <1>1, <2>1, <2>2 DEF Patient
<1>7. ASSUME NEW j \in Jitters, NEW outcome \in Outcome, Settle(outcome, j) PROVE Patient'
  BY <1>7, SettledPatient
<1>8. ASSUME NEW r \in Refusals, LaneCloses(r) PROVE Patient'
  BY <1>1, <1>2, <1>8 DEF LaneCloses, Patient, DeclaredLate
<1>9. CASE UNCHANGED vars
  BY <1>1, <1>2, <1>9 DEF vars, Patient, DeclaredLate
<1> QED BY <1>3, <1>4, <1>5, <1>6, <1>7, <1>8, <1>9 DEF Next

(* wake.ts: "That is a quota feedback loop".  Whatever the policy, the     *)
(* jitter, the streaks, the refusals and the state of the lane, a turn that *)
(* nobody asked for starts no sooner than the last outcome promised, unless *)
(* that outcome was a RATE_LIMITED of the turn's own on an expired gate.    *)
THEOREM OnlyLateDeclarationsLoop == Spec => NoOtherHotLoop
<1> DEFINE Waited == DeclaredLate \/ Rested
<1>1. Init => Patient
  <2> SUFFICES ASSUME Init PROVE Patient
    OBVIOUS
  <2>1. Promised = 0 /\ since = Horizon
    BY Promises DEF Init, PromisedOf
  <2> QED BY <2>1 DEF Patient
<1>2. TypeOK /\ Patient /\ [Next]_vars => Patient'
  BY PatientStep
<1>3. TypeOK /\ Patient /\ [Next]_vars => [Waited]_vars
  <2> SUFFICES ASSUME TypeOK, Patient, Next, ~DeclaredLate,
                      phase = "asleep", phase' = "running", ~bumped
               PROVE  since >= Least(Promised, Horizon)
    BY DEF Rested
  <2>1. Begin
    BY Settlements, Backoffs DEF Next, Elapse, LaneCloses, Bump
  <2>2. wait # Never /\ wait <= 0 /\ wait \in Int /\ since \in Nat /\ Horizon \in Nat
    BY <2>1, PolicyAssumption DEF Begin, IsDue, TypeOK
  <2>3. Promised \in Nat /\ (since = Horizon \/ wait + since >= Promised)
    BY <2>2 DEF Patient
  <2>4. since = Horizon \/ since >= Promised
    <3> HIDE DEF Promised
    <3> QED BY <2>2, <2>3
  <2> HIDE DEF Promised
  <2> QED BY <2>2, <2>3, <2>4 DEF Least
<1> QED BY <1>1, <1>2, <1>3, BackoffTypes, PTL DEF Spec, NoOtherHotLoop

-----------------------------------------------------------------------------
(* Delays do not shrink along a streak *)

(* The last delay is the one of the streak that is counted.                *)
Graded ==
  /\ last = "RETRYABLE_ERROR" => err > 0 /\ delay = ErrorDelay(err)
  /\ policy.kind = "continuous" /\ last = "NO_WORK" =>
       idle > 0 /\ delay - delay \div 10 <= Curve(policy, idle)

(* A retry's delay and streak are written together, and so are a backoff's. *)
LEMMA SettledGraded ==
  ASSUME TypeOK, NEW outcome \in Outcome, NEW j \in Jitters, Settle(outcome, j)
  PROVE  /\ last' = outcome
         /\ outcome = "RETRYABLE_ERROR" =>
              err' = Streak(err) /\ err' > 0 /\ delay' = ErrorDelay(err')
         /\ outcome = "NO_WORK" /\ policy.kind = "continuous" =>
              /\ idle' = Streak(idle) /\ idle' > 0
              /\ \E d \in Nat : /\ delay' = d /\ d - d \div 10 <= Curve(policy, idle')
                                /\ Curve(policy, idle') <= d
<1>1. policy \in Policies /\ Streak(err) \in Nat \ {0} /\ Streak(idle) \in Nat \ {0}
      /\ Never \notin Int
  BY Streaks, PolicyAssumption DEF TypeOK
<1>2. CASE outcome = "RETRYABLE_ERROR"
  <2>1. ComputeNextWake(outcome, j) =
          Computed(ErrorDelay(Streak(err)), "backoff", idle, Streak(err))
    BY <1>2 DEF ComputeNextWake
  <2>2. ErrorDelay(Streak(err)) \in ErrorBase..ErrorMax
    BY <1>1, ErrorDelays
  <2>3. ErrorDelay(Streak(err)) # Never /\ Most(ErrorDelay(Streak(err)), 0) = ErrorDelay(Streak(err))
    BY <1>1, <2>2 DEF Most, ErrorBase, ErrorMax
  <2>4. err' = Streak(err) /\ delay' = ErrorDelay(Streak(err)) /\ last' = outcome
    <3>1. /\ last' = outcome /\ err' = ComputeNextWake(outcome, j).err
          /\ delay' = IF wait' = Never THEN 0 ELSE Most(wait', 0)
          /\ wait' = IF outcome = "RATE_LIMITED" THEN LaneWake(gate')
                     ELSE ComputeNextWake(outcome, j).wait
      BY Settlements
    <3>2. /\ ComputeNextWake(outcome, j).err = Streak(err)
          /\ ComputeNextWake(outcome, j).wait = ErrorDelay(Streak(err))
      BY <2>1 DEF Computed
    <3> QED BY <1>2, <2>3, <3>1, <3>2
  <2> QED BY <1>1, <1>2, <2>4
<1>3. CASE outcome = "NO_WORK" /\ policy.kind = "continuous"
  <2> DEFINE d == IdleDelay(Streak(idle), j)
             s == Streak(idle)
  <2>1. ComputeNextWake(outcome, j) = Computed(d, "backoff", s, 0)
    BY <1>3 DEF ComputeNextWake
  <2>2. d \in Nat \ {0} /\ d - d \div 10 <= Curve(policy, s) /\ Curve(policy, s) <= d
    BY <1>1, IdleDelays
  <2>3. s \in Nat \ {0}
    BY <1>1
  <2> HIDE DEF d, s
  <2>4. d # Never /\ Most(d, 0) = d
    BY <1>1, <2>2 DEF Most
  <2>5. idle' = s /\ delay' = d /\ last' = outcome
    <3>1. /\ last' = outcome /\ idle' = ComputeNextWake(outcome, j).idle
          /\ delay' = IF wait' = Never THEN 0 ELSE Most(wait', 0)
          /\ wait' = IF outcome = "RATE_LIMITED" THEN LaneWake(gate')
                     ELSE ComputeNextWake(outcome, j).wait
      BY Settlements
    <3>2. ComputeNextWake(outcome, j).idle = s /\ ComputeNextWake(outcome, j).wait = d
      BY <2>1 DEF Computed
    <3> QED BY <1>3, <2>4, <3>1, <3>2
  <2> QED BY <1>3, <2>2, <2>3, <2>5 DEF s
<1> QED BY <1>2, <1>3, Settlements

(* Nothing else writes a streak or a delay, but for the backoff of an agent *)
(* that is not continuous.                                                 *)
LEMMA GradedStep ==
  ASSUME TypeOK, Graded, [Next]_vars
  PROVE  Graded'
<1>1. ASSUME UNCHANGED <<policy, last, err, idle, delay>> PROVE Graded'
  BY <1>1 DEF Graded, ErrorDelay, Curve
<1>2. ASSUME NEW d \in Gaps, Elapse(d) PROVE Graded'
  BY <1>1, <1>2 DEF Elapse
<1>3. CASE Begin \/ Bump
  BY <1>1, <1>3 DEF Begin, Bump
<1>4. ASSUME NEW j \in Jitters, BackoffWithoutRun(j) PROVE Graded'
  BY <1>4, Backoffs DEF Graded
<1>5. ASSUME NEW j \in Jitters, NEW outcome \in Outcome, Settle(outcome, j) PROVE Graded'
  <2>1. policy' = policy /\ last' = outcome
    BY <1>5, Settlements
  <2>2. outcome = "RETRYABLE_ERROR" => err' > 0 /\ delay' = ErrorDelay(err')
    BY <1>5, SettledGraded
  <2>3. outcome = "NO_WORK" /\ policy.kind = "continuous" =>
          idle' > 0 /\ delay' - delay' \div 10 <= Curve(policy, idle')
    BY <1>5, SettledGraded
  <2>4. /\ ErrorDelay(err)' = ErrorDelay(err')
        /\ Curve(policy, idle)' = Curve(policy', idle')
    BY DEF ErrorDelay, Curve
  <2> QED BY <2>1, <2>2, <2>3, <2>4 DEF Graded
<1>6. ASSUME NEW r \in Refusals, LaneCloses(r) PROVE Graded'
  BY <1>1, <1>6 DEF LaneCloses
<1>7. CASE UNCHANGED vars
  BY <1>1, <1>7 DEF vars
<1> QED BY <1>2, <1>3, <1>4, <1>5, <1>6, <1>7 DEF Next

(* wake.ts 65-70 and 88-106: whatever the policy and the jitter,           *)
(* consecutive failures never shorten the retry, and consecutive idle      *)
(* turns never shorten the backoff below what it was without jitter.       *)
THEOREM BackoffNeverShrinks == Spec => BackoffGrows
<1> DEFINE Failing == /\ last = "RETRYABLE_ERROR" /\ last' = last /\ since' = 0
                      /\ phase # phase'
           Idling  == /\ policy.kind = "continuous" /\ last = "NO_WORK" /\ last' = last
                      /\ since' = 0 /\ phase # phase'
           Grows   == /\ Failing => delay' >= delay
                      /\ Idling => delay' >= delay - delay \div 10
<1>1. Init => Graded
  BY DEF Init, Graded
<1>2. TypeOK /\ Graded /\ [Next]_vars => Graded'
  BY GradedStep
<1>3. TypeOK /\ Graded /\ [Next]_vars => [Grows]_vars
  <2> SUFFICES ASSUME TypeOK, Graded, Next, Failing \/ Idling
               PROVE  Grows
    OBVIOUS
  <2>1. delay \in Nat /\ policy \in Policies
    BY DEF TypeOK
  <2>2. CASE Begin
    BY <2>1, <2>2 DEF Begin
  <2>3. ASSUME NEW j \in Jitters, NEW outcome \in Outcome, Settle(outcome, j) PROVE Grows
    <3>1. last' = outcome
      BY <2>3, SettledGraded
    <3>2. ASSUME Failing PROVE delay' >= delay
      <4>1. err \in Nat \ {0} /\ delay = ErrorDelay(err)
        BY <3>2 DEF Graded, TypeOK
      <4>2. err' = Streak(err) /\ delay' = ErrorDelay(err')
        BY <2>3, <3>1, <3>2, SettledGraded
      <4>3. err' \in {err, err + 1}
        BY <4>2, Streaks DEF TypeOK
      <4>4. /\ ErrorDelay(err) \in ErrorBase..ErrorMax
            /\ ErrorDelay(err) <= ErrorDelay(err + 1)
        BY <4>1, ErrorDelays
      <4> QED BY <2>1, <4>1, <4>2, <4>3, <4>4
    <3>3. ASSUME Idling PROVE delay' >= delay - delay \div 10
      <4>1. idle \in Nat \ {0} /\ delay - delay \div 10 <= Curve(policy, idle)
        BY <3>3 DEF Graded, TypeOK
      <4>2. /\ idle' = Streak(idle) /\ delay' \in Nat
            /\ Curve(policy, idle') <= delay'
        BY <2>3, <3>1, <3>3, SettledGraded
      <4>3. idle' \in {idle, idle + 1}
        BY <4>2, Streaks DEF TypeOK
      <4>4. /\ Curve(policy, idle) \in Nat /\ Curve(policy, idle + 1) \in Nat
            /\ Curve(policy, idle) <= Curve(policy, idle + 1)
        BY <2>1, <4>1, Curves
      <4>5. Curve(policy, idle') \in Nat /\ Curve(policy, idle) <= Curve(policy, idle')
        BY <4>3, <4>4
      <4> QED BY <2>1, <4>1, <4>2, <4>4, <4>5
    <3> QED BY <3>2, <3>3
  <2> QED BY <2>2, <2>3, Backoffs DEF Next, Elapse, LaneCloses, Bump
<1> QED BY <1>1, <1>2, <1>3, BackoffTypes, PTL DEF Spec, BackoffGrows
=============================================================================
