---------------------------- MODULE ControlProofs ----------------------------
(***************************************************************************)
(* Proofs about Control: for any pages, entities and settings, what a      *)
(* panel asks for is only ever turned into services of the domain of the   *)
(* entity it is asked of, and into values that are polled as they were set.*)
(***************************************************************************)
EXTENDS Control, SequenceTheorems, TLAPS

-----------------------------------------------------------------------------
(* values.py: "round-tripping a percentage must land back on the same      *)
(* percentage".  For brightness it does, on every percentage; for colour   *)
(* temperature on every range of more than a hundred kelvin.               *)

\* Rounding is to a nearest integer: twice the distance is at most d.
LEMMA RoundIsNear ==
    ASSUME NEW n \in Int, NEW d \in Nat \ {0}
    PROVE  /\ Round(n, d) \in Int
           /\ 2 * (d * Round(n, d) - n) <= d
           /\ 2 * (n - d * Round(n, d)) <= d
  <1>. DEFINE q == n \div d  r == n % d
  <1>1. q \in Int /\ r \in 0 .. d - 1 /\ n = d * q + r
    OBVIOUS
  <1>2. d * (q + 1) = d * q + d
    BY <1>1
  <1>3. Round(n, d) = q \/ Round(n, d) = q + 1
    BY DEF Round
  <1>4. CASE Round(n, d) = q
    <2>1. 2 * r <= d
      BY <1>1, <1>4 DEF Round
    <2>. QED BY <1>1, <1>4, <2>1
  <1>5. CASE Round(n, d) = q + 1
    <2>1. 2 * r >= d
      BY <1>1, <1>5 DEF Round
    <2>. QED BY <1>1, <1>2, <1>5, <2>1
  <1>. QED BY <1>3, <1>4, <1>5

\* Whatever is nearer than half to an integer is rounded to it.
LEMMA RoundFinds ==
    ASSUME NEW n \in Int, NEW d \in Nat \ {0}, NEW m \in Int,
           2 * (d * m - n) < d, 2 * (n - d * m) < d
    PROVE  Round(n, d) = m
  <1>. DEFINE k == Round(n, d)
  <1>1. k \in Int /\ 2 * (d * k - n) <= d /\ 2 * (n - d * k) <= d
    BY RoundIsNear
  <1>2. CASE k >= m + 1
    <2>1. d * k >= d * (m + 1) /\ d * (m + 1) = d * m + d
      BY <1>1, <1>2
    <2>. QED BY <1>1, <2>1
  <1>3. CASE k <= m - 1
    <2>1. d * k <= d * (m - 1) /\ d * (m - 1) = d * m - d
      BY <1>1, <1>3
    <2>. QED BY <1>1, <2>1
  <1>. QED BY <1>1, <1>2, <1>3

\* A percentage set as a brightness is polled as the same percentage.
THEOREM BrightnessRoundTrip ==
    ASSUME NEW p \in Percent
    PROVE  BrightnessToPercent(PercentToBrightness(p)) = p
  <1>. DEFINE b == PercentToBrightness(p)
  <1>1. b \in Int /\ 2 * (100 * b - p * 255) <= 100 /\ 2 * (p * 255 - 100 * b) <= 100
    <2>1. CASE p >= 100
      BY <2>1 DEF PercentToBrightness, Percent, MaxBrightness
    <2>2. CASE p < 100
      BY <2>2, RoundIsNear DEF PercentToBrightness, Percent, MaxBrightness
    <2>. QED BY <2>1, <2>2 DEF Percent
  <1>2. Round(b * 100, 255) = p
    BY <1>1, RoundFinds DEF Percent
  <1>. QED BY <1>2 DEF BrightnessToPercent, ClampPercent, Percent, MaxBrightness

\* A colour temperature set on a range of more than a hundred kelvin is
\* polled as the same percentage of it.
THEOREM KelvinRoundTrip ==
    ASSUME NEW p \in Percent, NEW low \in Nat, NEW high \in Nat, high - low > 100
    PROVE  KelvinToPercent(PercentToKelvin(p, low, high), low, high) = p
  <1>. DEFINE w == high - low
              x == w * p
              k == PercentToKelvin(p, low, high)
  <1>1. w \in Nat \ {0} /\ w > 100 /\ x \in Int
    BY DEF Percent
  <1>2. /\ k = Round(low * 100 + x, 100)
        /\ KelvinToPercent(k, low, high) = ClampPercent((k - low) * 100, w)
    BY <1>1 DEF PercentToKelvin, KelvinToPercent
  <1>3. low * 100 + x \in Int
    BY <1>1
  <1>4. k \in Int /\ 2 * (100 * k - (low * 100 + x)) <= 100 /\ 2 * ((low * 100 + x) - 100 * k) <= 100
    <2>. HIDE DEF x, w, k
    <2>. QED BY <1>2, <1>3, RoundIsNear
  <1>5. Round((k - low) * 100, w) = p
    <2>1. (k - low) * 100 \in Int /\ p \in Int
      BY <1>4 DEF Percent
    <2>2. 2 * (x - (k - low) * 100) < w /\ 2 * ((k - low) * 100 - x) < w
      <3>. HIDE DEF x, w, k
      <3>. QED BY <1>1, <1>4
    <2>3. 2 * (w * p - (k - low) * 100) < w /\ 2 * ((k - low) * 100 - w * p) < w
      BY <2>2
    <2>. HIDE DEF x, w, k
    <2>. QED BY <1>1, <2>1, <2>3, RoundFinds
  <1>. QED BY <1>2, <1>5 DEF ClampPercent, Percent

-----------------------------------------------------------------------------
(* The inductive invariant.                                                *)

CoverServices == {"open_cover", "close_cover", "stop_cover"}

\* What may wait for an entity: a call of its domain, with a value that
\* polling and setting again would not change.
Suits(c, e) ==
    /\ c \in Calls
    /\ (e \in Cover) <=> (c.service \in CoverServices)
    /\ "brightness" \in DOMAIN c =>
          c.brightness = PercentToBrightness(BrightnessToPercent(c.brightness))
    /\ "kelvin" \in DOMAIN c =>
          c.kelvin = PercentToKelvin(KelvinToPercent(c.kelvin, Low, High), Low, High)

CallsSuit == calls \in [Entity -> Seq(Calls)] /\ \A e \in Entity : \A i \in DOMAIN calls[e] : Suits(calls[e][i], e)

IInv == TypeOK /\ CallsSuit
-----------------------------------------------------------------------------
(* The conversions stay in their ranges.                                   *)

LEMMA PercentageTypes ==
    ASSUME NEW n \in Int, NEW d \in Nat \ {0}
    PROVE  ClampPercent(n, d) \in Percent
  <1>1. Round(n, d) \in Int
    BY RoundIsNear
  <1>. QED BY <1>1 DEF ClampPercent, Percent

LEMMA BrightnessTypes ==
    ASSUME NEW p \in Percent
    PROVE  PercentToBrightness(p) \in 0 .. MaxBrightness
  <1>1. CASE p >= 100
    BY <1>1 DEF PercentToBrightness, MaxBrightness
  <1>2. CASE p < 100
    <2>. DEFINE b == Round(p * 255, 100)
    <2>1. b \in Int /\ 2 * (100 * b - p * 255) <= 100 /\ 2 * (p * 255 - 100 * b) <= 100
      BY RoundIsNear DEF Percent
    <2>2. PercentToBrightness(p) = b
      BY <1>2 DEF PercentToBrightness, MaxBrightness, Percent
    <2>. QED BY <1>2, <2>1, <2>2 DEF MaxBrightness, Percent
  <1>. QED BY <1>1, <1>2 DEF Percent

LEMMA KelvinTypes ==
    ASSUME NEW p \in Percent
    PROVE  PercentToKelvin(p, Low, High) \in Low .. High
  <1>. DEFINE w == High - Low
              x == w * p
              k == Round(Low * 100 + x, 100)
  <1>1. /\ w \in Nat /\ w > 100 /\ Low \in Nat /\ High = Low + w
        /\ x \in Int /\ 0 <= x
    BY ControlAssumption DEF Percent
  <1>2. x <= 100 * w
    <2>1. p \in Nat /\ p <= 100
      BY DEF Percent
    <2>2. 100 * w - x = w * (100 - p) /\ w * (100 - p) >= 0
      BY <1>1, <2>1
    <2>. QED BY <1>1, <2>2
  <1>3. k \in Int /\ 2 * (100 * k - (Low * 100 + x)) <= 100 /\ 2 * ((Low * 100 + x) - 100 * k) <= 100
    <2>. HIDE DEF w, x, k
    <2>1. Low * 100 + x \in Int
      BY <1>1
    <2>. USE DEF k
    <2>. QED BY <2>1, RoundIsNear
  <1>4. PercentToKelvin(p, Low, High) = k
    BY <1>1 DEF PercentToKelvin
  <1>5. k \in Low .. High
    <2>. HIDE DEF w, x, k
    <2>. QED BY <1>1, <1>2, <1>3
  <1>. QED BY <1>4, <1>5
-----------------------------------------------------------------------------
(* What a link drives, and the calls it makes.                             *)

\* A level link drives a cover, the others a lamp, now and left over.
LEMMA TargetSuits ==
    ASSUME NEW s \in Settings, NEW r \in Role
    PROVE  TargetFor(s, r) \in {None} \cup IF r = "level" THEN Cover ELSE Lamp
  BY DEF Settings, Role, TargetFor, RoleMatches, LeftoverRole

\* Whatever a panel writes becomes a call that suits what its link drives.
LEMMA CallSuits ==
    ASSUME NEW q \in Writes, NEW e \in Entity, (e \in Cover) <=> (q.role = "level")
    PROVE  Suits(CallFor(q, e), e)
  <1>. DEFINE c == CallFor(q, e)
  <1>1. q.ask \in {"on", "off", "set", "stop"}
    BY DEF Writes
  <1>2. CASE q.ask \in {"on", "off"}
    <2>1. q.role = "brightness"
      BY <1>2 DEF Writes
    <2>2. c = [service |-> "turn_on"] \/ c = [service |-> "turn_off"]
      BY <1>2, <2>1 DEF CallFor
    <2>. QED BY <2>1, <2>2 DEF Suits, Calls, Services, CoverServices
  <1>3. CASE q.ask = "stop"
    <2>1. q.role = "level" /\ c = [service |-> "stop_cover"]
      BY <1>3 DEF Writes, CallFor
    <2>. QED BY <2>1 DEF Suits, Calls, Services, CoverServices
  <1>4. CASE q.ask = "set" /\ q.role = "level"
    <2>1. c = [service |-> "close_cover"] \/ c = [service |-> "open_cover"]
      BY <1>4 DEF CallFor
    <2>. QED BY <1>4, <2>1 DEF Suits, Calls, Services, CoverServices
  <1>5. CASE q.ask = "set" /\ q.role = "brightness"
    <2>1. q.value \in Percent
      BY <1>5, ControlAssumption DEF Writes
    <2>2. CASE q.value = 0
      <3>1. c = [service |-> "turn_off"]
        BY <1>5, <2>2 DEF CallFor
      <3>. QED BY <1>5, <3>1 DEF Suits, Calls, Services, CoverServices
    <2>3. CASE q.value > 0
      <3>. DEFINE b == PercentToBrightness(q.value)
      <3>1. c = [service |-> "turn_on", brightness |-> b]
        BY <1>5, <2>3 DEF CallFor
      <3>2. b \in 0 .. MaxBrightness /\ BrightnessToPercent(b) = q.value
        BY <2>1, BrightnessTypes, BrightnessRoundTrip
      <3>. HIDE DEF b, c
      <3>3. c \in Calls
        BY <3>1, <3>2 DEF Calls
      <3>4. b = PercentToBrightness(BrightnessToPercent(b))
        BY <3>2 DEF b
      <3>. QED BY <1>5, <3>1, <3>3, <3>4 DEF Suits, CoverServices, c
    <2>. QED BY <2>1, <2>2, <2>3 DEF Percent
  <1>6. CASE q.ask = "set" /\ q.role = "colour_temperature"
    <2>. DEFINE k == PercentToKelvin(q.value, Low, High)
    <2>1. q.value \in Percent
      BY <1>6, ControlAssumption DEF Writes
    <2>2. c = [service |-> "turn_on", kelvin |-> k]
      BY <1>6 DEF CallFor
    <2>3. k \in Low .. High /\ KelvinToPercent(k, Low, High) = q.value
      BY <2>1, KelvinTypes, KelvinRoundTrip, ControlAssumption
    <2>. HIDE DEF k, c
    <2>4. c \in Calls
      BY <2>2, <2>3 DEF Calls
    <2>5. k = PercentToKelvin(KelvinToPercent(k, Low, High), Low, High)
      BY <2>3 DEF k
    <2>. QED BY <1>6, <2>2, <2>4, <2>5 DEF Suits, CoverServices, c
  <1>7. q.role \in {"level", "brightness", "colour_temperature"}
    BY DEF Writes
  <1>. QED BY <1>1, <1>2, <1>3, <1>4, <1>5, <1>6, <1>7
-----------------------------------------------------------------------------
(* The invariant.                                                          *)

\* What a poll is answered is a percentage.
LEMMA AnswerTypes ==
    ASSUME IInv, NEW r \in Role, NEW e \in Entity,
           (e \in Cover) <=> (r = "level"), state[e] # Unavailable
    PROVE  CurrentValue(r, e) \in Percent
  <1>1. state[e] \in Reading(e)
    BY DEF IInv, TypeOK
  <1>2. CASE r = "level"
    BY <1>1, <1>2 DEF CurrentValue, Reading
  <1>3. CASE r = "colour_temperature"
    <2>1. CASE e \in Light /\ state[e] > 0
      <3>1. (warmth[e] - Low) * 100 \in Int /\ High - Low \in Nat \ {0}
        BY <2>1, ControlAssumption DEF IInv, TypeOK
      <3>2. KelvinToPercent(warmth[e], Low, High) \in Percent
        <4>. DEFINE n == (warmth[e] - Low) * 100
                    d == High - Low
        <4>1. n \in Int /\ d \in Nat \ {0}
          BY <3>1
        <4>2. KelvinToPercent(warmth[e], Low, High) \in {0, ClampPercent(n, d)}
          BY DEF KelvinToPercent
        <4>. HIDE DEF n, d
        <4>3. ClampPercent(n, d) \in Percent
          BY <4>1, PercentageTypes
        <4>. QED BY <4>2, <4>3 DEF Percent
      <3>. QED BY <1>3, <2>1, <3>2 DEF CurrentValue
    <2>2. CASE ~(e \in Light /\ state[e] > 0)
      BY <1>3, <2>2 DEF CurrentValue, Percent
    <2>. QED BY <2>1, <2>2
  <1>4. CASE r = "brightness"
    <2>1. state[e] * 100 \in Int /\ MaxBrightness \in Nat \ {0}
      BY <1>1, <1>4 DEF Reading, MaxBrightness
    <2>2. BrightnessToPercent(state[e]) \in Percent
      BY <2>1, PercentageTypes DEF BrightnessToPercent
    <2>. QED BY <1>4, <2>2 DEF CurrentValue, Percent
  <1>. QED BY <1>2, <1>3, <1>4 DEF Role

\* A call leaves its entity with a reading of its kind.
LEMMA AfterTypes ==
    ASSUME IInv, NEW e \in Entity, NEW c, Suits(c, e)
    PROVE  After(c, e) \in Reading(e) \cup {Unavailable}
  <1>1. state[e] \in Reading(e) \cup {Unavailable}
    BY DEF IInv, TypeOK
  <1>2. CASE state[e] = Unavailable
    BY <1>2 DEF After
  <1>3. CASE state[e] # Unavailable /\ c.service \in {"open_cover", "close_cover", "turn_off", "stop_cover"}
    BY <1>1, <1>3 DEF After, Reading, Percent, MaxBrightness, Suits, CoverServices
  <1>4. CASE state[e] # Unavailable /\ c.service = "turn_on"
    <2>1. e \notin Cover
      BY <1>4 DEF Suits, CoverServices
    <2>2. "brightness" \in DOMAIN c => c.brightness \in 0 .. MaxBrightness /\ DOMAIN c # {"service"}
      BY DEF Suits, Calls
    <2>3. MaxBrightness \in Reading(e)
      BY <2>1 DEF Reading, MaxBrightness
    <2>4. CASE e \in Switch
      <3>1. After(c, e) \in {state[e], MaxBrightness}
        BY <1>4, <2>2, <2>4 DEF After
      <3>. QED BY <1>1, <2>3, <3>1
    <2>5. CASE e \notin Switch
      <3>1. Reading(e) = 0 .. MaxBrightness
        BY <2>1, <2>5 DEF Reading
      <3>. QED BY <1>1, <1>4, <2>2, <2>3, <3>1 DEF After
    <2>. QED BY <2>4, <2>5
  <1>5. c.service \in Services
    BY DEF Suits, Calls, Services
  <1>. QED BY <1>2, <1>3, <1>4, <1>5 DEF Services

LEMMA Initially == Init => IInv
  <1>. SUFFICES ASSUME Init PROVE IInv
    OBVIOUS
  <1>1. component \in [Page -> Settings]
    BY ControlAssumption DEF Init
  <1>2. linked \in [Page -> SUBSET Role]
    BY DEF Init, LinksOf, Role
  <1>3. screen \in [Page -> [Role -> Percent]] /\ state \in [Entity -> Int]
    BY DEF Init, Percent
  <1>4. \A e \in Entity : state[e] \in Reading(e) \cup {Unavailable}
    BY DEF Init, Reading, Percent, MaxBrightness
  <1>5. warmth \in [Light -> Low .. High] /\ events \in 0 .. MaxEvents
    BY ControlAssumption DEF Init
  <1>6. up \in Seq(Reads \cup Writes) /\ down \in Seq(Answers) /\ calls \in [Entity -> Seq(Calls)]
    BY DEF Init
  <1>7. \A e \in Entity : \A i \in DOMAIN calls[e] : Suits(calls[e][i], e)
    BY DEF Init
  <1>. QED BY <1>1, <1>2, <1>3, <1>4, <1>5, <1>6, <1>7 DEF IInv, TypeOK, CallsSuit

LEMMA HandleKeeps == IInv /\ Handle => IInv'
  <1>. SUFFICES ASSUME IInv, Handle PROVE IInv'
    OBVIOUS
  <1>. DEFINE q == Head(up)
              e == TargetFor(component[q.page], q.role)
  <1>1. up # <<>> /\ up \in Seq(Reads \cup Writes) /\ down \in Seq(Answers)
    BY DEF IInv, TypeOK, Handle
  <1>2. q \in Reads \cup Writes /\ up' \in Seq(Reads \cup Writes)
    BY <1>1 DEF Handle
  <1>3. q.page \in Page /\ q.role \in Role /\ (q.ask = "get" => q \in Reads) /\ (q.ask # "get" => q \in Writes)
    BY <1>2 DEF Reads, Writes, Role
  <1>4. e \in {None} \cup IF q.role = "level" THEN Cover ELSE Lamp
    BY <1>3, TargetSuits DEF IInv, TypeOK
  <1>5. e # None => e \in Entity /\ ((e \in Cover) <=> (q.role = "level"))
    BY <1>4, ControlAssumption DEF Entity, Lamp
  <1>6. Silent(q, e) \/ Report(q, e) \/ Act(q, e)
    BY DEF Handle
  <1>. HIDE DEF q, e
  <1>7. down' \in Seq(Answers) /\ CallsSuit'
    <2>1. CASE Silent(q, e)
      BY <2>1, <1>1 DEF Silent, IInv, CallsSuit
    <2>2. CASE Report(q, e)
      <3>1. CurrentValue(q.role, e) \in Percent
        BY <1>3, <1>5, <2>2, AnswerTypes DEF Report
      <3>2. [page |-> q.page, role |-> q.role, value |-> CurrentValue(q.role, e)] \in Answers
        BY <1>3, <3>1 DEF Answers
      <3>. QED BY <1>1, <2>2, <3>2 DEF Report, IInv, CallsSuit
    <2>3. CASE Act(q, e)
      <3>. DEFINE c == CallFor(q, e)
      <3>1. Suits(c, e) /\ e \in Entity
        BY <1>3, <1>5, <2>3, CallSuits DEF Act
      <3>2. c \in Calls /\ calls \in [Entity -> Seq(Calls)]
        BY <3>1 DEF Suits, IInv, CallsSuit
      <3>3. calls' = [calls EXCEPT ![e] = Append(calls[e], c)] /\ down' = down
        BY <2>3 DEF Act
      <3>. HIDE DEF c
      <3>4. calls' \in [Entity -> Seq(Calls)]
        BY <3>1, <3>2, <3>3
      <3>5. \A d \in Entity : \A i \in DOMAIN calls'[d] : Suits(calls'[d][i], d)
        <4>. TAKE d \in Entity
        <4>. TAKE i \in DOMAIN calls'[d]
        <4>1. CASE d # e
          BY <4>1, <3>1, <3>2, <3>3 DEF IInv, CallsSuit
        <4>2. CASE d = e
          <5>1. calls'[d] = Append(calls[d], c) /\ calls[d] \in Seq(Calls)
            BY <4>2, <3>1, <3>2, <3>3
          <5>2. i \in DOMAIN calls[d] \/ i = Len(calls[d]) + 1
            BY <5>1
          <5>3. CASE i \in DOMAIN calls[d]
            <6>1. calls'[d][i] = calls[d][i]
              BY <5>1, <5>3
            <6>. QED BY <6>1, <5>3 DEF IInv, CallsSuit
          <5>4. CASE i = Len(calls[d]) + 1
            <6>1. calls'[d][i] = c
              BY <5>1, <5>4
            <6>. QED BY <6>1, <4>2, <3>1
          <5>. QED BY <5>2, <5>3, <5>4
        <4>. QED BY <4>1, <4>2
      <3>6. CallsSuit'
        BY <3>4, <3>5 DEF CallsSuit, Suits
      <3>. QED BY <1>1, <3>3, <3>6
    <2>. QED BY <1>6, <2>1, <2>2, <2>3
  <1>8. UNCHANGED <<component, linked, screen, state, warmth, events>>
    BY DEF Handle
  <1>. QED BY <1>2, <1>7, <1>8 DEF IInv, TypeOK, CallsSuit

LEMMA ExecuteKeeps ==
    ASSUME IInv, NEW e \in Entity, Execute(e)
    PROVE  IInv'
  <1>. DEFINE c == Head(calls[e])
  <1>1. calls \in [Entity -> Seq(Calls)] /\ calls[e] \in Seq(Calls) /\ calls[e] # <<>>
    BY DEF IInv, CallsSuit, Execute
  <1>2. Suits(c, e)
    <2>1. 1 \in DOMAIN calls[e] /\ c = calls[e][1]
      BY <1>1
    <2>. QED BY <2>1 DEF IInv, CallsSuit
  <1>3. /\ calls' = [calls EXCEPT ![e] = Tail(calls[e])]
        /\ state' = [state EXCEPT ![e] = After(c, e)]
        /\ warmth' = IF e \in Light /\ "kelvin" \in DOMAIN c /\ state[e] # Unavailable
                     THEN [warmth EXCEPT ![e] = c.kelvin] ELSE warmth
        /\ UNCHANGED <<component, linked, screen, wire, events>>
    BY DEF Execute
  <1>. HIDE DEF c
  <1>4. CallsSuit'
    <2>1. calls' \in [Entity -> Seq(Calls)]
      BY <1>1, <1>3
    <2>2. \A d \in Entity : \A i \in DOMAIN calls'[d] : Suits(calls'[d][i], d)
      <3>. TAKE d \in Entity
      <3>. TAKE i \in DOMAIN calls'[d]
      <3>1. CASE d # e
        BY <3>1, <1>1, <1>3 DEF IInv, CallsSuit
      <3>2. CASE d = e
        <4>1. calls'[d] = Tail(calls[d]) /\ calls[d] \in Seq(Calls) /\ calls[d] # <<>>
          BY <3>2, <1>1, <1>3
        <4>2. i + 1 \in DOMAIN calls[d] /\ calls'[d][i] = calls[d][i + 1]
          BY <4>1
        <4>. QED BY <4>2 DEF IInv, CallsSuit
      <3>. QED BY <3>1, <3>2
    <2>. QED BY <2>1, <2>2 DEF CallsSuit, Suits
  <1>5. After(c, e) \in Reading(e) \cup {Unavailable} /\ After(c, e) \in Int
    <2>1. After(c, e) \in Reading(e) \cup {Unavailable}
      BY <1>2, AfterTypes
    <2>. QED BY <2>1 DEF Reading, Percent, MaxBrightness, Unavailable
  <1>6. state' \in [Entity -> Int] /\ \A d \in Entity : state'[d] \in Reading(d) \cup {Unavailable}
    BY <1>3, <1>5 DEF IInv, TypeOK
  <1>7. warmth' \in [Light -> Low .. High]
    <2>1. "kelvin" \in DOMAIN c => c.kelvin \in Low .. High
      BY <1>2 DEF Suits, Calls
    <2>. QED BY <1>3, <2>1 DEF IInv, TypeOK
  <1>. QED BY <1>3, <1>4, <1>6, <1>7 DEF IInv, TypeOK, CallsSuit, wire, Reading

LEMMA HappensTypes == events \in 0 .. MaxEvents /\ Happens => events' \in 0 .. MaxEvents
  BY ControlAssumption DEF Happens

LEMMA PanelKeeps ==
    ASSUME IInv, (\E q \in Writes : Touch(q)) \/ (\E p \in Page, r \in Role : Poll(p, r)) \/ Show
    PROVE  IInv'
  <1>1. ASSUME NEW q \in Writes, Touch(q) PROVE IInv'
    <2>1. up' \in Seq(Reads \cup Writes) /\ UNCHANGED <<component, linked, state, warmth, down, calls>>
      BY <1>1 DEF Touch, IInv, TypeOK
    <2>2. screen' \in [Page -> [Role -> Percent]]
      <3>1. q.page \in Page /\ q.role \in Role /\ (q.ask = "set" => q.value \in Percent)
        BY ControlAssumption DEF Writes, Role
      <3>. QED BY <1>1, <3>1 DEF Touch, IInv, TypeOK
    <2>3. events' \in 0 .. MaxEvents
      BY <1>1, HappensTypes DEF Touch, IInv, TypeOK
    <2>. QED BY <2>1, <2>2, <2>3 DEF IInv, TypeOK, CallsSuit, Reading
  <1>2. ASSUME NEW p \in Page, NEW r \in Role, Poll(p, r) PROVE IInv'
    <2>1. [page |-> p, role |-> r, ask |-> "get"] \in Reads
      BY DEF Reads
    <2>2. up' \in Seq(Reads \cup Writes)
      BY <1>2, <2>1 DEF Poll, IInv, TypeOK
    <2>. QED BY <1>2, <2>2 DEF Poll, IInv, TypeOK, CallsSuit, Reading
  <1>3. ASSUME Show PROVE IInv'
    <2>. DEFINE a == Head(down)
    <2>1. a \in Answers /\ down' \in Seq(Answers)
      BY <1>3 DEF Show, IInv, TypeOK
    <2>2. a.page \in Page /\ a.role \in Role /\ a.value \in Percent
      BY <2>1 DEF Answers
    <2>3. screen' = [screen EXCEPT ![a.page][a.role] = a.value]
      BY <1>3 DEF Show
    <2>. HIDE DEF a
    <2>4. screen' \in [Page -> [Role -> Percent]]
      BY <2>2, <2>3 DEF IInv, TypeOK
    <2>. QED BY <1>3, <2>1, <2>4 DEF Show, IInv, TypeOK, CallsSuit, Reading
  <1>. QED BY <1>1, <1>2, <1>3

LEMMA OthersKeep ==
    ASSUME IInv,
           \/ Lose \/ \E e \in Entity : Change(e)
           \/ \E p \in Page, s \in Offered, written \in BOOLEAN : Save(p, s, written)
    PROVE  IInv'
  <1>1. ASSUME Lose PROVE IInv'
    <2>1. events' \in 0 .. MaxEvents
      BY <1>1, HappensTypes DEF Lose, IInv, TypeOK
    <2>2. up' \in Seq(Reads \cup Writes) /\ down' \in Seq(Answers)
      BY <1>1 DEF Lose
    <2>. QED BY <1>1, <2>1, <2>2 DEF Lose, IInv, TypeOK, CallsSuit, Reading
  <1>2. ASSUME NEW e \in Entity, Change(e) PROVE IInv'
    <2>1. events' \in 0 .. MaxEvents
      BY <1>2, HappensTypes DEF Change, IInv, TypeOK
    <2>2. PICK x \in Elsewhere[e] : state' = [state EXCEPT ![e] = x]
      BY <1>2 DEF Change
    <2>3. x \in Reading(e) \cup {Unavailable} /\ x \in Int
      BY ControlAssumption DEF Reading, Percent, MaxBrightness, Unavailable
    <2>4. state' \in [Entity -> Int] /\ \A d \in Entity : state'[d] \in Reading(d) \cup {Unavailable}
      BY <2>2, <2>3 DEF IInv, TypeOK
    <2>. QED BY <1>2, <2>1, <2>4 DEF Change, IInv, TypeOK, CallsSuit, Reading, wire
  <1>3. ASSUME NEW p \in Page, NEW s \in Offered, NEW written \in BOOLEAN, Save(p, s, written)
        PROVE  IInv'
    <2>1. events' \in 0 .. MaxEvents
      BY <1>3, HappensTypes DEF Save, IInv, TypeOK
    <2>2. component' \in [Page -> Settings] /\ up' \in Seq(Reads \cup Writes) /\ down' \in Seq(Answers)
      BY <1>3, ControlAssumption DEF Save, IInv, TypeOK
    <2>3. linked' \in [Page -> SUBSET Role]
      <3>1. LinksOf(s) \subseteq Role
        BY DEF LinksOf, Role
      <3>. QED BY <1>3, <3>1 DEF Save, IInv, TypeOK
    <2>4. screen' \in [Page -> [Role -> Percent]]
      BY <1>3 DEF Save, IInv, TypeOK, Percent
    <2>. QED BY <1>3, <2>1, <2>2, <2>3, <2>4 DEF Save, IInv, TypeOK, CallsSuit, Reading
  <1>. QED BY <1>1, <1>2, <1>3
-----------------------------------------------------------------------------
\* Every variable keeps its type and every call suits what it is made of.
THEOREM Inductive == Spec => []IInv
  <1>1. ASSUME IInv, [Next]_vars PROVE IInv'
    <2>1. CASE UNCHANGED vars
      BY <1>1, <2>1 DEF vars, wire, IInv, TypeOK, CallsSuit, Reading
    <2>2. CASE Next
      BY <1>1, <2>2, HandleKeeps, ExecuteKeeps, PanelKeeps, OthersKeep DEF Next
    <2>. QED BY <1>1, <2>1, <2>2
  <1>. QED BY Initially, <1>1, PTL DEF Spec

\* A brightness stays within 0 .. 255, a position, a screen and an answer
\* within 0 .. 100, whatever is touched, polled, lost or changed elsewhere.
THEOREM TypeCorrect == Spec => []TypeOK
  <1>1. IInv => TypeOK
    BY DEF IInv
  <1>. QED BY Inductive, <1>1, PTL

\* No cover is ever driven with a light's commands, nor the other way round.
THEOREM CallsSuitTheirTargets == Spec => []CallsSuitTargets
  <1>1. IInv => CallsSuitTargets
    BY DEF IInv, CallsSuit, CallsSuitTargets, Suits, CoverServices
  <1>. QED BY Inductive, <1>1, PTL

\* Every value a light is set to is polled as the percentage that sets it.
THEOREM WhatIsSetIsTold == Spec => []SetIsTold
  <1>1. IInv => SetIsTold
    BY DEF IInv, CallsSuit, SetIsTold, Suits, Entity
  <1>. QED BY Inductive, <1>1, PTL

-----------------------------------------------------------------------------
(* Polling.                                                                *)

\* Of a quotient between 0 and 100, nothing is clamped.
LEMMA ClampIsNear ==
    ASSUME NEW n \in Int, NEW d \in Nat \ {0}, 0 <= n, n <= 100 * d
    PROVE  /\ 2 * (ClampPercent(n, d) * d - n) <= d
           /\ 2 * (n - ClampPercent(n, d) * d) <= d
  <1>. DEFINE k == Round(n, d)
  <1>1. k \in Int /\ 2 * (d * k - n) <= d /\ 2 * (n - d * k) <= d
    BY RoundIsNear
  <1>. HIDE DEF k
  <1>2. k >= 0
    <2>1. SUFFICES ASSUME k <= -1 PROVE FALSE
      BY <1>1
    <2>2. d * k <= d * (-1)
      BY <1>1, <2>1
    <2>. QED BY <1>1, <2>2
  <1>3. k <= 100
    <2>1. SUFFICES ASSUME k >= 101 PROVE FALSE
      BY <1>1
    <2>2. d * k >= d * 101
      BY <1>1, <2>1
    <2>. QED BY <1>1, <2>2
  <1>4. ClampPercent(n, d) = k
    BY <1>1, <1>2, <1>3 DEF ClampPercent, k
  <1>5. k * d = d * k
    BY <1>1
  <1>. QED BY <1>1, <1>4, <1>5

\* What a poll is answered is the percentage nearest to what there is.
LEMMA AnswerTells ==
    ASSUME IInv, NEW r \in Role, NEW e \in Entity,
           (e \in Cover) <=> (r = "level"), state[e] # Unavailable
    PROVE  Tells(CurrentValue(r, e), r, e)
  <1>1. state[e] \in Reading(e)
    BY DEF IInv, TypeOK
  <1>2. CASE r = "level"
    BY <1>2 DEF CurrentValue, Tells
  <1>3. CASE r = "colour_temperature"
    <2>1. CASE e \in Light /\ state[e] > 0
      <3>. DEFINE w == warmth[e] - Low
                  d == High - Low
                  n == (warmth[e] - Low) * 100
      <3>1. w \in Int /\ d \in Nat \ {0} /\ d > 100 /\ 0 <= w /\ w <= d /\ n = w * 100
        BY <2>1, ControlAssumption DEF IInv, TypeOK
      <3>2. CurrentValue(r, e) = ClampPercent(n, d)
        <4>1. CurrentValue(r, e) = KelvinToPercent(warmth[e], Low, High)
          BY <1>3, <2>1 DEF CurrentValue
        <4>2. ~(High <= Low)
          BY ControlAssumption
        <4>. QED BY <4>1, <4>2 DEF KelvinToPercent
      <3>3. Tells(CurrentValue(r, e), r, e) <=> Nearest(CurrentValue(r, e), w, d)
        BY <1>3, <2>1 DEF Tells
      <3>. HIDE DEF w, d, n
      <3>4. n \in Int /\ 0 <= n /\ n <= 100 * d
        BY <3>1
      <3>5. /\ 2 * (ClampPercent(n, d) * d - n) <= d
            /\ 2 * (n - ClampPercent(n, d) * d) <= d
        BY <3>1, <3>4, ClampIsNear
      <3>. QED BY <3>1, <3>2, <3>3, <3>5 DEF Nearest
    <2>2. CASE ~(e \in Light /\ state[e] > 0)
      BY <1>3, <2>2 DEF CurrentValue, Tells
    <2>. QED BY <2>1, <2>2
  <1>4. CASE r = "brightness"
    <2>1. Tells(CurrentValue(r, e), r, e) <=> Nearest(CurrentValue(r, e), state[e], 255)
      BY <1>4 DEF Tells, MaxBrightness
    <2>2. state[e] \in 0 .. 255 /\ (e \in Switch => state[e] \in {0, 255})
      BY <1>1, <1>4, ControlAssumption DEF Reading, MaxBrightness
    <2>3. CASE state[e] = 0
      BY <1>4, <2>1, <2>3 DEF CurrentValue, Nearest
    <2>4. CASE state[e] # 0 /\ e \in Switch
      BY <1>4, <2>1, <2>2, <2>4 DEF CurrentValue, Nearest
    <2>5. CASE state[e] # 0 /\ e \notin Switch
      <3>. DEFINE n == state[e] * 100
      <3>1. n \in Int /\ 0 <= n /\ n <= 100 * 255
        BY <2>2
      <3>2. CurrentValue(r, e) = ClampPercent(n, 255)
        BY <1>4, <2>5 DEF CurrentValue, BrightnessToPercent, MaxBrightness
      <3>3. /\ 2 * (ClampPercent(n, 255) * 255 - n) <= 255
            /\ 2 * (n - ClampPercent(n, 255) * 255) <= 255
        <4>. HIDE DEF n
        <4>. QED BY <3>1, ClampIsNear
      <3>. QED BY <2>1, <3>2, <3>3 DEF Nearest
    <2>. QED BY <2>3, <2>4, <2>5
  <1>. QED BY <1>2, <1>3, <1>4 DEF Role

\* What can happen while things are quiet, and without one of the events.
LEMMA QuietSteps ==
    ASSUME IInv, Next, Quiet, events' = events
    PROVE  /\ (\E p \in Page, r \in Role : Poll(p, r)) \/ Show \/ Handle
           /\ UNCHANGED <<component, state, warmth, calls>>
           /\ Quiet'
  <1>1. ~Happens
    BY ControlAssumption DEF Happens, IInv, TypeOK
  <1>2. \A e \in Entity : ~Execute(e)
    BY DEF Quiet, Execute
  <1>3. (\E p \in Page, r \in Role : Poll(p, r)) \/ Show \/ Handle
    BY <1>1, <1>2 DEF Next, Touch, Lose, Change, Save
  <1>4. up \in Seq(Reads \cup Writes)
    BY DEF IInv, TypeOK
  <1>5. ASSUME NEW p \in Page, NEW r \in Role, Poll(p, r)
        PROVE  UNCHANGED <<component, state, warmth, calls>> /\ Quiet'
    <2>1. up' = Append(up, [page |-> p, role |-> r, ask |-> "get"])
      BY <1>5 DEF Poll
    <2>2. \A i \in DOMAIN up' : up'[i] = [page |-> p, role |-> r, ask |-> "get"] \/ (i \in DOMAIN up /\ up'[i] = up[i])
      BY <1>4, <2>1
    <2>. QED BY <1>5, <2>2 DEF Poll, Quiet
  <1>6. ASSUME Show PROVE UNCHANGED <<component, state, warmth, calls>> /\ Quiet'
    BY <1>6 DEF Show, Quiet
  <1>7. ASSUME Handle PROVE UNCHANGED <<component, state, warmth, calls>> /\ Quiet'
    <2>1. up # <<>> /\ up' = Tail(up)
      BY <1>7 DEF Handle
    <2>2. Head(up) = up[1] /\ 1 \in DOMAIN up
      BY <1>4, <2>1
    <2>3. \A i \in DOMAIN up' : i + 1 \in DOMAIN up /\ up'[i] = up[i + 1]
      BY <1>4, <2>1
    <2>4. UNCHANGED calls
      BY <1>7, <2>2 DEF Handle, Silent, Report, Act, Quiet
    <2>. QED BY <1>7, <2>3, <2>4 DEF Handle, Quiet
  <1>. QED BY <1>3, <1>5, <1>6, <1>7

\* While entities and settings stay, a value tells what it told.
LEMMA SameTells ==
    ASSUME UNCHANGED <<component, state, warmth>>, NEW p, NEW r
    PROVE  /\ Driven(p, r)' <=> Driven(p, r)
           /\ TargetFor(component[p], r)' = TargetFor(component[p], r)
           /\ \A s, e : Tells(s, r, e)' <=> Tells(s, r, e)
  BY DEF Driven, Tells

\* Answers on their way stay true: a new one is.
LEMMA TruthIsTold ==
    ASSUME IInv, Next, Quiet, events' = events, NEW p \in Page, NEW r \in Role, ToldTruly(p, r)
    PROVE  ToldTruly(p, r)'
  <1>. DEFINE e == TargetFor(component[p], r)
              Fits(a) == a.page = p /\ a.role = r => Tells(a.value, r, e)
  <1>1. /\ (\E o \in Page, q \in Role : Poll(o, q)) \/ Show \/ Handle
        /\ UNCHANGED <<component, state, warmth>>
    BY QuietSteps
  <1>. SUFFICES ASSUME Driven(p, r), NEW i \in DOMAIN down' PROVE Fits(down'[i])
    BY <1>1, SameTells DEF ToldTruly
  <1>2. down \in Seq(Answers) /\ \A j \in DOMAIN down : Fits(down[j])
    BY DEF ToldTruly, IInv, TypeOK
  <1>. HIDE DEF Fits
  <1>3. CASE \E o \in Page, q \in Role : Poll(o, q)
    BY <1>2, <1>3 DEF Poll
  <1>4. CASE Show
    <2>1. i + 1 \in DOMAIN down /\ down'[i] = down[i + 1]
      BY <1>2, <1>4 DEF Show
    <2>. QED BY <1>2, <2>1
  <1>5. CASE Handle
    <2>. DEFINE q == Head(up)
                d == TargetFor(component[q.page], q.role)
    <2>1. Silent(q, d) \/ Report(q, d) \/ Act(q, d)
      BY <1>5 DEF Handle
    <2>. HIDE DEF q, d
    <2>2. CASE Silent(q, d) \/ Act(q, d)
      BY <1>2, <2>2 DEF Silent, Act
    <2>3. CASE Report(q, d)
      <3>. DEFINE a == [page |-> q.page, role |-> q.role, value |-> CurrentValue(q.role, d)]
      <3>1. down' = Append(down, a) /\ d # None /\ state[d] # Unavailable
        BY <2>3 DEF Report
      <3>2. Fits(a)
        <4>1. SUFFICES ASSUME q.page = p, q.role = r PROVE Tells(CurrentValue(r, d), r, e)
          BY DEF Fits
        <4>2. d = e
          BY <4>1 DEF d
        <4>3. e \in {None} \cup IF r = "level" THEN Cover ELSE Lamp
          BY TargetSuits DEF IInv, TypeOK
        <4>4. e \in Entity /\ ((e \in Cover) <=> (r = "level"))
          BY <3>1, <4>2, <4>3, ControlAssumption DEF Entity, Lamp
        <4>. QED BY <3>1, <4>2, <4>4, AnswerTells
      <3>. HIDE DEF a
      <3>3. (i \in DOMAIN down /\ down'[i] = down[i]) \/ down'[i] = a
        BY <1>2, <3>1
      <3>. QED BY <1>2, <3>2, <3>3
    <2>. QED BY <2>1, <2>2, <2>3
  <1>. QED BY <1>1, <1>3, <1>4, <1>5

\* A control that shows the truth goes on so, and one that hears it shows it.
LEMMA TruthIsShown ==
    ASSUME IInv, Next, Quiet, events' = events, NEW p \in Page, NEW r \in Role, ToldTruly(p, r),
           Shows(p, r) \/ (Show /\ Head(down).page = p /\ Head(down).role = r)
    PROVE  Shows(p, r)'
  <1>. DEFINE e == TargetFor(component[p], r)
              a == Head(down)
  <1>1. /\ (\E o \in Page, q \in Role : Poll(o, q)) \/ Show \/ Handle
        /\ UNCHANGED <<component, state, warmth>>
    BY QuietSteps
  <1>. SUFFICES ASSUME Driven(p, r) PROVE Tells(screen'[p][r], r, e)
    BY <1>1, SameTells DEF Shows
  <1>2. CASE ~Show
    <2>1. UNCHANGED screen
      BY <1>1, <1>2 DEF Poll, Handle
    <2>. QED BY <1>2, <2>1 DEF Shows
  <1>3. CASE Show
    <2>1. down \in Seq(Answers) /\ down # <<>> /\ screen \in [Page -> [Role -> Percent]]
      BY <1>3 DEF Show, IInv, TypeOK
    <2>2. a \in Answers /\ a = down[1] /\ 1 \in DOMAIN down
      BY <2>1
    <2>3. a.page \in Page /\ a.role \in Role
      BY <2>2 DEF Answers
    <2>4. screen' = [screen EXCEPT ![a.page][a.role] = a.value]
      BY <1>3 DEF Show
    <2>5. a.page = p /\ a.role = r => Tells(a.value, r, e)
      BY <2>2 DEF ToldTruly
    <2>. HIDE DEF a
    <2>6. CASE a.page = p /\ a.role = r
      <3>1. screen'[p][r] = a.value
        BY <2>1, <2>4, <2>6
      <3>. QED BY <2>5, <2>6, <3>1
    <2>7. CASE ~(a.page = p /\ a.role = r)
      <3>1. screen'[p][r] = screen[p][r]
        BY <2>1, <2>3, <2>4, <2>7
      <3>2. Shows(p, r)
        BY <2>7 DEF a
      <3>. QED BY <3>1, <3>2 DEF Shows
    <2>. QED BY <2>6, <2>7
  <1>. QED BY <1>2, <1>3

\* Once things are quiet, polling only ever puts screens right, for any pages,
\* entities and settings: the part of ScreensEndTrue that is not fairness.
THEOREM PollingIsTrue == Spec => PollingSettles
  <1>. DEFINE Settles(p, r) ==
                  ToldTruly(p, r) =>
                     /\ ToldTruly(p, r)'
                     /\ (Shows(p, r) \/ (Show /\ Head(down).page = p /\ Head(down).role = r))
                           => Shows(p, r)'
  <1>1. ASSUME IInv, Next, Quiet, events' = events
        PROVE  Quiet' /\ \A p \in Page, r \in Role : Settles(p, r)
    BY <1>1, QuietSteps, TruthIsTold, TruthIsShown
  <1>2. IInv /\ Next /\ Quiet /\ events' = events
            => Quiet' /\ \A p \in Page, r \in Role : Settles(p, r)
    BY <1>1
  <1>3. IInv /\ [Next]_vars =>
            [ Quiet /\ events' = events => Quiet' /\ \A p \in Page, r \in Role : Settles(p, r) ]_vars
    BY <1>2
  <1>. QED BY Inductive, <1>3, PTL DEF Spec, PollingSettles
=============================================================================
