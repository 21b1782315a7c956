--------------------------- MODULE DemoGuiProofs ---------------------------
(* The PC programs and the demo window, for any number of liveness rounds,  *)
(* programs and troubles.                                                   *)
(*                                                                          *)
(* A program's place is the number of steps it has left: the flows whose    *)
(* outcome means something all begin with the hardware qualification, so    *)
(* their places are counted from its first step.                            *)
EXTENDS DemoGui, SequenceTheorems, TLAPS

RunFields == {"owner", "flow", "rest", "data", "sent", "armed", "seen", "auth", "kats", "spi",
              "skipped", "outcome"}

BoardFields == {"booting", "state", "health", "key", "session", "seq", "last", "txn", "latch",
                "reset"}

(* The flows whose PASS is a judgement, and those that handle keys. *)
Judged == {"demo", "prepare", "secure", "gate"}
Keyed == {"demo", "secure"}

StepNames == ManagedSteps \cup LocalSteps \cup {"retire", "traces", "readBack"}

(* The steps that the argument tells from plain readings. *)
Notable == ManagedSteps \cup {"retire", "activeStatus"}

Steps(flow) ==
  CASE flow = "demo" -> CoreDemo
    [] flow = "prepare" -> HardwareQualification
    [] flow = "secure" -> SecureTelemetry
    [] flow = "gate" -> Sn32Qualify

(* What comes before the qualification, and its length. *)
Lead(flow) == IF flow = "gate" THEN 3 ELSE 0
Q == 9 + 2 * Iterations

(* The place of the next step, 1 being the first one of the qualification. *)
At(r) == Len(Steps(r.flow)) - Len(r.rest) + 1 - Lead(r.flow)

(* What is left is the end of the flow. *)
Remaining(r) ==
  LET w == Steps(r.flow)
  IN /\ r.rest \in Seq(StepNames) /\ r.rest # <<>> /\ Len(r.rest) <= Len(w)
     /\ \A i \in 1..Len(r.rest) : r.rest[i] = w[Len(w) - Len(r.rest) + i]

(* Place of the last zeroize. *)
ZeroizePlace(flow) == IF flow = "demo" THEN Q + 8 ELSE Q + 9

Blank(b) == ~b.key /\ b.session = 0 /\ b.last = None

(* The packets sent before place j. *)
Packets(flow, j) ==
  IF j > Q + 7 THEN (IF flow = "demo" THEN 1 ELSE 2) ELSE IF j > Q + 6 THEN 1 ELSE 0

(* A judged flow on its way. *)
Underway(b, r) ==
  /\ Remaining(r)
  /\ At(r) > 2 => b.txn = None
  /\ At(r) > 7 => "p1Test" \in r.kats
  /\ At(r) > 8 => "p2Test" \in r.kats
  /\ r.flow \in Keyed =>
       /\ Len(r.data) = (IF r.flow = "demo" THEN 1 ELSE 2)
       /\ r.auth = Packets(r.flow, At(r))
       /\ At(r) > ZeroizePlace(r.flow) => Blank(b)
  /\ r.flow = "secure" /\ r.armed => At(r) > Q + 5

(* The programs and the board. *)
FlowInv ==
  /\ DOMAIN run = RunFields /\ DOMAIN board = BoardFields
  /\ run.spi => board.latch /\ ~board.booting
  /\ board.booting => Blank(board) /\ board.txn = None
  /\ run.armed => run.flow \in Keyed
  /\ run.outcome = "running" /\ run.flow \in Judged => Underway(board, run)
  /\ run.outcome = "failing" =>
       run.flow \in Keyed /\ run.rest \in {<<"diagnose", "cleanup">>, <<"cleanup">>}
  /\ PassHonest /\ FailureCleansUp /\ GateHonest

-----------------------------------------------------------------------------
(* The flows as tables.                                                     *)

Loop == [i \in 1..2 * Iterations |-> IF i % 2 = 1 THEN "liveStatus" ELSE "livePing"]

(* The loop of the qualification. *)
LEMMA LoopSteps ==
  /\ Loop \in Seq(StepNames) /\ Len(Loop) = 2 * Iterations /\ 2 * Iterations \in Nat
  /\ \A i \in 1..2 * Iterations : Loop[i] \in {"liveStatus", "livePing"}
  <1> DEFINE n == 2 * Iterations
             V == {"liveStatus", "livePing"}
  <1>1. n \in Nat
    BY FlowAssumption DEF FlowAssumption
  <1>2. Loop = [i \in 1..n |-> Loop[i]]
    BY Zenon DEF Loop
  <1>3. ASSUME NEW i \in 1..n
        PROVE  Loop[i] \in V
    <2>1. CASE i % 2 = 1
      BY <2>1 DEF Loop
    <2>2. CASE i % 2 # 1
      BY <2>2 DEF Loop
    <2> QED BY <2>1, <2>2
  <1>4. V \subseteq StepNames
    BY DEF StepNames, LocalSteps
  <1> HIDE DEF n, V
  <1>5. Loop \in Seq(StepNames) /\ Len(Loop) = n
    BY <1>1, <1>2, <1>3, <1>4
  <1> QED BY <1>1, <1>3, <1>5 DEF n, V

(* The steps before the loop. *)
Opening == <<"identity", "initialStatus", "traces">> \o DualSpiBringup

(* They run both known-answer tests and only read otherwise. *)
LEMMA OpeningSteps ==
  /\ Opening \in Seq(StepNames) /\ Len(Opening) = 9
  /\ Opening[2] = "initialStatus" /\ Opening[7] = "p1Test" /\ Opening[8] = "p2Test"
  /\ \A i \in 1..9 : i \notin {7, 8} => Opening[i] \notin Notable
  <1> DEFINE a == <<"identity", "initialStatus", "traces">>
             b == DualSpiBringup
             o == Opening
  <1>1. a \in Seq(StepNames) /\ Len(a) = 3 /\ b \in Seq(StepNames) /\ Len(b) = 6
    BY DEF DualSpiBringup, StepNames, LocalSteps, ManagedSteps
  <1>2. /\ a[1] = "identity" /\ a[2] = "initialStatus" /\ a[3] = "traces"
        /\ b[1] = "ping" /\ b[2] = "identity" /\ b[3] = "dualStatus" /\ b[4] = "p1Test"
        /\ b[5] = "p2Test" /\ b[6] = "dualAfter"
    BY DEF DualSpiBringup
  <1>3. o = a \o b
    BY DEF Opening
  <1> HIDE DEF a, b, o
  <1>4. /\ o \in Seq(StepNames) /\ Len(o) = 9
        /\ \A i \in 1..3 : o[i] = a[i]
        /\ \A i \in 1..6 : o[3 + i] = b[i]
    <2>1. /\ a \o b \in Seq(StepNames) /\ Len(a \o b) = Len(a) + Len(b)
          /\ \A i \in 1..Len(a) : (a \o b)[i] = a[i]
          /\ \A i \in 1..Len(b) : (a \o b)[Len(a) + i] = b[i]
      <3>1. a \in Seq(StepNames) /\ b \in Seq(StepNames)
        BY <1>1
      <3> QED BY <3>1
    <2> QED BY <1>1, <1>3, <2>1, SMTT(30)
  <1>5. o[1] = a[1] /\ o[2] = a[2] /\ o[3] = a[3]
    BY <1>4
  <1>6. /\ o[3 + 1] = b[1] /\ o[3 + 2] = b[2] /\ o[3 + 3] = b[3]
        /\ o[3 + 4] = b[4] /\ o[3 + 5] = b[5] /\ o[3 + 6] = b[6]
    BY <1>4
  <1>7. \A i \in 1..9 : i \notin {7, 8} => o[i] \notin Notable
    BY <1>2, <1>5, <1>6 DEF ManagedSteps, Notable
  <1> QED BY <1>2, <1>4, <1>5, <1>6, <1>7 DEF o

(* The hardware qualification runs the known-answer tests of both Primers   *)
(* after its look at the initial status, and nothing else that is managed.  *)
LEMMA QualificationSteps ==
  /\ HardwareQualification \in Seq(StepNames) /\ Len(HardwareQualification) = Q
  /\ Q \in Nat /\ Q >= 11
  /\ HardwareQualification[2] = "initialStatus"
  /\ HardwareQualification[7] = "p1Test" /\ HardwareQualification[8] = "p2Test"
  /\ \A i \in 1..Q : i \notin {7, 8} => HardwareQualification[i] \notin Notable
  <1> DEFINE w == HardwareQualification
             o == Opening
  <1>1. /\ Loop \in Seq(StepNames) /\ Len(Loop) = 2 * Iterations /\ 2 * Iterations \in Nat
        /\ \A i \in 1..2 * Iterations : Loop[i] \in {"liveStatus", "livePing"}
    BY LoopSteps
  <1>2. w = o \o Loop
    BY DEF HardwareQualification, Opening, Loop
  <1>3. Iterations \in Nat /\ Iterations >= 1
    BY FlowAssumption DEF FlowAssumption
  <1>4. Q \in Nat /\ Q >= 11 /\ Q = 9 + 2 * Iterations
    BY <1>3 DEF Q
  <1>5. /\ o \in Seq(StepNames) /\ Len(o) = 9
        /\ o[2] = "initialStatus" /\ o[7] = "p1Test" /\ o[8] = "p2Test"
        /\ \A i \in 1..9 : i \notin {7, 8} => o[i] \notin Notable
    BY OpeningSteps
  <1> HIDE DEF w, o
  <1>6. /\ w \in Seq(StepNames) /\ Len(w) = Q
        /\ \A i \in 1..9 : w[i] = o[i]
        /\ \A i \in 1..2 * Iterations : w[9 + i] = Loop[i]
    <2>1. /\ o \o Loop \in Seq(StepNames) /\ Len(o \o Loop) = Len(o) + Len(Loop)
          /\ \A i \in 1..Len(o) : (o \o Loop)[i] = o[i]
          /\ \A i \in 1..Len(Loop) : (o \o Loop)[Len(o) + i] = Loop[i]
      <3>1. o \in Seq(StepNames) /\ Loop \in Seq(StepNames)
        BY <1>1, <1>5
      <3> QED BY <3>1
    <2> QED BY <1>1, <1>2, <1>4, <1>5, <2>1
  <1>7. ASSUME NEW i \in 1..Q, i \notin {7, 8}
        PROVE  w[i] \notin Notable
    <2>1. CASE i <= 9
      BY <1>5, <1>6, <1>7, <2>1
    <2>2. CASE i > 9
      <3>1. i - 9 \in 1..2 * Iterations /\ 9 + (i - 9) = i
        BY <1>3, <1>4, <2>2
      <3>2. w[i] = Loop[i - 9]
        BY <1>6, <3>1
      <3> QED BY <1>1, <3>1, <3>2 DEF ManagedSteps, Notable
    <2> QED BY <2>1, <2>2
  <1>8. w[2] = "initialStatus" /\ w[7] = "p1Test" /\ w[8] = "p2Test"
    BY <1>5, <1>6
  <1> QED BY <1>4, <1>6, <1>7, <1>8 DEF w

(* The step at place j of a judged flow, and what follows the qualification. *)
Step(flow, j) == Steps(flow)[Lead(flow) + j]

Extra(flow) == IF flow \in Keyed THEN 10 ELSE IF flow = "gate" THEN 1 ELSE 0

(* The qualification, followed by w. *)
LEMMA Followed ==
  ASSUME NEW w \in Seq(StepNames), NEW n \in Nat, Len(w) = n
  PROVE  LET f == HardwareQualification \o w
         IN /\ f \in Seq(StepNames) /\ Len(f) = Q + n
            /\ \A i \in 1..Q : f[i] = HardwareQualification[i]
            /\ \A i \in 1..n : f[Q + i] = w[i]
  <1> DEFINE q == HardwareQualification
  <1>1. q \in Seq(StepNames) /\ Len(q) = Q /\ Q \in Nat
    BY QualificationSteps
  <1> HIDE DEF q
  <1>2. /\ q \o w \in Seq(StepNames) /\ Len(q \o w) = Len(q) + Len(w)
        /\ \A i \in 1..Len(q) : (q \o w)[i] = q[i]
        /\ \A i \in 1..Len(w) : (q \o w)[Len(q) + i] = w[i]
    BY <1>1
  <1>3. /\ q \o w \in Seq(StepNames) /\ Len(q \o w) = Q + n
        /\ \A i \in 1..Q : (q \o w)[i] = q[i]
        /\ \A i \in 1..n : (q \o w)[Q + i] = w[i]
    BY <1>1, <1>2
  <1> QED BY <1>3 DEF q

DemoEnd == <<"preflight", "keypair", "keyStatus", "session", "activeClean", "send", "readBack",
             "zeroize", "finalClean", "ping">>

SecureEnd == <<"preflight", "keypair", "keyStatus", "session", "activeStatus", "send", "send",
               "readBack", "zeroize", "finalStatus">>

(* What the two keyed flows do after the qualification. *)
LEMMA Ends ==
  /\ DemoEnd \in Seq(StepNames) /\ Len(DemoEnd) = 10
  /\ SecureEnd \in Seq(StepNames) /\ Len(SecureEnd) = 10
  BY DEF DemoEnd, SecureEnd, StepNames, ManagedSteps, LocalSteps

(* The core demo. *)
LEMMA DemoSteps ==
  /\ Steps("demo") \in Seq(StepNames) /\ Len(Steps("demo")) = Q + 10
  /\ \A i \in 1..Q : Steps("demo")[i] = HardwareQualification[i]
  /\ \A i \in 1..10 : Steps("demo")[Q + i] = DemoEnd[i]
  <1>1. Steps("demo") = HardwareQualification \o DemoEnd
    BY DEF Steps, CoreDemo, DemoEnd
  <1>2. LET f == HardwareQualification \o DemoEnd
        IN /\ f \in Seq(StepNames) /\ Len(f) = Q + 10
           /\ \A i \in 1..Q : f[i] = HardwareQualification[i]
           /\ \A i \in 1..10 : f[Q + i] = DemoEnd[i]
    BY Ends, Followed, ZenonT(60)
  <1> QED BY <1>1, <1>2

(* The secure-telemetry qualification. *)
LEMMA SecureSteps ==
  /\ Steps("secure") \in Seq(StepNames) /\ Len(Steps("secure")) = Q + 10
  /\ \A i \in 1..Q : Steps("secure")[i] = HardwareQualification[i]
  /\ \A i \in 1..10 : Steps("secure")[Q + i] = SecureEnd[i]
  <1>1. Steps("secure") = HardwareQualification \o SecureEnd
    BY DEF Steps, SecureTelemetry, SecureEnd
  <1>2. LET f == HardwareQualification \o SecureEnd
        IN /\ f \in Seq(StepNames) /\ Len(f) = Q + 10
           /\ \A i \in 1..Q : f[i] = HardwareQualification[i]
           /\ \A i \in 1..10 : f[Q + i] = SecureEnd[i]
    BY Ends, Followed, ZenonT(60)
  <1> QED BY <1>1, <1>2

(* The cold-boot gate. *)
LEMMA GateSteps ==
  /\ Steps("gate") \in Seq(StepNames) /\ Len(Steps("gate")) = Q + 4
  /\ \A i \in 1..3 : Steps("gate")[i] \notin Notable
  /\ \A i \in 1..Q : Steps("gate")[3 + i] = HardwareQualification[i]
  /\ Steps("gate")[Q + 4] = "lastFailure"
  <1> DEFINE a == <<"ping", "readyWait", "firstFailure">>
             b == <<"lastFailure">>
             q == HardwareQualification
             w == Steps("gate")
  <1>1. w = (a \o q) \o b
    BY DEF Steps, Sn32Qualify
  <1>2. q \in Seq(StepNames) /\ Len(q) = Q /\ Q \in Nat
    BY QualificationSteps
  <1>3. a \in Seq(StepNames) /\ b \in Seq(StepNames) /\ Len(a) = 3 /\ Len(b) = 1 /\ b[1] = "lastFailure"
    BY DEF StepNames, LocalSteps
  <1>4. \A i \in 1..3 : a[i] \notin Notable
    BY DEF ManagedSteps, Notable
  <1> HIDE DEF a, b, q, w
  <1> DEFINE c == a \o q
  <1>5. /\ c \in Seq(StepNames) /\ Len(c) = Len(a) + Len(q)
        /\ \A i \in 1..Len(a) : c[i] = a[i]
        /\ \A i \in 1..Len(q) : c[Len(a) + i] = q[i]
    <2>1. a \in Seq(StepNames) /\ q \in Seq(StepNames)
      BY <1>2, <1>3
    <2> QED BY <2>1
  <1> HIDE DEF c
  <1>6. /\ c \o b \in Seq(StepNames) /\ Len(c \o b) = Len(c) + Len(b)
        /\ \A i \in 1..Len(c) : (c \o b)[i] = c[i]
        /\ \A i \in 1..Len(b) : (c \o b)[Len(c) + i] = b[i]
    <2>1. c \in Seq(StepNames) /\ b \in Seq(StepNames)
      BY <1>3, <1>5
    <2> QED BY <2>1
  <1>7. w = c \o b
    BY <1>1 DEF c
  <1>8. /\ w \in Seq(StepNames) /\ Len(c) = Q + 3 /\ Len(w) = Q + 4
        /\ \A i \in 1..Q + 3 : w[i] = c[i]
        /\ \A i \in 1..1 : w[Q + 3 + i] = b[i]
    BY <1>2, <1>3, <1>5, <1>6, <1>7
  <1>9. /\ \A i \in 1..3 : c[i] = a[i]
        /\ \A i \in 1..Q : c[3 + i] = q[i]
    BY <1>2, <1>3, <1>5
  <1>10. \A i \in 1..3 : w[i] = a[i]
    BY <1>2, <1>8, <1>9
  <1>11. \A i \in 1..Q : w[3 + i] = q[i]
    BY <1>2, <1>8, <1>9
  <1>12. Q + 3 + 1 = Q + 4 /\ w[Q + 3 + 1] = b[1]
    BY <1>2, <1>8
  <1> QED BY <1>3, <1>4, <1>8, <1>10, <1>11, <1>12 DEF q, w

(* What the judged flows share: both tests, after the look at the initial   *)
(* status; the other steps of the qualification only read.                  *)
LEMMA JudgedSteps ==
  ASSUME NEW flow \in Judged
  PROVE  /\ Steps(flow) \in Seq(StepNames) /\ Lead(flow) \in Nat /\ Q \in Nat /\ Q >= 11
         /\ Extra(flow) \in Nat /\ Len(Steps(flow)) = Lead(flow) + Q + Extra(flow)
         /\ Step(flow, 2) = "initialStatus" /\ Step(flow, 7) = "p1Test" /\ Step(flow, 8) = "p2Test"
         /\ \A i \in 1..Lead(flow) + Q : i - Lead(flow) \notin {7, 8} =>
              Steps(flow)[i] \notin Notable
  <1> DEFINE q == HardwareQualification
  <1>1. /\ q \in Seq(StepNames) /\ Len(q) = Q /\ Q \in Nat /\ Q >= 11
        /\ q[2] = "initialStatus" /\ q[7] = "p1Test" /\ q[8] = "p2Test"
        /\ \A i \in 1..Q : i \notin {7, 8} => q[i] \notin Notable
    BY QualificationSteps
  <1> HIDE DEF q
  <1>2. CASE flow = "prepare"
    <2>1. Steps(flow) = q /\ Lead(flow) = 0 /\ Extra(flow) = 0
      BY <1>2 DEF Steps, Lead, Extra, Keyed, q
    <2> QED BY <1>1, <2>1 DEF Step
  <1>3. CASE flow \in Keyed
    <2>1. /\ Lead(flow) = 0 /\ Extra(flow) = 10
          /\ Steps(flow) \in Seq(StepNames) /\ Len(Steps(flow)) = Q + 10
          /\ \A i \in 1..Q : Steps(flow)[i] = q[i]
      BY <1>3, DemoSteps, SecureSteps DEF Lead, Extra, Keyed, q
    <2> HIDE DEF Steps
    <2> QED BY <1>1, <2>1 DEF Step
  <1>4. CASE flow = "gate"
    <2> DEFINE w == Steps(flow)
    <2>1. /\ Lead(flow) = 3 /\ Extra(flow) = 1
          /\ w \in Seq(StepNames) /\ Len(w) = Q + 4
          /\ \A i \in 1..3 : w[i] \notin Notable
          /\ \A i \in 1..Q : w[3 + i] = q[i]
      BY <1>4, GateSteps DEF Lead, Extra, Keyed, q
    <2> HIDE DEF w
    <2>2. w[3 + 2] = q[2] /\ w[3 + 7] = q[7] /\ w[3 + 8] = q[8]
      BY <1>1, <2>1
    <2>3. ASSUME NEW i \in 1..3 + Q, i - 3 \notin {7, 8}
          PROVE  w[i] \notin Notable
      <3>1. CASE i <= 3
        BY <2>1, <3>1
      <3>2. CASE i > 3
        <4>1. i - 3 \in 1..Q /\ 3 + (i - 3) = i
          BY <1>1, <3>2
        <4>2. w[i] = q[i - 3]
          BY <2>1, <4>1
        <4> QED BY <1>1, <2>3, <4>1, <4>2
      <3> QED BY <3>1, <3>2
    <2> QED BY <1>1, <2>1, <2>2, <2>3 DEF Step, w
  <1> QED BY <1>2, <1>3, <1>4 DEF Judged, Keyed

-----------------------------------------------------------------------------
(* Places and records.                                                      *)

(* The next step is the one at the program's place. *)
LEMMA Place ==
  ASSUME NEW r, r.flow \in Judged, Remaining(r)
  PROVE  /\ At(r) \in Int /\ At(r) <= Q + Extra(r.flow)
         /\ Lead(r.flow) + At(r) \in 1..Len(Steps(r.flow))
         /\ Head(r.rest) = Step(r.flow, At(r))
         /\ Tail(r.rest) = <<>> <=> At(r) = Q + Extra(r.flow)
  <1> DEFINE w == Steps(r.flow)
  <1>1. /\ w \in Seq(StepNames) /\ Lead(r.flow) \in Nat /\ Q \in Nat /\ Extra(r.flow) \in Nat
        /\ Len(w) = Lead(r.flow) + Q + Extra(r.flow)
    BY JudgedSteps
  <1>2. /\ r.rest \in Seq(StepNames) /\ r.rest # <<>> /\ Len(r.rest) <= Len(w)
        /\ \A i \in 1..Len(r.rest) : r.rest[i] = w[Len(w) - Len(r.rest) + i]
    BY DEF Remaining
  <1>3. At(r) = Len(w) - Len(r.rest) + 1 - Lead(r.flow) /\ Step(r.flow, At(r)) = w[Lead(r.flow) + At(r)]
    BY DEF At, Step
  <1> HIDE DEF w
  <1>4. Len(r.rest) \in Nat /\ Len(r.rest) >= 1 /\ Len(w) \in Nat /\ Len(r.rest) <= Len(w)
    BY <1>1, <1>2
  <1>5. /\ At(r) \in Int /\ At(r) <= Q + Extra(r.flow) /\ Lead(r.flow) + At(r) \in 1..Len(w)
        /\ Lead(r.flow) + At(r) = Len(w) - Len(r.rest) + 1
        /\ Len(r.rest) = 1 <=> At(r) = Q + Extra(r.flow)
    <2> DEFINE n == Len(r.rest)
               m == Len(w)
               l == Lead(r.flow)
               e == Extra(r.flow)
    <2>1. /\ n \in Nat /\ n >= 1 /\ m \in Nat /\ n <= m /\ l \in Nat /\ e \in Nat /\ Q \in Nat
          /\ m = l + Q + e /\ At(r) = m - n + 1 - l
      BY <1>1, <1>3, <1>4
    <2> HIDE DEF n, m, l, e
    <2>2. /\ At(r) \in Int /\ At(r) <= Q + e /\ l + At(r) \in 1..m
          /\ l + At(r) = m - n + 1 /\ (n = 1 <=> At(r) = Q + e)
      BY <2>1
    <2> QED BY <2>2 DEF n, m, l, e
  <1>6. Head(r.rest) = r.rest[1] /\ 1 \in 1..Len(r.rest)
    BY <1>2, <1>4
  <1>7. Head(r.rest) = Step(r.flow, At(r))
    BY <1>2, <1>3, <1>5, <1>6
  <1>8. Tail(r.rest) = <<>> <=> Len(r.rest) = 1
    <2> DEFINE t == Tail(r.rest)
    <2>1. t \in Seq(StepNames) /\ Len(t) = Len(r.rest) - 1
      BY <1>2
    <2> HIDE DEF t
    <2>2. t = <<>> <=> Len(t) = 0
      BY <2>1, EmptySeq
    <2> QED BY <1>4, <2>1, <2>2 DEF t
  <1> QED BY <1>5, <1>7, <1>8 DEF w

(* One step further. *)
LEMMA Onward ==
  ASSUME NEW r, r.flow \in Judged, Remaining(r), NEW d, d.flow = r.flow,
         d.rest = Tail(r.rest), Tail(r.rest) # <<>>
  PROVE  Remaining(d) /\ At(d) = At(r) + 1
  <1> DEFINE w == Steps(r.flow)
             q == r.rest
             t == Tail(r.rest)
  <1>1. w \in Seq(StepNames) /\ Lead(r.flow) \in Nat
    BY JudgedSteps
  <1>2. /\ q \in Seq(StepNames) /\ q # <<>> /\ Len(q) <= Len(w)
        /\ \A i \in 1..Len(q) : q[i] = w[Len(w) - Len(q) + i]
    BY DEF Remaining
  <1>3. /\ t \in Seq(StepNames) /\ Len(t) = Len(q) - 1 /\ Len(q) \in Nat /\ Len(w) \in Nat
        /\ \A i \in 1..Len(t) : t[i] = q[i + 1]
    <2> HIDE DEF w
    <2> QED BY <1>1, <1>2
  <1>4. Steps(d.flow) = w /\ d.rest = t /\ Lead(d.flow) = Lead(r.flow)
    OBVIOUS
  <1>5. At(d) = Len(w) - Len(t) + 1 - Lead(r.flow) /\ At(r) = Len(w) - Len(q) + 1 - Lead(r.flow)
    BY <1>4 DEF At
  <1> HIDE DEF w, q, t
  <1>6. At(d) = At(r) + 1
    BY <1>1, <1>3, <1>5
  <1>7. ASSUME NEW i \in 1..Len(t)
        PROVE  t[i] = w[Len(w) - Len(t) + i]
    <2>1. i + 1 \in 1..Len(q) /\ Len(w) - Len(q) + (i + 1) = Len(w) - Len(t) + i
      BY <1>3
    <2> QED BY <1>2, <1>3, <2>1
  <1>8. t # <<>> /\ Len(t) <= Len(w)
    BY <1>2, <1>3 DEF t
  <1> QED BY <1>3, <1>4, <1>6, <1>7, <1>8 DEF Remaining

(* The demo still has its zeroize before it. *)
LEMMA ZeroizeAhead ==
  ASSUME NEW r, r.flow = "demo", Remaining(r), At(r) <= Q + 8
  PROVE  Contains(r.rest, "zeroize")
  <1> DEFINE w == Steps(r.flow)
             n == Len(r.rest)
             m == Len(w)
             i == Q + 8 - At(r) + 1
  <1>1. m = Q + 10 /\ w[Q + 8] = "zeroize" /\ Q \in Nat
    BY DemoSteps, QualificationSteps DEF DemoEnd
  <1>2. At(r) = m - n + 1 - Lead(r.flow) /\ Lead(r.flow) = 0
    BY DEF At, Lead
  <1>3. /\ r.rest \in Seq(StepNames)
        /\ \A k \in 1..n : r.rest[k] = w[m - n + k]
    BY DEF Remaining
  <1>4. n \in Nat
    BY <1>3
  <1> HIDE DEF w, n, m
  <1>5. i \in 1..n /\ m - n + i = Q + 8
    BY <1>1, <1>2, <1>4
  <1>6. r.rest[i] = "zeroize"
    BY <1>1, <1>3, <1>5
  <1> HIDE DEF i
  <1> QED BY <1>5, <1>6 DEF Contains, n

(* A flow that has just been started. *)
LEMMA Begun ==
  ASSUME NEW r, r.flow \in Judged, r.rest = Steps(r.flow)
  PROVE  Remaining(r) /\ At(r) = 1 - Lead(r.flow)
  <1> DEFINE w == Steps(r.flow)
  <1>1. w \in Seq(StepNames) /\ Len(w) \in Nat /\ Len(w) >= 1 /\ Lead(r.flow) \in Nat
    BY JudgedSteps
  <1>2. At(r) = Len(w) - Len(w) + 1 - Lead(r.flow)
    BY DEF At
  <1>3. r.rest = w
    OBVIOUS
  <1> HIDE DEF w
  <1>4. \A i \in 1..Len(w) : w[i] = w[Len(w) - Len(w) + i]
    BY <1>1
  <1>5. w # <<>> /\ At(r) = 1 - Lead(r.flow)
    BY <1>1, <1>2
  <1> QED BY <1>1, <1>3, <1>4, <1>5 DEF Remaining, w

(* What a caller keeps of a step that returned. *)
LEMMA LearnedFields ==
  ASSUME NEW r, DOMAIN r = RunFields, NEW s, NEW e, NEW d, d = Learned(r, s, e)
  PROVE  /\ DOMAIN d = RunFields
         /\ d.owner = r.owner /\ d.flow = r.flow /\ d.rest = r.rest /\ d.data = r.data
         /\ d.spi = r.spi /\ d.outcome = r.outcome
         /\ d.armed = (r.armed \/ <<r.flow, s>> \in {<<"demo", "keypair">>, <<"secure", "activeStatus">>})
         /\ d.auth = r.auth + (IF s = "send" /\ e THEN 1 ELSE 0)
         /\ d.kats = r.kats \cup (IF s \in TestSteps /\ e THEN {s} ELSE {})
         /\ d.skipped = (r.skipped /\ ~Emergency(s))
  BY DEF Learned, RunFields

(* What is kept of a program that has ended. *)
EndsAs(r, o, d) ==
  /\ DOMAIN d = RunFields /\ d.outcome = o /\ d.rest = <<>>
  /\ \/ /\ (o = "PASS" /\ r.flow \in Judged) \/ (o = "FAIL" /\ r.armed)
        /\ d.flow = r.flow /\ d.data = r.data /\ d.armed = r.armed /\ d.auth = r.auth
        /\ d.kats = r.kats /\ d.spi = r.spi /\ d.skipped = r.skipped
     \/ /\ ~(o = "PASS" /\ r.flow \in Judged) /\ ~(o = "FAIL" /\ r.armed)
        /\ d.flow = "none" /\ d.armed = FALSE /\ d.spi = FALSE

(* Ended keeps a judgement, and a failure with a clean-up due. *)
LEMMA EndedFields ==
  ASSUME NEW r, DOMAIN r = RunFields, NEW o
  PROVE  EndsAs(r, o, Ended(r, o))
  BY DEF EndsAs, Ended, NoRun, Started, RunFields, Judged

-----------------------------------------------------------------------------
(* What a step of a program does.                                           *)

(* The tests the judgements rest on. *)
LEMMA AcceptsFacts ==
  ASSUME NEW v
  PROVE  /\ Accepts("initialStatus", v) => v.txn = None
         /\ Accepts("lastFailure", v) => ~v.latch
  BY DEF Accepts, CleanStart

(* A successful command leaves the latch alone; a zeroize erases. *)
LEMMA SucceededFields ==
  ASSUME NEW b, DOMAIN b = BoardFields, NEW s \in ManagedSteps, NEW p, NEW c \in Succeeded(s, b, p)
  PROVE  /\ DOMAIN c = BoardFields /\ c.booting = b.booting /\ c.latch = b.latch
         /\ Emergency(s) => Blank(c)
  <1>1. CASE Emergency(s)
    <2>1. PICK st \in {"READY", "SELF_TEST"} :
            c = [NoSession(b) EXCEPT !.key = FALSE, !.state = st, !.health = "clean"]
      BY <1>1 DEF Succeeded, Emergency, TestSteps
    <2> QED BY <2>1 DEF NoSession, BoardFields, Blank
  <1>2. CASE ~Emergency(s)
    BY <1>2 DEF Succeeded, Emergency, TestSteps, ManagedSteps, NoSession, BoardFields
  <1> QED BY <1>1, <1>2

(* A failed command may set the latch; a zeroize erases even so. *)
LEMMA FailedFields ==
  ASSUME NEW b, DOMAIN b = BoardFields, NEW s \in ManagedSteps, NEW c \in Failed(s, b)
  PROVE  /\ DOMAIN c = BoardFields /\ c.booting = b.booting /\ (b.latch => c.latch)
         /\ Emergency(s) => ~c.key /\ c.session = 0
  <1> DEFINE base == Residue(s, b)
  <1>1. /\ DOMAIN base = BoardFields /\ base.booting = b.booting /\ base.latch = b.latch
        /\ Emergency(s) => base.key = FALSE /\ base.session = 0
    BY DEF Residue, NoSession, BoardFields
  <1>2. c = base \/ \E d \in Damages(s, b) :
                      c = [base EXCEPT !.state = d.state, !.health = d.health, !.latch = d.latch,
                                       !.key = d.key]
    BY DEF Failed
  <1>3. \A d \in Damages(s, b) : /\ d.latch \in {b.latch, TRUE}
                                 /\ s # "keypair" => d.key = base.key
    BY DEF Damages
  <1>4. Emergency(s) => s # "keypair"
    BY DEF Emergency
  <1> HIDE DEF base
  <1>5. CASE c = base
    BY <1>1, <1>5
  <1>6. CASE c # base
    <2>1. PICK d \in Damages(s, b) :
            c = [base EXCEPT !.state = d.state, !.health = d.health, !.latch = d.latch, !.key = d.key]
      BY <1>2, <1>6
    <2>2. /\ DOMAIN c = BoardFields /\ c.booting = base.booting /\ c.latch = d.latch
          /\ c.key = d.key /\ c.session = base.session
      BY <1>1, <2>1 DEF BoardFields
    <2>3. Emergency(s) => ~c.key /\ c.session = 0
      BY <1>1, <1>3, <1>4, <2>2
    <2> QED BY <1>1, <1>3, <2>2, <2>3
  <1> QED BY <1>5, <1>6

Kept(r, d) ==
  /\ DOMAIN d = RunFields /\ d.owner = r.owner /\ d.flow = r.flow /\ d.rest = r.rest
  /\ d.data = r.data /\ d.outcome = r.outcome

BoardKept ==
  /\ DOMAIN board' = BoardFields /\ board'.booting = board.booting
  /\ board.latch => board'.latch
  /\ board.booting => Blank(board') /\ board'.txn = None

SameMaterial == board'.key = board.key /\ board'.session = board.session /\ board'.last = board.last

(* The program after step s, unless the answer was another call's. *)
Learns(s, r) ==
  /\ Kept(run, r) /\ r.spi = run.spi /\ run.kats \subseteq r.kats
  /\ r.armed => run.armed \/ <<run.flow, s>> \in {<<"demo", "keypair">>, <<"secure", "activeStatus">>}
  /\ s \notin {"send", "retire"} => r.auth = run.auth + 0
  /\ s = "send" /\ board.txn = None => r.auth = run.auth + 1
  /\ s \in TestSteps /\ board.txn = None => s \in r.kats

(* The call returned. *)
StepReturns(s) ==
  \E r :
    /\ Learns(s, r) /\ run' = Returned(r) /\ BoardKept
    /\ s \notin ManagedSteps \cup {"retire"} =>
         Accepts(s, board) /\ board'.txn = board.txn /\ SameMaterial
    /\ s \in ManagedSteps \ {"p1Start"} => board'.txn = None
    /\ Emergency(s) => Blank(board')

(* The call raised. *)
StepRaises(s) ==
  \E r :
    /\ Kept(run, r) /\ run' = Raised(r) /\ BoardKept /\ r.armed = run.armed
    /\ r.spi => board'.latch /\ ~board'.booting
    /\ s \notin ManagedSteps => SameMaterial
    /\ Emergency(s) /\ ~r.skipped => ~board'.key /\ board'.session = 0

StepKnown(s) == StepReturns(s) \/ StepRaises(s)

(* What FlowInv says of board and run whatever the program. *)
Plain ==
  /\ DOMAIN run = RunFields /\ DOMAIN board = BoardFields
  /\ run.spi => board.latch /\ ~board.booting
  /\ board.booting => Blank(board) /\ board.txn = None

(* How the kinds of steps relate. *)
LEMMA StepNameFacts ==
  /\ TestSteps \subseteq ManagedSteps /\ "send" \in ManagedSteps /\ "retire" \notin ManagedSteps
  /\ ManagedSteps \cap LocalSteps = {} /\ "p1Start" \in ManagedSteps
  /\ \A s : Emergency(s) => s \in ManagedSteps /\ s \notin TestSteps \cup {"send", "p1Start"}
  BY DEF TestSteps, ManagedSteps, LocalSteps, Emergency

(* What is learned, when the call was executed or a record was retained. *)
LEMMA LearnedKept ==
  ASSUME DOMAIN run = RunFields, NEW s, NEW e, e \/ board.txn # None
  PROVE  Learns(s, Learned(run, s, e))
  <1> DEFINE d == Learned(run, s, e)
  <1>1. /\ DOMAIN d = RunFields
        /\ d.owner = run.owner /\ d.flow = run.flow /\ d.rest = run.rest /\ d.data = run.data
        /\ d.spi = run.spi /\ d.outcome = run.outcome
        /\ d.armed = (run.armed \/ <<run.flow, s>> \in {<<"demo", "keypair">>, <<"secure", "activeStatus">>})
        /\ d.auth = run.auth + (IF s = "send" /\ e THEN 1 ELSE 0)
        /\ d.kats = run.kats \cup (IF s \in TestSteps /\ e THEN {s} ELSE {})
    BY LearnedFields
  <1> HIDE DEF d
  <1>2. ASSUME e PROVE Learns(s, d)
    BY <1>1, <1>2 DEF Learns, Kept
  <1>3. ASSUME ~e PROVE Learns(s, d)
    BY <1>1, <1>3, StepNameFacts DEF Learns, Kept
  <1> QED BY <1>2, <1>3 DEF d

(* A reading step. *)
LEMMA ReadKnown ==
  ASSUME Plain, NEW s, ReadStep(s)
  PROVE  StepKnown(s)
  <1>1. s \notin ManagedSteps \cup {"retire"} /\ ~Emergency(s) /\ s # "send" /\ s \notin TestSteps
    BY StepNameFacts DEF ReadStep
  <1>2. CASE /\ Accepts(s, board)
             /\ board' = [board EXCEPT !.reset = @ /\ s \notin {"ping", "livePing"}]
             /\ run' = Returned(Learned(run, s, TRUE))
    <2> DEFINE r == Learned(run, s, TRUE)
    <2>1. Learns(s, r)
      <3>1. DOMAIN run = RunFields
        BY DEF Plain
      <3> QED BY <3>1, LearnedKept, Zenon
    <2>2. BoardKept /\ board'.txn = board.txn /\ SameMaterial
      BY <1>2 DEF Plain, BoardKept, BoardFields, SameMaterial, Blank
    <2> HIDE DEF r
    <2>3. run' = Returned(r)
      BY <1>2 DEF r
    <2> QED BY <1>1, <1>2, <2>1, <2>2, <2>3 DEF StepKnown, StepReturns
  <1>3. CASE run' = Raised(run) /\ UNCHANGED board
    BY <1>1, <1>3 DEF StepKnown, StepRaises, Plain, Kept, BoardKept, SameMaterial
  <1> QED BY <1>2, <1>3 DEF ReadStep

(* A step that leaves the program alone and raises. *)
LEMMA RaisesKnown ==
  ASSUME Plain, NEW s, run' = Raised(run), BoardKept, s \notin ManagedSteps => SameMaterial,
         Emergency(s) => ~board'.key /\ board'.session = 0
  PROVE  StepKnown(s)
  <1>1. Kept(run, run) /\ (run.spi => board'.latch /\ ~board'.booting)
    BY DEF Plain, Kept, BoardKept
  <1> QED BY <1>1 DEF StepKnown, StepRaises

(* txn-retire. *)
LEMMA RetireKnown ==
  ASSUME Plain, NEW s, RetireStep(s)
  PROVE  StepKnown(s)
  <1>1. s = "retire" /\ s \notin ManagedSteps /\ ~Emergency(s) /\ s \notin TestSteps /\ s # "send"
    BY StepNameFacts DEF RetireStep
  <1>2. CASE Busy(s)
    <2>1. run' = Raised(run) /\ board' = board
      BY <1>2 DEF RetireStep
    <2> QED BY <1>1, <2>1, RaisesKnown DEF Plain, BoardKept, SameMaterial
  <1>3. CASE ~Busy(s)
    <2>1. run' = Returned(run)
      BY <1>3 DEF RetireStep
    <2>2. PICK t \in {board.txn, None} : board' = [board EXCEPT !.txn = t]
      BY <1>3 DEF RetireStep
    <2>3. BoardKept
      BY <2>2 DEF Plain, BoardKept, BoardFields, Blank
    <2>4. Learns(s, run)
      BY <1>1 DEF Plain, Learns, Kept
    <2> QED BY <1>1, <2>1, <2>3, <2>4 DEF StepKnown, StepReturns
  <1> QED BY <1>2, <1>3

(* A command that is refused, or answered from the retained record. *)
LEMMA RefusedKnown ==
  ASSUME Plain, NEW s, RefusedStep(s)
  PROVE  StepKnown(s)
  <1>1. s \in ManagedSteps
    BY DEF RefusedStep
  <1>2. CASE /\ Busy(s) \/ ~Admitted(s, board) \/ Blocked(s)
             /\ board' = AfterError(s, board)
             /\ run' = Raised(run)
    <2>1. BoardKept /\ SameMaterial
      BY <1>2 DEF AfterError, Plain, BoardKept, BoardFields, Blank, SameMaterial
    <2>2. ASSUME Emergency(s) PROVE ~board'.key /\ board'.session = 0
      <3>1. Admitted(s, board) /\ ~Blocked(s)
        BY <2>2 DEF Admitted, Blocked, Emergency
      <3>2. board.booting
        BY <1>2, <3>1 DEF Busy
      <3> QED BY <2>1, <3>2 DEF Plain, SameMaterial, Blank
    <2> QED BY <1>1, <1>2, <2>1, <2>2, RaisesKnown
  <1>3. CASE /\ ~Busy(s) /\ Admitted(s, board) /\ Blocked(s)
             /\ board' = IF s = "p1Start" THEN board ELSE [board EXCEPT !.txn = None]
             /\ run' = Returned(Learned(run, s, FALSE))
    <2>1. BoardKept /\ (s # "p1Start" => board'.txn = None)
      BY <1>3 DEF Plain, BoardKept, BoardFields, Blank
    <2>2. board.txn # None /\ ~Emergency(s)
      BY <1>3 DEF Blocked
    <2>3. Learns(s, Learned(run, s, FALSE))
      <3>1. DOMAIN run = RunFields
        BY DEF Plain
      <3> QED BY <2>2, <3>1, LearnedKept, Zenon
    <2> DEFINE r == Learned(run, s, FALSE)
    <2>4. Learns(s, r) /\ run' = Returned(r)
      BY <1>3, <2>3
    <2> HIDE DEF r
    <2> QED BY <1>1, <2>1, <2>2, <2>4 DEF StepKnown, StepReturns
  <1> QED BY <1>2, <1>3 DEF RefusedStep

(* A command that runs finds the start-up probe finished. *)
LEMMA ExecutesFacts ==
  ASSUME NEW s, Executes(s)
  PROVE  s \in ManagedSteps /\ ~board.booting
  BY StepNameFacts DEF Executes, Busy

(* A command that succeeds and is heard of. *)
LEMMA SucceedKnown ==
  ASSUME Plain, NEW s, SucceedStep(s)
  PROVE  StepKnown(s)
  <1>1. s \in ManagedSteps /\ ~board.booting /\ s # "retire"
    BY ExecutesFacts, StepNameFacts DEF SucceedStep
  <1>2. PICK b \in Succeeded(s, board, Argument(s)) :
          board' = [b EXCEPT !.txn = IF s = "p1Start" THEN Result(s, TRUE) ELSE None]
    BY DEF SucceedStep
  <1>3. /\ DOMAIN b = BoardFields /\ b.booting = board.booting /\ b.latch = board.latch
        /\ Emergency(s) => Blank(b)
    BY <1>1, SucceededFields DEF Plain
  <1>4. /\ BoardKept /\ (s # "p1Start" => board'.txn = None)
        /\ Emergency(s) => Blank(board')
    BY <1>1, <1>2, <1>3 DEF BoardKept, BoardFields, Blank
  <1> DEFINE r == Learned(run, s, TRUE)
  <1>5. Learns(s, r)
    <2>1. DOMAIN run = RunFields
      BY DEF Plain
    <2> QED BY <2>1, LearnedKept, Zenon
  <1>6. run' = Returned(r)
    BY DEF SucceedStep
  <1> HIDE DEF r
  <1> QED BY <1>1, <1>4, <1>5, <1>6 DEF StepKnown, StepReturns

(* A command that fails. *)
LEMMA FailKnown ==
  ASSUME Plain, NEW s, FailStep(s)
  PROVE  StepKnown(s)
  <1>1. s \in ManagedSteps /\ ~board.booting
    BY ExecutesFacts DEF FailStep
  <1>2. PICK b \in Failed(s, board) :
          /\ board' = AfterError(s, [b EXCEPT !.txn = Result(s, FALSE)])
          /\ run' = Raised([run EXCEPT !.spi = @ \/ (b.latch /\ ~board.latch),
                                       !.skipped = @ /\ ~Emergency(s)])
    BY DEF FailStep
  <1>3. /\ DOMAIN b = BoardFields /\ b.booting = board.booting /\ (board.latch => b.latch)
        /\ Emergency(s) => ~b.key /\ b.session = 0
    BY <1>1, FailedFields DEF Plain
  <1>4. /\ DOMAIN board' = BoardFields /\ board'.booting = b.booting /\ board'.latch = b.latch
        /\ board'.key = b.key /\ board'.session = b.session
    BY <1>2, <1>3 DEF AfterError, BoardFields
  <1> DEFINE r == [run EXCEPT !.spi = @ \/ (b.latch /\ ~board.latch), !.skipped = @ /\ ~Emergency(s)]
  <1>5. Kept(run, r) /\ r.armed = run.armed /\ (r.spi => run.spi \/ b.latch)
    BY DEF Plain, Kept, RunFields
  <1>6. run' = Raised(r)
    BY <1>2
  <1> HIDE DEF r
  <1>7. r.spi => board'.latch /\ ~board'.booting
    BY <1>1, <1>3, <1>4, <1>5 DEF Plain
  <1>8. BoardKept
    BY <1>1, <1>3, <1>4 DEF BoardKept
  <1> QED BY <1>1, <1>3, <1>4, <1>5, <1>6, <1>7, <1>8 DEF StepKnown, StepRaises

(* A request or its answer is lost. *)
LEMMA LoseKnown ==
  ASSUME Plain, NEW s, LoseStep(s)
  PROVE  StepKnown(s)
  <1>1. CASE board' = board /\ run' = Raised([run EXCEPT !.skipped = @ \/ Emergency(s)])
    <2> DEFINE r == [run EXCEPT !.skipped = @ \/ Emergency(s)]
    <2>1. /\ Kept(run, r) /\ r.armed = run.armed /\ r.spi = run.spi
          /\ Emergency(s) => r.skipped
      BY DEF Plain, Kept, RunFields
    <2>2. run' = Raised(r)
      BY <1>1
    <2> HIDE DEF r
    <2>3. BoardKept /\ SameMaterial
      BY <1>1 DEF Plain, BoardKept, SameMaterial
    <2>4. r.spi => board'.latch /\ ~board'.booting
      BY <1>1, <2>1 DEF Plain
    <2> QED BY <2>1, <2>2, <2>3, <2>4 DEF StepKnown, StepRaises
  <1>2. CASE /\ Executes(s) /\ CanSucceed(s, board)
             /\ \E b \in Succeeded(s, board, Argument(s)), t \in {None, Result(s, TRUE)} :
                  board' = [b EXCEPT !.txn = t]
             /\ run' = Raised([run EXCEPT !.skipped = @ /\ ~Emergency(s)])
    <2>1. s \in ManagedSteps /\ ~board.booting
      BY <1>2, ExecutesFacts
    <2>2. PICK b \in Succeeded(s, board, Argument(s)), t \in {None, Result(s, TRUE)} :
            board' = [b EXCEPT !.txn = t]
      BY <1>2
    <2>3. /\ DOMAIN b = BoardFields /\ b.booting = board.booting /\ b.latch = board.latch
          /\ Emergency(s) => Blank(b)
      BY <2>1, SucceededFields DEF Plain
    <2>4. BoardKept /\ board'.latch = board.latch /\ (Emergency(s) => ~board'.key /\ board'.session = 0)
      BY <2>1, <2>2, <2>3 DEF BoardKept, BoardFields, Blank
    <2> DEFINE r == [run EXCEPT !.skipped = @ /\ ~Emergency(s)]
    <2>5. Kept(run, r) /\ r.armed = run.armed /\ r.spi = run.spi
      BY DEF Plain, Kept, RunFields
    <2>6. run' = Raised(r)
      BY <1>2
    <2> HIDE DEF r
    <2>7. r.spi => board'.latch /\ ~board'.booting
      BY <2>4, <2>5 DEF Plain, BoardKept
    <2> QED BY <2>1, <2>4, <2>5, <2>6, <2>7 DEF StepKnown, StepRaises
  <1> QED BY <1>1, <1>2 DEF LoseStep

(* Every step returns or raises. *)
LEMMA RunStepKnown ==
  ASSUME Plain, RunStep
  PROVE  StepKnown(Head(run.rest))
  <1> DEFINE s == Head(run.rest)
  <1>1. \/ ReadStep(s) \/ RetireStep(s) \/ RefusedStep(s) \/ SucceedStep(s) \/ FailStep(s)
        \/ LoseStep(s)
    BY DEF RunStep
  <1> HIDE DEF s
  <1>2. StepKnown(s)
    BY <1>1, ReadKnown, RetireKnown, RefusedKnown, SucceedKnown, FailKnown, LoseKnown
  <1> QED BY <1>2 DEF s

-----------------------------------------------------------------------------
(* The judged flows, step by step.                                          *)

(* What the steps at the places that matter are. *)
StepFacts(flow, j, s) ==
  /\ s \notin {"retire", "p1Start"}
  /\ j = 2 => s = "initialStatus"
  /\ j = 7 => s = "p1Test"
  /\ j = 8 => s = "p2Test"
  /\ j <= 2 => s \notin ManagedSteps
  /\ flow \in Keyed =>
       /\ s = "send" <=> j = Q + 6 \/ (flow = "secure" /\ j = Q + 7)
       /\ j = ZeroizePlace(flow) => Emergency(s)
       /\ j > ZeroizePlace(flow) => s \notin ManagedSteps
  /\ flow = "secure" =>
       /\ s = "activeStatus" => j = Q + 5
       /\ j \in Q + 6 .. Q + 8 => s \in {"send", "readBack"}
  /\ flow = "gate" /\ j = Q + 1 => s = "lastFailure"

(* The step at place j of a judged flow. *)
LEMMA StepAtPlace ==
  ASSUME NEW flow \in Judged, NEW j \in Int, Lead(flow) + j \in 1..Len(Steps(flow))
  PROVE  StepFacts(flow, j, Step(flow, j))
  <1> DEFINE s == Step(flow, j)
  <1>1. /\ Lead(flow) \in Nat /\ Q \in Nat /\ Q >= 11
        /\ Extra(flow) \in Nat /\ Len(Steps(flow)) = Lead(flow) + Q + Extra(flow)
        /\ Step(flow, 2) = "initialStatus" /\ Step(flow, 7) = "p1Test" /\ Step(flow, 8) = "p2Test"
        /\ \A i \in 1..Lead(flow) + Q : i - Lead(flow) \notin {7, 8} =>
             Steps(flow)[i] \notin Notable
    BY JudgedSteps
  <1>2. s = Steps(flow)[Lead(flow) + j]
    BY DEF Step
  <1>3. "p1Test" \in ManagedSteps /\ "p2Test" \in ManagedSteps
    BY DEF ManagedSteps
  <1>4. CASE j <= Q
    <2>1. Lead(flow) + j \in 1..Lead(flow) + Q /\ (Lead(flow) + j) - Lead(flow) = j
      BY <1>1, <1>4
    <2>2. j \notin {7, 8} => s \notin Notable
      BY <1>1, <1>2, <2>1
    <2>3. j = 2 => s = "initialStatus"
      BY <1>1
    <2>4. j \in {7, 8} => s \in {"p1Test", "p2Test"} /\ (j = 7 => s = "p1Test") /\ (j = 8 => s = "p2Test")
      BY <1>1
    <2>5. s \notin {"retire", "p1Start", "send", "activeStatus"} /\ (j <= 2 => s \notin ManagedSteps)
      BY <2>2, <2>4 DEF Notable, ManagedSteps
    <2>6. j # Q + 6 /\ j # Q + 7 /\ j # Q + 8 /\ j # Q + 9 /\ j # Q + 1 /\ ~(j > Q + 8) /\ ~(j > Q + 9)
          /\ j \notin Q + 6 .. Q + 8
      BY <1>1, <1>4
    <2> HIDE DEF s
    <2>7. StepFacts(flow, j, s)
      BY <2>3, <2>4, <2>5, <2>6 DEF StepFacts, ZeroizePlace
    <2> QED BY <2>7 DEF s
  <1>5. CASE j > Q
    <2>1. j \notin {2, 7, 8} /\ ~(j <= 2)
      BY <1>1, <1>5
    <2>2. CASE flow = "demo"
      <3>1. /\ Lead(flow) = 0 /\ Extra(flow) = 10
            /\ \A i \in 1..10 : Steps(flow)[Q + i] = DemoEnd[i]
        BY <2>2, DemoSteps DEF Lead, Extra, Keyed
      <3> DEFINE i == j - Q
      <3>2. i \in 1..10 /\ j = Q + i
        BY <1>1, <1>5, <3>1
      <3> HIDE DEF i
      <3>3. Lead(flow) + j = Q + i
        BY <1>1, <3>1, <3>2
      <3>4. s = DemoEnd[i]
        BY <1>2, <3>1, <3>2, <3>3
      <3>5. /\ s \notin {"retire", "p1Start"} /\ (s = "send" <=> i = 6)
            /\ i = 8 => Emergency(s)
            /\ i > 8 => s \notin ManagedSteps
        BY <3>2, <3>4 DEF DemoEnd, Emergency, ManagedSteps
      <3>6. /\ i = 6 <=> j = Q + 6
            /\ j = Q + 8 => i = 8
            /\ j > Q + 8 => i > 8
        BY <1>1, <3>2
      <3> HIDE DEF s
      <3>7. StepFacts(flow, j, s)
        BY <2>1, <2>2, <3>5, <3>6 DEF StepFacts, ZeroizePlace
      <3> QED BY <3>7 DEF s
    <2>3. CASE flow = "secure"
      <3>1. /\ Lead(flow) = 0 /\ Extra(flow) = 10
            /\ \A i \in 1..10 : Steps(flow)[Q + i] = SecureEnd[i]
        BY <2>3, SecureSteps DEF Lead, Extra, Keyed
      <3> DEFINE i == j - Q
      <3>2. i \in 1..10 /\ j = Q + i
        BY <1>1, <1>5, <3>1
      <3> HIDE DEF i
      <3>3. Lead(flow) + j = Q + i
        BY <1>1, <3>1, <3>2
      <3>4. s = SecureEnd[i]
        BY <1>2, <3>1, <3>2, <3>3
      <3>5. /\ s \notin {"retire", "p1Start"} /\ (s = "send" <=> i \in {6, 7})
            /\ i = 9 => Emergency(s)
            /\ i > 9 => s \notin ManagedSteps
            /\ s = "activeStatus" => i = 5
            /\ i \in 6..8 => s \in {"send", "readBack"}
        BY <3>2, <3>4 DEF SecureEnd, Emergency, ManagedSteps
      <3>6. /\ i \in {6, 7} <=> j = Q + 6 \/ j = Q + 7
            /\ j = Q + 9 => i = 9
            /\ j > Q + 9 => i > 9
            /\ i = 5 => j = Q + 5
            /\ j \in Q + 6 .. Q + 8 => i \in 6..8
        BY <1>1, <3>2
      <3> HIDE DEF s
      <3>7. StepFacts(flow, j, s)
        BY <2>1, <2>3, <3>5, <3>6 DEF StepFacts, ZeroizePlace
      <3> QED BY <3>7 DEF s
    <2>4. CASE flow = "gate"
      <3>1. Lead(flow) = 3 /\ Extra(flow) = 1 /\ Steps(flow)[Q + 4] = "lastFailure"
        BY <2>4, GateSteps DEF Lead, Extra, Keyed
      <3>2. j = Q + 1 /\ Lead(flow) + j = Q + 4
        BY <1>1, <1>5, <3>1
      <3>3. s = "lastFailure"
        BY <1>2, <3>1, <3>2
      <3> HIDE DEF s
      <3>4. StepFacts(flow, j, s)
        BY <2>1, <2>4, <3>3 DEF StepFacts, Keyed
      <3> QED BY <3>4 DEF s
    <2>5. CASE flow = "prepare"
      BY <1>1, <1>5, <2>5 DEF Extra, Keyed
    <2> QED BY <2>2, <2>3, <2>4, <2>5 DEF Judged
  <1> QED BY <1>1, <1>4, <1>5

(* A call that returned: the next step, or the end. *)
Continues(r, d) ==
  /\ DOMAIN d = RunFields /\ d.owner = r.owner /\ d.flow = r.flow /\ d.data = r.data
  /\ d.armed = r.armed /\ d.auth = r.auth /\ d.kats = r.kats /\ d.spi = r.spi
  /\ d.skipped = r.skipped

(* Returned takes the next step or ends the program. *)
LEMMA ReturnedFields ==
  ASSUME NEW r, DOMAIN r = RunFields
  PROVE  /\ Tail(r.rest) # <<>> =>
              /\ Continues(r, Returned(r))
              /\ Returned(r).rest = Tail(r.rest) /\ Returned(r).outcome = r.outcome
         /\ Tail(r.rest) = <<>> /\ r.outcome = "failing" => Returned(r) = Ended(r, "FAIL")
         /\ Tail(r.rest) = <<>> /\ r.outcome # "failing" => Returned(r) = Ended(r, "PASS")
  BY DEF Returned, Continues, RunFields

(* A call that raised for the first time: the clean-up, or the end. *)
LEMMA RaisedFields ==
  ASSUME NEW r, DOMAIN r = RunFields, r.outcome = "running"
  PROVE  \/ /\ Raised(r) = Ended(r, "FAIL")
            /\ ~(r.flow = "demo" /\ r.armed /\ Contains(r.rest, "zeroize"))
            /\ ~(r.flow = "secure" /\ Head(r.rest) \in {"send", "readBack"})
         \/ /\ r.flow \in Keyed /\ Continues(r, Raised(r)) /\ Raised(r).outcome = "failing"
            /\ Raised(r).rest \in {<<"diagnose", "cleanup">>, <<"cleanup">>}
  <1>1. CASE r.flow = "demo" /\ r.armed /\ Contains(r.rest, "zeroize")
    <2>1. Raised(r) = [r EXCEPT !.rest = <<"diagnose", "cleanup">>, !.outcome = "failing"]
      BY <1>1 DEF Raised, DemoRaised
    <2> QED BY <1>1, <2>1 DEF Keyed, Continues, RunFields
  <1>2. CASE r.flow = "secure" /\ Head(r.rest) \in {"send", "readBack"}
    <2>1. Raised(r) = [r EXCEPT !.rest = <<"cleanup">>, !.outcome = "failing"]
      BY <1>2 DEF Raised, SecureRaised
    <2> QED BY <1>2, <2>1 DEF Keyed, Continues, RunFields
  <1>3. CASE /\ ~(r.flow = "demo" /\ r.armed /\ Contains(r.rest, "zeroize"))
             /\ ~(r.flow = "secure" /\ Head(r.rest) \in {"send", "readBack"})
    BY <1>3 DEF Raised, DemoRaised, SecureRaised
  <1> QED BY <1>1, <1>2, <1>3

(* The clean-up after a failure. *)
LEMMA FailingStep ==
  ASSUME FlowInv, run.outcome = "failing", RunStep
  PROVE  FlowInv'
  <1> DEFINE s == Head(run.rest)
  <1>1. Plain
    BY DEF FlowInv, Plain
  <1>2. StepKnown(s)
    BY <1>1, RunStepKnown
  <1>3. run.flow \in Keyed /\ run.rest \in {<<"diagnose", "cleanup">>, <<"cleanup">>}
    BY DEF FlowInv
  <1>4. \/ s = "diagnose" /\ Tail(run.rest) = <<"cleanup">>
        \/ s = "cleanup" /\ Tail(run.rest) = <<>>
    <2>1. /\ Head(<<"diagnose", "cleanup">>) = "diagnose" /\ Tail(<<"diagnose", "cleanup">>) = <<"cleanup">>
          /\ Head(<<"cleanup">>) = "cleanup" /\ Tail(<<"cleanup">>) = <<>>
      OBVIOUS
    <2> QED BY <1>3, <2>1, Zenon
  <1> HIDE DEF s
  <1>5. PICK r :
          /\ Kept(run, r) /\ run' = Returned(r) /\ BoardKept
          /\ r.spi => board'.latch /\ ~board'.booting
          /\ s = "cleanup" /\ ~r.skipped => ~board'.key /\ board'.session = 0
    <2>1. CASE StepReturns(s)
      <3>1. PICK r : Learns(s, r) /\ run' = Returned(r) /\ BoardKept /\ (Emergency(s) => Blank(board'))
        BY <2>1 DEF StepReturns
      <3>2. Kept(run, r) /\ (r.spi => board'.latch /\ ~board'.booting)
        BY <1>1, <3>1 DEF Learns, Plain, BoardKept
      <3> QED BY <3>1, <3>2 DEF Emergency, Blank
    <2>2. CASE StepRaises(s)
      <3>1. PICK r : /\ Kept(run, r) /\ run' = Raised(r) /\ BoardKept
                     /\ r.spi => board'.latch /\ ~board'.booting
                     /\ Emergency(s) /\ ~r.skipped => ~board'.key /\ board'.session = 0
        BY <2>2 DEF StepRaises
      <3>2. Raised(r) = Returned(r)
        BY <3>1 DEF Raised, Kept
      <3> QED BY <3>1, <3>2 DEF Emergency
    <2> QED BY <1>2, <2>1, <2>2 DEF StepKnown
  <1>6. DOMAIN r = RunFields /\ r.rest = run.rest /\ r.flow = run.flow /\ r.outcome = "failing"
    BY <1>5 DEF Kept
  <1>7. DOMAIN board' = BoardFields /\ (board'.booting => Blank(board') /\ board'.txn = None)
    BY <1>5 DEF BoardKept
  <1>8. CASE s = "diagnose" /\ Tail(run.rest) = <<"cleanup">>
    <2>1. Tail(r.rest) # <<>> /\ Tail(r.rest) = <<"cleanup">>
      BY <1>6, <1>8
    <2>2. Continues(r, run') /\ run'.rest = <<"cleanup">> /\ run'.outcome = "failing"
      BY <1>5, <1>6, <2>1, ReturnedFields
    <2> QED BY <1>3, <1>5, <1>6, <1>7, <2>2 DEF FlowInv, Continues, PassHonest, FailureCleansUp, GateHonest
  <1>9. CASE s = "cleanup" /\ Tail(run.rest) = <<>>
    <2>1. run' = Ended(r, "FAIL")
      BY <1>5, <1>6, <1>9, ReturnedFields
    <2>2. /\ DOMAIN run' = RunFields /\ run'.outcome = "FAIL"
          /\ \/ run'.flow = r.flow /\ run'.spi = r.spi /\ run'.skipped = r.skipped
             \/ run'.armed = FALSE /\ run'.spi = FALSE
      <3>1. EndsAs(r, "FAIL", run')
        BY <1>6, <2>1, EndedFields
      <3> QED BY <3>1 DEF EndsAs
    <2> QED BY <1>3, <1>5, <1>6, <1>7, <1>9, <2>2 DEF FlowInv, PassHonest, FailureCleansUp, GateHonest
  <1> QED BY <1>4, <1>8, <1>9

(* A program that judges nothing. *)
LEMMA OtherStep ==
  ASSUME FlowInv, run.outcome = "running", run.flow \notin Judged, RunStep
  PROVE  FlowInv'
  <1> DEFINE s == Head(run.rest)
  <1>1. Plain /\ ~run.armed /\ run.flow \notin Keyed
    BY DEF FlowInv, Plain, Keyed, Judged
  <1>2. StepKnown(s)
    BY <1>1, RunStepKnown
  <1> HIDE DEF s
  <1>3. PICK r :
          /\ Kept(run, r) /\ (run' = Returned(r) \/ run' = Raised(r)) /\ BoardKept /\ ~r.armed
          /\ r.spi => board'.latch /\ ~board'.booting
    <2>1. CASE StepReturns(s)
      <3>1. PICK r : Learns(s, r) /\ run' = Returned(r) /\ BoardKept
        BY <2>1 DEF StepReturns
      <3>2. Kept(run, r) /\ (r.spi => board'.latch /\ ~board'.booting) /\ ~r.armed
        BY <1>1, <3>1 DEF Learns, Plain, BoardKept, Keyed
      <3> QED BY <3>1, <3>2
    <2>2. CASE StepRaises(s)
      BY <1>1, <2>2 DEF StepRaises
    <2> QED BY <1>2, <2>1, <2>2 DEF StepKnown
  <1>4. DOMAIN r = RunFields /\ r.flow = run.flow /\ r.outcome = "running"
    BY <1>3 DEF Kept
  <1>5. DOMAIN board' = BoardFields /\ (board'.booting => Blank(board') /\ board'.txn = None)
    BY <1>3 DEF BoardKept
  <1>6. CASE Continues(r, run') /\ run'.outcome = "running"
    BY <1>1, <1>3, <1>4, <1>5, <1>6 DEF FlowInv, Continues, PassHonest, FailureCleansUp, GateHonest
  <1>7. ASSUME NEW o \in {"PASS", "FAIL"}, run' = Ended(r, o)
        PROVE  FlowInv'
    <2>1. /\ DOMAIN run' = RunFields /\ run'.outcome = o /\ run'.flow = "none"
          /\ run'.armed = FALSE /\ run'.spi = FALSE
      <3>1. EndsAs(r, o, run')
        BY <1>4, <1>7, EndedFields
      <3> QED BY <1>1, <1>3, <1>4, <1>7, <3>1 DEF EndsAs
    <2> QED BY <1>5, <1>7, <2>1 DEF FlowInv, PassHonest, FailureCleansUp, GateHonest, Judged
  <1>8. (Continues(r, run') /\ run'.outcome = "running") \/ \E o \in {"PASS", "FAIL"} : run' = Ended(r, o)
    BY <1>1, <1>3, <1>4, ReturnedFields, RaisedFields
  <1> QED BY <1>6, <1>7, <1>8

(* A judged flow before a step: its place, the step and what is known. *)
LEMMA JudgedPlace ==
  ASSUME FlowInv, run.outcome = "running", run.flow \in Judged, NEW r, Kept(run, r)
  PROVE  /\ Remaining(r) /\ At(r) = At(run) /\ At(run) \in Int /\ Q \in Nat /\ Q >= 11
         /\ At(run) <= Q + Extra(run.flow)
         /\ StepFacts(run.flow, At(run), Head(run.rest))
         /\ Tail(r.rest) = <<>> <=> At(run) = Q + Extra(run.flow)
         /\ Underway(board, run)
  <1>1. Underway(board, run) /\ Remaining(run)
    BY DEF FlowInv, Underway
  <1>2. r.flow = run.flow /\ r.rest = run.rest
    BY DEF Kept
  <1>3. Remaining(r) /\ At(r) = At(run)
    BY <1>1, <1>2 DEF Remaining, At
  <1>4. /\ At(run) \in Int /\ At(run) <= Q + Extra(run.flow)
        /\ Lead(run.flow) + At(run) \in 1..Len(Steps(run.flow))
        /\ Head(run.rest) = Step(run.flow, At(run))
        /\ Tail(run.rest) = <<>> <=> At(run) = Q + Extra(run.flow)
    BY <1>1, Place
  <1>5. StepFacts(run.flow, At(run), Step(run.flow, At(run)))
    BY <1>4, StepAtPlace
  <1>6. Q \in Nat /\ Q >= 11
    BY QualificationSteps
  <1> QED BY <1>1, <1>2, <1>3, <1>4, <1>5, <1>6

(* What is known of a judged flow after the step at place j returned. *)
Progressed(j, b, r) ==
  /\ j > 1 => b.txn = None
  /\ j > 6 => "p1Test" \in r.kats
  /\ j > 7 => "p2Test" \in r.kats
  /\ r.flow \in Keyed =>
       /\ Len(r.data) = (IF r.flow = "demo" THEN 1 ELSE 2)
       /\ r.auth = Packets(r.flow, j + 1)
       /\ j >= ZeroizePlace(r.flow) => Blank(b)
  /\ r.flow = "secure" /\ r.armed => j > Q + 4

(* The packets count the steps that send. *)
LEMMA PacketsCount ==
  ASSUME NEW flow \in Keyed, NEW j \in Int, NEW s, StepFacts(flow, j, s), Q \in Nat
  PROVE  /\ Packets(flow, j) \in Nat
         /\ s = "send" => Packets(flow, j + 1) = Packets(flow, j) + 1
         /\ s # "send" => Packets(flow, j + 1) = Packets(flow, j)
  BY DEF StepFacts, Packets, Keyed

(* A step that returned leaves what its place promises. *)
LEMMA JudgedProgress ==
  ASSUME FlowInv, run.outcome = "running", run.flow \in Judged, NEW r,
         Learns(Head(run.rest), r), BoardKept,
         Head(run.rest) \notin ManagedSteps \cup {"retire"} =>
           Accepts(Head(run.rest), board) /\ board'.txn = board.txn /\ SameMaterial,
         Head(run.rest) \in ManagedSteps \ {"p1Start"} => board'.txn = None,
         Emergency(Head(run.rest)) => Blank(board')
  PROVE  Progressed(At(run), board', r)
  <1> DEFINE s == Head(run.rest)
             j == At(run)
             f == run.flow
  <1>1. Kept(run, r)
    BY DEF Learns
  <1>2. j \in Int /\ Q \in Nat /\ Q >= 11 /\ StepFacts(f, j, s) /\ Underway(board, run)
    BY <1>1, JudgedPlace
  <1>3. r.flow = f /\ r.data = run.data
    BY <1>1 DEF Kept
  <1>4. /\ s \notin ManagedSteps \cup {"retire"} => Accepts(s, board) /\ board'.txn = board.txn /\ SameMaterial
        /\ s \in ManagedSteps \ {"p1Start"} => board'.txn = None
        /\ Emergency(s) => Blank(board')
    OBVIOUS
  <1>5. /\ run.kats \subseteq r.kats
        /\ r.armed => run.armed \/ <<f, s>> \in {<<"demo", "keypair">>, <<"secure", "activeStatus">>}
        /\ s \notin {"send", "retire"} => r.auth = run.auth + 0
        /\ s = "send" /\ board.txn = None => r.auth = run.auth + 1
        /\ s \in TestSteps /\ board.txn = None => s \in r.kats
    BY DEF Learns
  <1>6. /\ j > 2 => board.txn = None
        /\ j > 7 => "p1Test" \in run.kats
        /\ j > 8 => "p2Test" \in run.kats
        /\ f \in Keyed =>
             /\ Len(run.data) = (IF f = "demo" THEN 1 ELSE 2)
             /\ run.auth = Packets(f, j)
             /\ j > ZeroizePlace(f) => Blank(board)
        /\ f = "secure" /\ run.armed => j > Q + 5
    BY <1>2 DEF Underway
  <1> HIDE DEF s, j, f
  <1>7. ASSUME j > 1 PROVE board'.txn = None
    <2>1. CASE j = 2
      BY <1>2, <1>4, <2>1, AcceptsFacts DEF StepFacts, ManagedSteps
    <2>2. CASE j > 2
      BY <1>2, <1>4, <1>6, <2>2 DEF StepFacts
    <2> QED BY <1>2, <1>7, <2>1, <2>2
  <1>8. ASSUME j > 6 PROVE "p1Test" \in r.kats
    BY <1>2, <1>5, <1>6, <1>8 DEF StepFacts, TestSteps
  <1>9. ASSUME j > 7 PROVE "p2Test" \in r.kats
    BY <1>2, <1>5, <1>6, <1>9 DEF StepFacts, TestSteps
  <1>10. ASSUME f \in Keyed PROVE r.auth = Packets(f, j + 1)
    <2>1. /\ Packets(f, j) \in Nat
          /\ s = "send" => Packets(f, j + 1) = Packets(f, j) + 1
          /\ s # "send" => Packets(f, j + 1) = Packets(f, j)
      BY <1>2, <1>10, PacketsCount
    <2>2. s # "retire" /\ (s = "send" => j > 2)
      BY <1>2, <1>10 DEF StepFacts
    <2>3. CASE s = "send"
      BY <1>5, <1>6, <1>10, <2>1, <2>2, <2>3
    <2>4. CASE s # "send"
      BY <1>5, <1>6, <1>10, <2>1, <2>2, <2>4
    <2> QED BY <2>3, <2>4
  <1>11. ASSUME f \in Keyed, j >= ZeroizePlace(f) PROVE Blank(board')
    <2>1. ZeroizePlace(f) \in Int
      BY <1>2 DEF ZeroizePlace
    <2>2. CASE j = ZeroizePlace(f)
      BY <1>2, <1>4, <1>11, <2>2 DEF StepFacts
    <2>3. CASE j > ZeroizePlace(f)
      <3>1. s \notin ManagedSteps \cup {"retire"}
        BY <1>2, <1>11, <2>3 DEF StepFacts
      <3> QED BY <1>4, <1>6, <1>11, <2>3, <3>1 DEF SameMaterial, Blank
    <2> QED BY <1>2, <1>11, <2>1, <2>2, <2>3
  <1>12. ASSUME f = "secure", r.armed PROVE j > Q + 4
    <2>1. CASE run.armed
      BY <1>2, <1>6, <1>12, <2>1
    <2>2. CASE ~run.armed
      <3>1. s = "activeStatus"
        BY <1>5, <1>12, <2>2
      <3> QED BY <1>2, <1>12, <3>1 DEF StepFacts
    <2> QED BY <2>1, <2>2
  <1>13. Progressed(j, board', r)
    BY <1>3, <1>6, <1>7, <1>8, <1>9, <1>10, <1>11, <1>12 DEF Progressed
  <1> QED BY <1>13 DEF j

(* A step of a judged flow that returned. *)
LEMMA JudgedReturns ==
  ASSUME FlowInv, run.outcome = "running", run.flow \in Judged, StepReturns(Head(run.rest))
  PROVE  FlowInv'
  <1> DEFINE s == Head(run.rest)
             j == At(run)
             f == run.flow
  <1>1. PICK r :
          /\ Learns(s, r) /\ run' = Returned(r) /\ BoardKept
          /\ s \notin ManagedSteps \cup {"retire"} =>
               Accepts(s, board) /\ board'.txn = board.txn /\ SameMaterial
          /\ s \in ManagedSteps \ {"p1Start"} => board'.txn = None
          /\ Emergency(s) => Blank(board')
    BY DEF StepReturns
  <1>2. Progressed(j, board', r)
    BY <1>1, JudgedProgress
  <1>3. /\ DOMAIN r = RunFields /\ r.flow = f /\ r.data = run.data /\ r.outcome = "running"
        /\ r.spi = run.spi
    BY <1>1 DEF Learns, Kept
  <1>4. /\ Remaining(r) /\ At(r) = j /\ j \in Int /\ Q \in Nat /\ Q >= 11
        /\ StepFacts(f, j, s)
        /\ Tail(r.rest) = <<>> <=> j = Q + Extra(f)
    <2>1. Kept(run, r)
      BY <1>1 DEF Learns
    <2> QED BY <2>1, JudgedPlace
  <1>5. /\ DOMAIN board' = BoardFields /\ (board'.booting => Blank(board') /\ board'.txn = None)
        /\ r.spi => board.latch /\ board'.latch /\ ~board'.booting
    BY <1>1, <1>3 DEF FlowInv, BoardKept
  <1>6. r.armed => f \in Keyed
    BY <1>1 DEF FlowInv, Learns, Keyed
  <1>7. f \in Judged
    OBVIOUS
  <1> HIDE DEF s, j, f
  <1>8. ASSUME Tail(r.rest) # <<>> PROVE FlowInv'
    <2>1. Continues(r, run') /\ run'.rest = Tail(r.rest) /\ run'.outcome = "running"
      BY <1>1, <1>3, <1>8, ReturnedFields
    <2>2. /\ DOMAIN run' = RunFields /\ run'.flow = f /\ run'.data = r.data /\ run'.armed = r.armed
          /\ run'.auth = r.auth /\ run'.kats = r.kats /\ run'.spi = r.spi
      BY <1>3, <2>1 DEF Continues
    <2>3. Remaining(run') /\ At(run') = j + 1
      BY <1>3, <1>4, <1>7, <1>8, <2>1, <2>2, Onward
    <2>4. ZeroizePlace(f) \in Int
      BY <1>4 DEF ZeroizePlace
    <2>5. /\ j + 1 > 2 => j > 1
          /\ j + 1 > 7 => j > 6
          /\ j + 1 > 8 => j > 7
          /\ j + 1 > ZeroizePlace(f) => j >= ZeroizePlace(f)
          /\ j > Q + 4 => j + 1 > Q + 5
      BY <1>4, <2>4
    <2>6. Underway(board', run')
      BY <1>2, <1>3, <2>2, <2>3, <2>5 DEF Underway, Progressed
    <2> QED BY <1>5, <1>6, <2>1, <2>2, <2>6 DEF FlowInv, PassHonest, FailureCleansUp, GateHonest
  <1>9. ASSUME Tail(r.rest) = <<>> PROVE FlowInv'
    <2>1. run' = Ended(r, "PASS")
      BY <1>1, <1>3, <1>9, ReturnedFields
    <2>2. EndsAs(r, "PASS", run')
      BY <1>3, <2>1, EndedFields
    <2>3. /\ DOMAIN run' = RunFields /\ run'.outcome = "PASS" /\ run'.flow = f /\ run'.data = r.data
          /\ run'.armed = r.armed /\ run'.auth = r.auth /\ run'.kats = r.kats /\ run'.spi = r.spi
      BY <1>3, <1>7, <2>2 DEF EndsAs
    <2>4. j = Q + Extra(f)
      BY <1>4, <1>9
    <2>5. Extra(f) \in Nat /\ (f \in Keyed => Extra(f) = 10) /\ (f = "gate" => Extra(f) = 1)
      BY DEF Extra, Keyed
    <2>6. {"p1Test", "p2Test"} \subseteq r.kats
      <3>1. j > 6 /\ j > 7
        BY <1>4, <2>4, <2>5
      <3> QED BY <1>2, <3>1 DEF Progressed
    <2>7. ASSUME f \in Keyed
          PROVE  r.auth = Len(r.data) /\ Blank(board') /\ board'.txn = None
      <3>1. j = Q + 10 /\ j > 1 /\ j >= ZeroizePlace(f)
        BY <1>4, <2>4, <2>5, <2>7 DEF ZeroizePlace
      <3>2. Packets(f, j + 1) = (IF f = "demo" THEN 1 ELSE 2)
        BY <1>4, <3>1 DEF Packets
      <3> QED BY <1>2, <1>3, <2>7, <3>1, <3>2 DEF Progressed
    <2>8. ASSUME f = "gate" PROVE ~r.spi
      <3>1. j = Q + 1
        BY <2>4, <2>5, <2>8
      <3>2. s = "lastFailure" /\ s \notin ManagedSteps \cup {"retire"}
        BY <1>4, <2>8, <3>1 DEF StepFacts, ManagedSteps
      <3>3. ~board.latch
        BY <1>1, <3>2, AcceptsFacts
      <3> QED BY <1>5, <3>3
    <2>9. PassHonest' /\ FailureCleansUp' /\ GateHonest'
      BY <2>3, <2>6, <2>7, <2>8 DEF PassHonest, FailureCleansUp, GateHonest, Keyed, Blank
    <2> QED BY <1>5, <1>6, <2>3, <2>9 DEF FlowInv
  <1> QED BY <1>8, <1>9

(* A step of a judged flow that raised. *)
LEMMA JudgedRaises ==
  ASSUME FlowInv, run.outcome = "running", run.flow \in Judged, StepRaises(Head(run.rest))
  PROVE  FlowInv'
  <1> DEFINE s == Head(run.rest)
             j == At(run)
             f == run.flow
  <1>1. PICK r :
          /\ Kept(run, r) /\ run' = Raised(r) /\ BoardKept /\ r.armed = run.armed
          /\ r.spi => board'.latch /\ ~board'.booting
          /\ s \notin ManagedSteps => SameMaterial
          /\ Emergency(s) /\ ~r.skipped => ~board'.key /\ board'.session = 0
    BY DEF StepRaises
  <1>2. /\ DOMAIN r = RunFields /\ r.flow = f /\ r.rest = run.rest /\ r.outcome = "running"
        /\ Head(r.rest) = s
    BY <1>1 DEF Kept
  <1>3. /\ Remaining(r) /\ At(r) = j /\ j \in Int /\ Q \in Nat /\ Q >= 11 /\ j <= Q + Extra(f)
        /\ StepFacts(f, j, s) /\ Underway(board, run)
    BY <1>1, JudgedPlace
  <1>4. /\ f \in Keyed => (j > ZeroizePlace(f) => Blank(board))
        /\ f = "secure" /\ run.armed => j > Q + 5
    BY <1>3 DEF Underway
  <1>5. DOMAIN board' = BoardFields /\ (board'.booting => Blank(board') /\ board'.txn = None)
    BY <1>1 DEF BoardKept
  <1>6. r.armed => f \in Keyed
    BY <1>1 DEF FlowInv
  <1> HIDE DEF s, j, f
  <1>7. CASE /\ r.flow \in Keyed /\ Continues(r, run') /\ run'.outcome = "failing"
             /\ run'.rest \in {<<"diagnose", "cleanup">>, <<"cleanup">>}
    <2>1. DOMAIN run' = RunFields /\ run'.flow = r.flow /\ run'.spi = r.spi
      BY <1>7 DEF Continues
    <2> QED BY <1>1, <1>5, <1>7, <2>1 DEF FlowInv, PassHonest, FailureCleansUp, GateHonest
  <1>8. CASE /\ run' = Ended(r, "FAIL")
             /\ ~(r.flow = "demo" /\ r.armed /\ Contains(r.rest, "zeroize"))
             /\ ~(r.flow = "secure" /\ s \in {"send", "readBack"})
    <2>1. EndsAs(r, "FAIL", run')
      BY <1>2, <1>8, EndedFields
    <2>2. /\ DOMAIN run' = RunFields /\ run'.outcome = "FAIL"
          /\ \/ /\ r.armed /\ run'.flow = f /\ run'.spi = r.spi /\ run'.skipped = r.skipped
             \/ run'.armed = FALSE /\ run'.spi = FALSE
      BY <1>2, <2>1 DEF EndsAs
    <2>3. ASSUME r.armed, ~r.skipped
          PROVE  ~board'.key /\ board'.session = 0
      <3>1. f \in Keyed
        BY <1>6, <2>3
      <3>2. ASSUME j > ZeroizePlace(f) PROVE ~board'.key /\ board'.session = 0
        <4>1. s \notin ManagedSteps /\ Blank(board)
          BY <1>3, <1>4, <3>1, <3>2 DEF StepFacts
        <4> QED BY <1>1, <4>1 DEF SameMaterial, Blank
      <3>3. CASE f = "demo"
        <4>1. ~(j <= Q + 8)
          BY <1>2, <1>3, <1>8, <2>3, <3>3, ZeroizeAhead
        <4>2. j > ZeroizePlace(f)
          BY <1>3, <3>3, <4>1 DEF ZeroizePlace
        <4> QED BY <3>2, <4>2
      <3>4. CASE f = "secure"
        <4>1. j > Q + 5 /\ j \notin Q + 6 .. Q + 8
          BY <1>1, <1>2, <1>3, <1>4, <1>8, <2>3, <3>4 DEF StepFacts
        <4>2. j > ZeroizePlace(f) \/ j = ZeroizePlace(f)
          BY <1>3, <3>4, <4>1 DEF ZeroizePlace
        <4>3. CASE j = ZeroizePlace(f)
          BY <1>1, <1>3, <2>3, <3>1, <4>3 DEF StepFacts
        <4> QED BY <3>2, <4>2, <4>3
      <3> QED BY <3>1, <3>3, <3>4 DEF Keyed
    <2> QED BY <1>1, <1>5, <1>6, <2>2, <2>3 DEF FlowInv, PassHonest, FailureCleansUp, GateHonest
  <1> QED BY <1>1, <1>2, <1>7, <1>8, RaisedFields

(* A step of a program. *)
LEMMA RunStepInv ==
  ASSUME FlowInv, RunStep
  PROVE  FlowInv'
  <1>1. run.outcome = "running" \/ run.outcome = "failing"
    BY DEF RunStep, Active
  <1>2. ASSUME run.outcome = "running", run.flow \in Judged PROVE FlowInv'
    <2>1. StepKnown(Head(run.rest))
      BY RunStepKnown DEF FlowInv, Plain
    <2> QED BY <1>2, <2>1, JudgedReturns, JudgedRaises DEF StepKnown
  <1> QED BY <1>1, <1>2, FailingStep, OtherStep

-----------------------------------------------------------------------------
(* What happens to the board, and the programs' beginnings and ends.        *)

(* The board may forget, and a failure is charged to a program that runs. *)
LEMMA BoardEvent ==
  ASSUME FlowInv, NEW x, \/ run' = [run EXCEPT !.spi = x]
                         \/ run' = run /\ x = run.spi,
         DOMAIN board' = BoardFields,
         x => board'.latch /\ ~board'.booting, run.outcome = "PASS" /\ x => run.spi,
         board'.booting => Blank(board') /\ board'.txn = None,
         ~board.key => ~board'.key, board.session = 0 => board'.session = 0,
         board.last = None => board'.last = None, board.txn = None => board'.txn = None
  PROVE  FlowInv'
  <1>1. /\ DOMAIN run' = RunFields /\ run'.flow = run.flow /\ run'.rest = run.rest
        /\ run'.data = run.data /\ run'.armed = run.armed /\ run'.auth = run.auth
        /\ run'.kats = run.kats /\ run'.skipped = run.skipped /\ run'.outcome = run.outcome
        /\ run'.spi = x
    BY DEF FlowInv, RunFields
  <1>2. Remaining(run) => Remaining(run') /\ At(run') = At(run)
    BY <1>1 DEF Remaining, At
  <1>3. Blank(board) => Blank(board')
    BY DEF Blank
  <1>4. Underway(board, run) => Underway(board', run')
    BY <1>1, <1>2, <1>3 DEF Underway
  <1>5. PassHonest' /\ FailureCleansUp' /\ GateHonest'
    <2>1. PassHonest /\ FailureCleansUp /\ GateHonest
      BY DEF FlowInv
    <2> QED BY <1>1, <2>1 DEF PassHonest, FailureCleansUp, GateHonest
  <1> QED BY <1>1, <1>4, <1>5 DEF FlowInv

(* What happens to the board. *)
LEMMA BoardInv ==
  ASSUME FlowInv, BoardNext
  PROVE  FlowInv'
  <1>1. /\ DOMAIN board = BoardFields /\ (run.spi => board.latch /\ ~board.booting)
        /\ board.booting => Blank(board) /\ board.txn = None
    BY DEF FlowInv
  <1>2. CASE StartupDone
    <2>1. run' = run /\ board.booting
      BY <1>2 DEF StartupDone
    <2>2. /\ DOMAIN board' = BoardFields /\ ~board'.booting /\ board'.key = board.key
          /\ board'.session = board.session /\ board'.last = board.last /\ board'.txn = board.txn
      BY <1>1, <1>2 DEF StartupDone, BoardFields
    <2>3. ~run.spi
      BY <1>1, <2>1
    <2> QED BY <2>1, <2>2, <2>3, BoardEvent
  <1>3. CASE ResetBoard
    <2>1. run' = [run EXCEPT !.spi = FALSE] /\ board' = Booting
      BY <1>3 DEF ResetBoard
    <2>2. /\ DOMAIN board' = BoardFields /\ Blank(board') /\ board'.txn = None
          /\ board'.key = FALSE /\ board'.session = 0 /\ board'.last = None
      BY <2>1 DEF Booting, BoardFields, Blank
    <2> QED BY <2>1, <2>2, BoardEvent, Zenon
  <1>4. CASE ContainFault
    <2>1. run' = run
      BY <1>4 DEF ContainFault
    <2>2. /\ DOMAIN board' = BoardFields /\ board'.booting = board.booting /\ board'.key = FALSE
          /\ board'.session = 0 /\ board'.last = None /\ board'.txn = None
          /\ board'.latch = board.latch
      BY <1>1, <1>4 DEF ContainFault, NoSession, BoardFields
    <2> QED BY <1>1, <2>1, <2>2, BoardEvent DEF Blank
  <1>5. CASE SpiFails
    <2>1. run' = [run EXCEPT !.spi = run.spi \/ Active]
      BY <1>5 DEF SpiFails
    <2>2. /\ DOMAIN board' = BoardFields /\ ~board'.booting /\ board'.key = board.key
          /\ board'.session = board.session /\ board'.last = board.last /\ board'.txn = board.txn
          /\ board'.latch = TRUE
      BY <1>1, <1>5 DEF SpiFails, BoardFields
    <2>3. run.outcome = "PASS" => ~Active
      BY DEF Active
    <2> DEFINE x == run.spi \/ Active
    <2>4. run' = [run EXCEPT !.spi = x] /\ (run.outcome = "PASS" /\ x => run.spi)
      BY <2>1, <2>3
    <2> HIDE DEF x
    <2> QED BY <2>2, <2>4, BoardEvent
  <1>6. CASE PeriodicProbe
    <2>1. run' = run
      BY <1>6 DEF PeriodicProbe
    <2>2. /\ DOMAIN board' = BoardFields /\ board'.booting = board.booting /\ board'.key = board.key
          /\ board'.session = board.session /\ board'.last = board.last /\ board'.txn = board.txn
          /\ board'.latch = board.latch
      BY <1>1, <1>6 DEF PeriodicProbe, BoardFields
    <2> QED BY <1>1, <2>1, <2>2, BoardEvent DEF Blank
  <1> QED BY <1>2, <1>3, <1>4, <1>5, <1>6 DEF BoardNext

(* A program begins. *)
LEMMA StartInv ==
  ASSUME FlowInv, board' = board, NEW o, NEW f, NEW d,
         NEW w, run' = Started(o, f, w, d),
         f \in Judged => w = Steps(f), f = "demo" => Len(d) = 1, f = "secure" => Len(d) = 2
  PROVE  FlowInv'
  <1>1. /\ DOMAIN run' = RunFields /\ run'.flow = f /\ run'.rest = w /\ run'.data = d
        /\ run'.armed = FALSE /\ run'.auth = 0 /\ run'.kats = {} /\ run'.spi = FALSE
        /\ run'.outcome = "running"
    BY DEF Started, RunFields
  <1>2. ASSUME f \in Judged PROVE Underway(board', run')
    <2>1. Remaining(run') /\ At(run') = 1 - Lead(f)
      BY <1>1, <1>2, Begun
    <2>2. Lead(f) \in Nat /\ Q \in Nat /\ Q >= 11
      BY <1>2, JudgedSteps
    <2>3. At(run') \in Int /\ At(run') <= 1
      BY <2>1, <2>2
    <2>4. /\ ~(At(run') > 2) /\ ~(At(run') > 7) /\ ~(At(run') > 8)
          /\ ~(At(run') > ZeroizePlace(f)) /\ Packets(f, At(run')) = 0
      BY <2>2, <2>3 DEF ZeroizePlace, Packets
    <2> QED BY <1>1, <2>1, <2>4 DEF Underway, Keyed
  <1> QED BY <1>1, <1>2 DEF FlowInv, PassHonest, FailureCleansUp, GateHonest

(* A program is killed. *)
LEMMA KillInv ==
  ASSUME FlowInv, board' = board, run' = [NoRun EXCEPT !.outcome = "KILLED"]
  PROVE  FlowInv'
  <1>1. /\ DOMAIN run' = RunFields /\ run'.outcome = "KILLED" /\ run'.spi = FALSE
        /\ run'.armed = FALSE
    BY DEF NoRun, Started, RunFields
  <1> QED BY <1>1 DEF FlowInv, PassHonest, FailureCleansUp, GateHonest

(* A command line begins. *)
LEMMA CliInv ==
  ASSUME FlowInv, StartCli
  PROVE  FlowInv'
  <1>1. PICK c \in Commands :
          run' = Started("cli", c, Command(c),
                         IF c = "secure" THEN Payload ELSE IF c = "send" THEN <<Payload[1]>> ELSE <<>>)
    BY DEF StartCli
  <1> DEFINE d == IF c = "secure" THEN Payload ELSE IF c = "send" THEN <<Payload[1]>> ELSE <<>>
  <1>2. c = "secure" => Len(d) = 2
    BY DEF Payload
  <1>3. c \notin {"demo", "prepare"}
    BY DEF Commands, LegacyCommands, FullCommands
  <1>4. c \in Judged => Command(c) = Steps(c)
    <2>1. Command("secure") = SecureTelemetry /\ Command("gate") = Sn32Qualify
      BY DEF Command, FullCommands, LegacyCommands
    <2> QED BY <1>3, <2>1 DEF Judged, Steps
  <1>5. run' = Started("cli", c, Command(c), d) /\ board' = board
    BY <1>1 DEF StartCli
  <1> HIDE DEF d
  <1> QED BY <1>2, <1>3, <1>4, <1>5, StartInv

-----------------------------------------------------------------------------
(* The worker of the window.                                                *)

WorkNames == {"preflight", "prepare", "demo", "zeroize"}

WorkerFields == {"phase", "name", "data", "report"}

(* What the worker has been started for. *)
WorkInv ==
  /\ DOMAIN worker = WorkerFields
  /\ worker.phase # "none" => worker.name \in WorkNames /\ (worker.name = "demo" => Len(worker.data) = 1)

(* The programs, the board and the worker. *)
IInv == FlowInv /\ WorkInv

(* The worker opens the port, or fails to. *)
LEMMA OpenInv ==
  ASSUME IInv, OpenClient
  PROVE  IInv'
  <1>1. /\ FlowInv /\ DOMAIN worker = WorkerFields /\ worker.phase = "opening" /\ board' = board
        /\ worker.name \in WorkNames /\ (worker.name = "demo" => Len(worker.data) = 1)
    BY DEF IInv, WorkInv, OpenClient
  <1>2. DOMAIN worker' = WorkerFields /\ worker'.name = worker.name /\ worker'.data = worker.data
    BY <1>1 DEF OpenClient, Report, WorkerFields
  <1>3. CASE run' = Started("gui", worker.name, Work(worker.name), worker.data)
    <2>1. worker.name \in Judged => Work(worker.name) = Steps(worker.name)
      BY <1>1 DEF Work, Steps, Judged, WorkNames
    <2>2. worker.name # "secure"
      BY <1>1 DEF WorkNames
    <2>3. FlowInv'
      BY <1>1, <1>3, <2>1, <2>2, StartInv
    <2> QED BY <1>1, <1>2, <2>3 DEF IInv, WorkInv
  <1>4. CASE run' = run
    BY <1>1, <1>2, <1>4 DEF IInv, WorkInv, FlowInv, PassHonest, FailureCleansUp, GateHonest
  <1> QED BY <1>3, <1>4 DEF OpenClient

(* Nothing of the programs and the board changes. *)
LEMMA FlowStutter ==
  ASSUME FlowInv, board' = board, run' = run
  PROVE  FlowInv'
  BY DEF FlowInv, PassHonest, FailureCleansUp, GateHonest

(* A button or F5. *)
LEMMA UserWork ==
  ASSUME WorkInv, User
  PROVE  WorkInv' /\ board' = board /\ run' = run
  <1>1. \/ worker' = worker
        \/ \E name \in WorkNames \ {"demo"} : worker' = Worker("opening", name, <<>>)
        \/ worker' = Worker("opening", "demo", <<Payload[1]>>)
    <2>1. CASE StartPreflight
      BY <2>1 DEF StartPreflight, StartWorker, WorkNames
    <2>2. CASE StartPrepare
      BY <2>2 DEF StartPrepare, StartWorker, WorkNames
    <2>3. CASE StartZeroize
      BY <2>3 DEF StartZeroize, StartWorker, WorkNames
    <2>4. CASE StartDemo
      BY <2>4 DEF StartDemo, StartWorker
    <2> QED BY <2>1, <2>2, <2>3, <2>4 DEF User
  <1>2. WorkInv'
    BY <1>1 DEF WorkInv, Worker, WorkerFields, WorkNames
  <1> QED BY <1>2 DEF User

(* The invariant is kept. *)
LEMMA IInvNext ==
  ASSUME IInv, [Next]_vars
  PROVE  IInv'
  <1>1. FlowInv /\ WorkInv /\ DOMAIN worker = WorkerFields
    BY DEF IInv, WorkInv
  <1>2. CASE User
    BY <1>1, <1>2, UserWork, FlowStutter DEF IInv
  <1>3. CASE OpenClient
    BY <1>3, OpenInv
  <1>4. CASE WorkerStep
    <2>1. RunStep /\ worker.phase = "running"
      BY <1>4 DEF WorkerStep
    <2>2. FlowInv'
      BY <1>1, <2>1, RunStepInv
    <2>3. DOMAIN worker' = WorkerFields /\ worker'.name = worker.name /\ worker'.data = worker.data
      BY <1>1, <1>4 DEF WorkerStep, Report, WorkerFields
    <2> QED BY <1>1, <2>1, <2>2, <2>3 DEF IInv, WorkInv
  <1>5. CASE ThreadExit
    <2>1. FlowInv'
      BY <1>1, <1>5, FlowStutter DEF ThreadExit
    <2> QED BY <1>5, <2>1 DEF IInv, WorkInv, ThreadExit, Worker, WorkerFields
  <1>6. CASE DrainQueue \/ CloseDialog
    <2>1. board' = board /\ run' = run /\ worker' = worker
      BY <1>6 DEF DrainQueue, CloseDialog
    <2> QED BY <1>1, <2>1, FlowStutter DEF IInv, WorkInv
  <1>7. CASE CloseWindow
    <2>1. FlowInv'
      BY <1>1, <1>7, KillInv DEF CloseWindow
    <2> QED BY <1>7, <2>1 DEF IInv, WorkInv, CloseWindow, NoWorker, WorkerFields
  <1>8. CASE (StartCli \/ CliStep \/ KillCli \/ BoardNext) /\ UNCHANGED guiVars
    <2>1. WorkInv'
      BY <1>1, <1>8 DEF guiVars, WorkInv
    <2>2. FlowInv'
      BY <1>1, <1>8, CliInv, RunStepInv, KillInv, BoardInv DEF CliStep, KillCli
    <2> QED BY <2>1, <2>2 DEF IInv
  <1>9. CASE UNCHANGED vars
    <2>1. board' = board /\ run' = run /\ worker' = worker
      BY <1>9 DEF vars
    <2> QED BY <1>1, <2>1, FlowStutter DEF IInv, WorkInv
  <1> QED BY <1>2, <1>3, <1>4, <1>5, <1>6, <1>7, <1>8, <1>9 DEF Next

(* The invariant holds initially. *)
LEMMA IInvInit ==
  ASSUME Init
  PROVE  IInv
  <1>1. board = Booting /\ run = NoRun /\ worker = NoWorker
    BY DEF Init, FlowInit
  <1>2. /\ DOMAIN run = RunFields /\ run.outcome = "none" /\ run.spi = FALSE /\ run.armed = FALSE
    BY <1>1 DEF NoRun, Started, RunFields
  <1>3. DOMAIN board = BoardFields /\ Blank(board) /\ board.txn = None
    BY <1>1 DEF Booting, BoardFields, Blank
  <1>4. WorkInv
    BY <1>1 DEF NoWorker, WorkInv, WorkerFields
  <1> QED BY <1>2, <1>3, <1>4 DEF IInv, FlowInv, PassHonest, FailureCleansUp, GateHonest

(* The programs, the board and the worker, in every state. *)
LEMMA Invariance == Spec => []IInv
  <1>1. Init => IInv
    BY IInvInit
  <1>2. IInv /\ [Next]_vars => IInv'
    BY IInvNext
  <1> QED BY <1>1, <1>2, PTL DEF Spec

(* A PASS of the core demo or of secure-telemetry-qualify means that P2     *)
(* authenticated every plaintext of that very run and that the board is     *)
(* left erased, for any number of liveness rounds, programs and troubles.   *)
THEOREM PassTheorem == Spec => []PassHonest
  <1>1. IInv => PassHonest
    BY DEF IInv, FlowInv
  <1> QED BY <1>1, Invariance, PTL

(* A demo or a secure-telemetry qualification that fails once its clean-up  *)
(* is due leaves no key pair and no session behind, wherever it failed,     *)
(* unless the zeroize request itself was lost.                              *)
THEOREM CleanUpTheorem == Spec => []FailureCleansUp
  <1>1. IInv => FailureCleansUp
    BY DEF IInv, FlowInv
  <1> QED BY <1>1, Invariance, PTL

(* A qualification that reports PASS ran the known-answer tests of both     *)
(* Primers itself, whatever result was retained when it began, and the      *)
(* cold-boot gate reports every SPI failure since it started.               *)
THEOREM GateTheorem == Spec => []GateHonest
  <1>1. IInv => GateHonest
    BY DEF IInv, FlowInv
  <1> QED BY <1>1, Invariance, PTL

-----------------------------------------------------------------------------
(* The window.                                                              *)

GuiFields == {"busy", "dialog", "result", "current", "stages", "output", "match", "refused"}

(* A screen that the handlers can draw: the current stage is running. *)
Screen(g) ==
  /\ DOMAIN g = GuiFields /\ DOMAIN g.stages = STAGES /\ g.current \in STAGES \cup {None}
  /\ g.current # None => g.stages[g.current] = "running"

Messages ==
  {m \in [kind: {"progress", "success", "failure"}, name: WorkNames, stage: STAGES \cup {None},
          text: Nat \cup {None}] : m.kind = "progress" => m.stage \in STAGES}

(* A stage that a success will leave as passed. *)
Shown(g, s) == g.stages[s] = "pass" \/ g.current = s

(* So will it be when the queue has been handled: its announcement is still *)
(* to come, and no failure after it.                                        *)
Quiet(q, i) == \A k \in 1..Len(q) : k > i => q[k].kind # "failure"

Settled(q, g, s) ==
  \/ \E i \in 1..Len(q) : q[i].kind = "progress" /\ q[i].stage = s /\ Quiet(q, i)
  \/ Quiet(q, 0) /\ Shown(g, s)

(* The stages announced when the demo is at place j. *)
Announced(j) == {"preflight"} \cup ({StageForProgress(Step("demo", i)) : i \in 2..j} \ {None})

(* The last worker has put its outcome; the demo is on its way, has passed. *)
Idle == worker.phase \in {"exiting", "none"} /\ worker.report # None

DemoRuns == worker.phase = "running" /\ worker.name = "demo" /\ run.outcome = "running"

DemoPassed == Idle /\ worker.report.name = "demo" /\ worker.report.kind = "success"

(* The kinds of the window's variables, and the program of the worker. *)
GuiKinds ==
  /\ runs \in Nat /\ queue \in Seq(Messages) /\ Screen(gui)
  /\ worker.phase \in {"none", "opening", "running", "exiting"}
  /\ worker.phase # "none" /\ worker.name = "demo" => worker.data[1] \in Nat
  /\ run.flow = "demo" => run.data[1] \in Nat
  /\ worker.phase = "running" => Active /\ run.owner = "gui" /\ run.flow = worker.name
  /\ worker.report # None => worker.report.kind \in {"success", "failure"}

(* The outcome is the last message, or it is on the screen. *)
ResultShown ==
  Idle => /\ queue # <<>> => queue[Len(queue)] = worker.report
          /\ queue = <<>> => gui.result = Conclusion(worker.report.name, worker.report.kind)

(* The stages of the demo, and in the end its plaintext. *)
StagesShown ==
  ~gui.refused =>
    /\ DemoRuns => \A s \in Announced(At(run)) : Settled(queue, gui, s)
    /\ DemoPassed =>
         /\ \A s \in STAGES : Settled(queue, gui, s)
         /\ queue = <<>> =>
              /\ gui.output = worker.report.text /\ gui.match = "match"
              /\ \A s \in STAGES : gui.stages[s] = "pass"

GuiInv == GuiKinds /\ ResultShown /\ StagesShown

(* _finish_stage *)
LEMMA FinishFields ==
  ASSUME NEW g, Screen(g), NEW how
  PROVE  /\ Screen(FinishStage(g, how)) /\ FinishStage(g, how).current = None
         /\ \A s \in STAGES : FinishStage(g, how).stages[s] = IF s = g.current THEN how ELSE g.stages[s]
         /\ FinishStage(g, how).refused = g.refused /\ FinishStage(g, how).output = g.output
         /\ FinishStage(g, how).match = g.match /\ FinishStage(g, how).result = g.result
  <1>1. CASE g.current = None
    BY <1>1, StageAssumption DEF FinishStage, Screen, StageAssumption
  <1>2. CASE g.current # None
    <2>1. FinishStage(g, how) = [g EXCEPT !.stages[g.current] = how, !.current = None]
      BY <1>2 DEF FinishStage
    <2> QED BY <1>2, <2>1 DEF Screen, GuiFields
  <1> QED BY <1>1, <1>2

(* _activate_stage *)
LEMMA ActivateFields ==
  ASSUME NEW g, Screen(g), NEW stage \in STAGES
  PROVE  /\ Screen(ActivateStage(g, stage)) /\ Shown(ActivateStage(g, stage), stage)
         /\ \A s \in STAGES : Shown(g, s) => Shown(ActivateStage(g, stage), s)
         /\ ActivateStage(g, stage).refused = g.refused
         /\ ActivateStage(g, stage).result = g.result
  <1>1. CASE g.current = stage
    BY <1>1 DEF ActivateStage, Shown
  <1>2. CASE g.current # stage
    <2> DEFINE f == FinishStage(g, "pass")
    <2>1. /\ Screen(f) /\ f.refused = g.refused /\ f.result = g.result
          /\ \A s \in STAGES : f.stages[s] = IF s = g.current THEN "pass" ELSE g.stages[s]
      BY FinishFields
    <2>2. ActivateStage(g, stage) = [f EXCEPT !.current = stage, !.stages[stage] = "running"]
      BY <1>2 DEF ActivateStage
    <2> HIDE DEF f
    <2> DEFINE a == ActivateStage(g, stage)
    <2>3. /\ Screen(a) /\ a.current = stage /\ a.refused = f.refused /\ a.result = f.result
          /\ \A s \in STAGES : s # stage => a.stages[s] = f.stages[s]
      BY <2>1, <2>2 DEF Screen, GuiFields
    <2> HIDE DEF a
    <2>4. Shown(a, stage) /\ \A s \in STAGES : Shown(g, s) => Shown(a, s)
      BY <2>1, <2>3 DEF Shown
    <2> QED BY <2>1, <2>3, <2>4 DEF a
  <1> QED BY <1>1, <1>2

(* _drain_queue: what handling a message does to the screen. *)
Handled(g, m, h) ==
  /\ Screen(h) /\ h.refused = g.refused
  /\ m.kind = "progress" => Shown(h, m.stage)
  /\ m.kind # "failure" => \A s \in STAGES : Shown(g, s) => Shown(h, s)
  /\ m.kind # "progress" => h.result = Conclusion(m.name, m.kind)
  /\ m.kind = "success" /\ m.name = "demo" =>
       /\ h.output = m.text /\ h.match = "match"
       /\ \A s \in STAGES : Shown(g, s) => h.stages[s] = "pass"

(* Each kind of message does so. *)
LEMMA HandleFields ==
  ASSUME NEW g, Screen(g), NEW m \in Messages
  PROVE  Handled(g, m, Handle(g, m))
  <1>1. m.kind \in {"progress", "success", "failure"} /\ (m.kind = "progress" => m.stage \in STAGES)
    BY DEF Messages
  <1>2. CASE m.kind = "progress"
    <2>1. Handle(g, m) = ActivateStage(g, m.stage)
      BY <1>2 DEF Handle
    <2> DEFINE a == ActivateStage(g, m.stage)
    <2>2. /\ Screen(a) /\ Shown(a, m.stage) /\ a.refused = g.refused
          /\ \A s \in STAGES : Shown(g, s) => Shown(a, s)
      BY <1>1, <1>2, ActivateFields
    <2> HIDE DEF a
    <2>3. Handled(g, m, a)
      BY <1>2, <2>2 DEF Handled
    <2> QED BY <2>1, <2>3 DEF a
  <1>3. CASE m.kind = "failure"
    <2> DEFINE f == FinishStage(g, "fail")
               a == [f EXCEPT !.result = Conclusion(m.name, m.kind), !.dialog = TRUE]
    <2>1. Screen(f) /\ f.refused = g.refused
      BY FinishFields
    <2>2. Handle(g, m) = a
      BY <1>3 DEF Handle, HandleFailure
    <2> HIDE DEF f
    <2>3. Screen(a) /\ a.refused = g.refused /\ a.result = Conclusion(m.name, m.kind)
      BY <2>1 DEF Screen, GuiFields
    <2> HIDE DEF a
    <2>4. Handled(g, m, a)
      BY <1>3, <2>3 DEF Handled
    <2> QED BY <2>2, <2>4
  <1>4. CASE m.kind = "success"
    <2> DEFINE f == FinishStage(g, "pass")
               c == Conclusion(m.name, m.kind)
               a == HandleSuccess(g, m)
               h == SetBusy(a, FALSE)
    <2>1. /\ Screen(f) /\ f.refused = g.refused /\ f.current = None
          /\ \A s \in STAGES : f.stages[s] = IF s = g.current THEN "pass" ELSE g.stages[s]
      BY FinishFields
    <2>2. /\ m.name = "preflight" => a = [g EXCEPT !.result = c]
          /\ m.name = "demo" =>
               a = [[f EXCEPT !.result = c] EXCEPT
                      !.output = m.text, !.match = "match",
                      !.stages = [s \in STAGES |-> IF @[s] = "waiting" THEN "pass" ELSE @[s]]]
          /\ m.name \notin {"preflight", "demo"} => a = [f EXCEPT !.result = c]
      BY DEF HandleSuccess
    <2>3. Handle(g, m) = h
      BY <1>4 DEF Handle
    <2> HIDE DEF f, c, a
    <2>4. /\ Screen(a) /\ a.refused = g.refused /\ a.result = c
          /\ \A s \in STAGES : Shown(g, s) => Shown(a, s)
          /\ m.name = "demo" =>
               /\ a.output = m.text /\ a.match = "match"
               /\ \A s \in STAGES : Shown(g, s) => a.stages[s] = "pass"
      <3>1. CASE m.name = "preflight"
        <4>1. a = [g EXCEPT !.result = c]
          BY <2>2, <3>1
        <4> QED BY <3>1, <4>1 DEF Screen, GuiFields, Shown
      <3>2. CASE m.name = "demo"
        <4> DEFINE n == [s \in STAGES |-> IF f.stages[s] = "waiting" THEN "pass" ELSE f.stages[s]]
        <4>1. a = [f EXCEPT !.result = c, !.output = m.text, !.match = "match", !.stages = n]
          BY <2>1, <2>2, <3>2 DEF Screen, GuiFields
        <4>2. /\ DOMAIN n = STAGES
              /\ \A s \in STAGES : n[s] = IF f.stages[s] = "waiting" THEN "pass" ELSE f.stages[s]
          OBVIOUS
        <4> HIDE DEF n
        <4>3. /\ DOMAIN a = GuiFields /\ a.stages = n /\ a.current = None /\ a.refused = f.refused
              /\ a.result = c /\ a.output = m.text /\ a.match = "match"
          BY <2>1, <4>1 DEF Screen, GuiFields
        <4>4. \A s \in STAGES : Shown(g, s) => a.stages[s] = "pass"
          BY <2>1, <4>2, <4>3 DEF Shown
        <4>5. Screen(a)
          BY <4>2, <4>3 DEF Screen
        <4> QED BY <2>1, <4>3, <4>4, <4>5 DEF Shown
      <3>3. CASE m.name \notin {"preflight", "demo"}
        <4>1. a = [f EXCEPT !.result = c]
          BY <2>2, <3>3
        <4> QED BY <2>1, <3>3, <4>1 DEF Screen, GuiFields, Shown
      <3> QED BY <3>1, <3>2, <3>3
    <2>5. /\ Screen(h) /\ h.refused = a.refused /\ h.result = a.result /\ h.output = a.output
          /\ h.match = a.match /\ h.stages = a.stages /\ h.current = a.current
      BY <2>4 DEF SetBusy, Screen, GuiFields
    <2> HIDE DEF h
    <2>6. Handled(g, m, h)
      BY <1>4, <2>4, <2>5 DEF Handled, Shown, c
    <2> QED BY <2>3, <2>6
  <1> QED BY <1>1, <1>2, <1>3, <1>4

(* A message at the end of the queue. *)
LEMMA SettledAppend ==
  ASSUME NEW q \in Seq(Messages), NEW m \in Messages, m.kind # "failure", NEW g, NEW s
  PROVE  /\ Settled(q, g, s) => Settled(Append(q, m), g, s)
         /\ m.kind = "progress" => Settled(Append(q, m), g, m.stage)
  <1> DEFINE a == Append(q, m)
  <1>1. /\ Len(q) \in Nat /\ Len(a) = Len(q) + 1 /\ a[Len(q) + 1] = m
        /\ \A i \in 1..Len(q) : a[i] = q[i]
    BY AppendProperties
  <1> HIDE DEF a
  <1>2. ASSUME NEW i \in Int, Quiet(q, i) PROVE Quiet(a, i)
    <2>1. ASSUME NEW k \in 1..Len(a), k > i PROVE a[k].kind # "failure"
      <3>1. k \in 1..Len(q) \/ k = Len(q) + 1
        BY <1>1
      <3> QED BY <1>1, <1>2, <2>1, <3>1 DEF Quiet
    <2> QED BY <2>1 DEF Quiet
  <1>3. Quiet(a, Len(a))
    BY <1>1 DEF Quiet
  <1>4. ASSUME Settled(q, g, s) PROVE Settled(a, g, s)
    <2>1. CASE \E i \in 1..Len(q) : q[i].kind = "progress" /\ q[i].stage = s /\ Quiet(q, i)
      <3>1. PICK i \in 1..Len(q) : q[i].kind = "progress" /\ q[i].stage = s /\ Quiet(q, i)
        BY <2>1
      <3>2. i \in 1..Len(a) /\ a[i] = q[i] /\ Quiet(a, i)
        BY <1>1, <1>2, <3>1
      <3> QED BY <3>1, <3>2 DEF Settled
    <2>2. CASE Quiet(q, 0) /\ Shown(g, s)
      BY <1>2, <2>2 DEF Settled
    <2> QED BY <1>4, <2>1, <2>2 DEF Settled
  <1>5. ASSUME m.kind = "progress" PROVE Settled(a, g, m.stage)
    <2>1. Len(a) \in 1..Len(a) /\ a[Len(a)] = m
      BY <1>1
    <2> QED BY <1>3, <1>5, <2>1 DEF Settled
  <1> QED BY <1>4, <1>5 DEF a

(* A message is taken from the queue and handled. *)
LEMMA SettledTail ==
  ASSUME NEW q \in Seq(Messages), q # <<>>, NEW g, NEW h, Handled(g, Head(q), h),
         NEW s \in STAGES, Settled(q, g, s)
  PROVE  Settled(Tail(q), h, s)
  <1> DEFINE t == Tail(q)
             m == Head(q)
  <1>1. /\ m \in Messages /\ t \in Seq(Messages) /\ Len(t) = Len(q) - 1
        /\ \A i \in 1..Len(t) : t[i] = q[i + 1]
    BY HeadTailProperties
  <1>2. Len(q) \in Nat /\ Len(q) >= 1 /\ m = q[1]
    BY EmptySeq
  <1>3. Handled(g, m, h)
    OBVIOUS
  <1> HIDE DEF t, m
  <1>4. ASSUME NEW i \in Nat, i >= 1, Quiet(q, i) PROVE Quiet(t, i - 1)
    <2>1. ASSUME NEW k \in 1..Len(t), k > i - 1 PROVE t[k].kind # "failure"
      <3>1. k + 1 \in 1..Len(q) /\ k + 1 > i /\ t[k] = q[k + 1]
        BY <1>1, <1>2, <1>4, <2>1
      <3> QED BY <1>4, <3>1 DEF Quiet
    <2> QED BY <2>1 DEF Quiet
  <1>5. CASE \E i \in 1..Len(q) : q[i].kind = "progress" /\ q[i].stage = s /\ Quiet(q, i)
    <2>1. PICK i \in 1..Len(q) : q[i].kind = "progress" /\ q[i].stage = s /\ Quiet(q, i)
      BY <1>5
    <2>2. Quiet(t, i - 1)
      BY <1>4, <2>1
    <2>3. CASE i = 1
      <3>1. Shown(h, s) /\ Quiet(t, 0)
        BY <1>2, <1>3, <2>1, <2>2, <2>3 DEF Handled
      <3> QED BY <3>1 DEF Settled, t
    <2>4. CASE i # 1
      <3>1. i - 1 \in 1..Len(t) /\ t[i - 1] = q[i]
        BY <1>1, <1>2, <2>4
      <3> QED BY <2>1, <2>2, <3>1 DEF Settled, t
    <2> QED BY <2>3, <2>4
  <1>6. CASE Quiet(q, 0) /\ Shown(g, s)
    <2>1. Quiet(q, 1) /\ m.kind # "failure"
      BY <1>2, <1>6 DEF Quiet
    <2>2. Quiet(t, 0)
      BY <1>4, <2>1
    <2>3. Shown(h, s)
      BY <1>3, <1>6, <2>1 DEF Handled
    <2> QED BY <2>2, <2>3 DEF Settled, t
  <1> QED BY <1>5, <1>6 DEF Settled

(* The demo announces every stage. *)
LEMMA AllAnnounced == Announced(Q + 10) = STAGES
  <1>1. /\ Q \in Nat /\ Q >= 11 /\ Lead("demo") = 0
        /\ \A i \in 1..10 : Steps("demo")[Q + i] = DemoEnd[i]
    BY DemoSteps, QualificationSteps DEF Lead
  <1>2. /\ Step("demo", Q + 2) = "keypair" /\ Step("demo", Q + 4) = "session"
        /\ Step("demo", Q + 6) = "send" /\ Step("demo", Q + 7) = "readBack"
        /\ Step("demo", Q + 8) = "zeroize"
    BY <1>1 DEF Step, DemoEnd
  <1>3. \A i : StageForProgress(Step("demo", i)) \in STAGES \cup {None}
    BY DEF StageForProgress, STAGES
  <1>4. /\ StageForProgress("keypair") = "keygen" /\ StageForProgress("session") = "session"
        /\ StageForProgress("send") = "transmit" /\ StageForProgress("readBack") = "verify"
        /\ StageForProgress("zeroize") = "zeroize"
    BY DEF StageForProgress, Emergency
  <1>5. Q + 2 \in 2..Q + 10 /\ Q + 4 \in 2..Q + 10 /\ Q + 6 \in 2..Q + 10 /\ Q + 7 \in 2..Q + 10
        /\ Q + 8 \in 2..Q + 10
    BY <1>1
  <1>6. Announced(Q + 10) \subseteq STAGES
    BY <1>3 DEF Announced, STAGES
  <1>7. ASSUME NEW s \in STAGES PROVE s \in Announced(Q + 10)
    <2>1. s = "preflight" \/ \E i \in 2..Q + 10 : s = StageForProgress(Step("demo", i))
      BY <1>2, <1>4, <1>5 DEF STAGES
    <2> QED BY <2>1, StageAssumption DEF Announced, StageAssumption
  <1> QED BY <1>6, <1>7

(* One place further, one announcement more. *)
LEMMA NextAnnounced ==
  ASSUME NEW j \in Int, j >= 1
  PROVE  Announced(j + 1) \subseteq Announced(j) \cup ({StageForProgress(Step("demo", j + 1))} \ {None})
  BY DEF Announced

(* How a program's step changes it. *)
Advances(d, e) ==
  \/ /\ e.rest # <<>> /\ e.outcome \in {"running", "failing"}
     /\ e.owner = d.owner /\ e.flow = d.flow /\ e.data = d.data
     /\ e.outcome = "running" => d.outcome = "running"
     /\ e.flow = "demo" /\ e.outcome = "running" => At(e) = At(d) + 1 /\ Remaining(e)
  \/ /\ e.rest = <<>> /\ e.outcome \in {"PASS", "FAIL"}
     /\ e.flow \in {d.flow, "none"} /\ (e.flow # "none" => e.data = d.data)
     /\ d.flow = "demo" /\ e.outcome = "PASS" =>
          e.flow = "demo" /\ d.outcome = "running" /\ At(d) = Q + 10

(* Every step of a program changes it so. *)
LEMMA StepChanges ==
  ASSUME FlowInv, RunStep
  PROVE  Advances(run, run')
  <1> DEFINE s == Head(run.rest)
  <1>1. run.outcome = "running" \/ run.outcome = "failing"
    BY DEF RunStep, Active
  <1>2. StepKnown(s)
    BY RunStepKnown DEF FlowInv, Plain
  <1>3. PICK r : Kept(run, r) /\ (run' = Returned(r) \/ run' = Raised(r))
    BY <1>2 DEF StepKnown, StepReturns, StepRaises, Learns
  <1>4. /\ DOMAIN r = RunFields /\ r.owner = run.owner /\ r.flow = run.flow /\ r.rest = run.rest
        /\ r.data = run.data /\ r.outcome = run.outcome
    BY <1>3 DEF Kept
  <1>5. ASSUME run.flow = "demo", run.outcome = "running"
        PROVE  /\ Remaining(r) /\ At(r) = At(run)
               /\ Tail(r.rest) = <<>> <=> At(run) = Q + 10
    BY <1>3, <1>5, JudgedPlace DEF Judged, Extra, Keyed
  <1>6. ASSUME NEW o \in {"PASS", "FAIL"}, run' = Ended(r, o),
               o = "PASS" => r.outcome = "running" /\ Tail(r.rest) = <<>>
        PROVE  Advances(run, run')
    <2>1. EndsAs(r, o, run')
      BY <1>4, <1>6, EndedFields
    <2>2. /\ run'.rest = <<>> /\ run'.outcome = o /\ run'.flow \in {run.flow, "none"}
          /\ run'.flow # "none" => run'.data = run.data
      BY <1>4, <2>1 DEF EndsAs
    <2>3. run.flow = "demo" /\ o = "PASS" => run'.flow = "demo"
      BY <1>4, <2>1 DEF EndsAs, Judged
    <2>4. run.flow = "demo" /\ o = "PASS" => At(run) = Q + 10 /\ run.outcome = "running"
      BY <1>4, <1>5, <1>6
    <2> QED BY <1>6, <2>2, <2>3, <2>4 DEF Advances
  <1>7. ASSUME run' = Returned(r) PROVE Advances(run, run')
    <2>1. CASE Tail(r.rest) # <<>>
      <3>1. /\ Continues(r, run') /\ run'.rest = Tail(r.rest) /\ run'.outcome = run.outcome
        BY <1>4, <1>7, <2>1, ReturnedFields
      <3>2. run'.owner = run.owner /\ run'.flow = run.flow /\ run'.data = run.data
        BY <1>4, <3>1 DEF Continues
      <3>3. ASSUME run.flow = "demo", run.outcome = "running"
            PROVE  At(run') = At(run) + 1 /\ Remaining(run')
        <4>1. Remaining(r) /\ At(r) = At(run) /\ r.flow \in Judged
          BY <1>4, <1>5, <3>3 DEF Judged
        <4> QED BY <1>4, <2>1, <3>1, <3>2, <4>1, Onward
      <3> QED BY <1>1, <2>1, <3>1, <3>2, <3>3 DEF Advances
    <2>2. CASE Tail(r.rest) = <<>>
      BY <1>1, <1>4, <1>6, <1>7, <2>2, ReturnedFields
    <2> QED BY <2>1, <2>2
  <1>8. ASSUME run' = Raised(r) PROVE Advances(run, run')
    <2>1. CASE run.outcome = "failing"
      <3>1. Raised(r) = Returned(r)
        BY <1>4, <2>1 DEF Raised
      <3> QED BY <1>7, <1>8, <3>1
    <2>2. CASE run.outcome = "running"
      <3>1. \/ run' = Ended(r, "FAIL")
            \/ /\ Continues(r, run') /\ run'.outcome = "failing"
               /\ run'.rest \in {<<"diagnose", "cleanup">>, <<"cleanup">>}
        BY <1>4, <1>8, <2>2, RaisedFields
      <3>2. CASE run' = Ended(r, "FAIL")
        BY <1>6, <3>2
      <3>3. CASE /\ Continues(r, run') /\ run'.outcome = "failing"
                 /\ run'.rest \in {<<"diagnose", "cleanup">>, <<"cleanup">>}
        <4>1. run'.rest # <<>>
          <5>1. <<"diagnose", "cleanup">> # <<>> /\ <<"cleanup">> # <<>>
            OBVIOUS
          <5> QED BY <3>3, <5>1, Zenon
        <4> QED BY <1>4, <3>3, <4>1 DEF Advances, Continues
      <3> QED BY <3>1, <3>2, <3>3
    <2> QED BY <1>1, <2>1, <2>2
  <1> QED BY <1>3, <1>7, <1>8

(* _start_worker, after the handler has redrawn the screen. *)
Clicked ==
  /\ Screen(gui')
  /\ \/ worker' = worker /\ gui'.refused = TRUE /\ gui'.result = gui.result
     \/ worker' = Worker("opening", "demo", <<Payload[1]>>)
     \/ \E name \in WorkNames \ {"demo"} : worker' = Worker("opening", name, <<>>)

(* A handler that drew a screen and asked for a worker was a click. *)
LEMMA StartScreen ==
  ASSUME NEW STATE g, Screen(g), g.result = gui.result, NEW name, NEW d,
         StartWorker(g, name, d),
         \/ name = "demo" /\ d = <<Payload[1]>>
         \/ name \in WorkNames \ {"demo"} /\ d = <<>>
  PROVE  Clicked
  <1>1. CASE worker.phase # "none"
    <2>1. gui' = [g EXCEPT !.refused = TRUE] /\ worker' = worker
      BY <1>1 DEF StartWorker
    <2> QED BY <2>1 DEF Clicked, Screen, GuiFields
  <1>2. CASE worker.phase = "none"
    <2>1. gui' = SetBusy([g EXCEPT !.result = "RUNNING", !.refused = FALSE], TRUE)
          /\ worker' = Worker("opening", name, d)
      BY <1>2 DEF StartWorker
    <2>2. Screen(gui')
      BY <2>1 DEF SetBusy, Screen, GuiFields
    <2> QED BY <2>1, <2>2 DEF Clicked
  <1> QED BY <1>1, <1>2

(* _reset_stages *)
LEMMA ResetFields ==
  ASSUME NEW g, Screen(g)
  PROVE  Screen(ResetStages(g)) /\ ResetStages(g).result = g.result
  BY DEF ResetStages, Screen, GuiFields

(* A button or F5. *)
LEMMA UserClicks ==
  ASSUME Screen(gui), User
  PROVE  Clicked
  <1>1. "preflight" \in STAGES /\ "zeroize" \in STAGES
    BY DEF STAGES
  <1>2. Screen(ResetStages(gui)) /\ ResetStages(gui).result = gui.result
    BY ResetFields
  <1>3. CASE StartPreflight
    BY <1>3, StartScreen DEF StartPreflight, WorkNames
  <1>4. CASE StartPrepare
    <2> DEFINE g == ActivateStage(ResetStages(gui), "preflight")
    <2>1. Screen(g) /\ g.result = gui.result
      BY <1>1, <1>2, ActivateFields
    <2>2. StartWorker(g, "prepare", <<>>) /\ "prepare" \in WorkNames \ {"demo"}
      BY <1>4 DEF StartPrepare, WorkNames
    <2> HIDE DEF g
    <2> QED BY <2>1, <2>2, StartScreen
  <1>5. CASE StartZeroize
    <2> DEFINE g == ActivateStage(gui, "zeroize")
    <2>1. Screen(g) /\ g.result = gui.result
      BY <1>1, ActivateFields
    <2>2. StartWorker(g, "zeroize", <<>>) /\ "zeroize" \in WorkNames \ {"demo"}
      BY <1>5 DEF StartZeroize, WorkNames
    <2> HIDE DEF g
    <2> QED BY <2>1, <2>2, StartScreen
  <1>6. CASE StartDemo
    <2> DEFINE g == [ResetStages(gui) EXCEPT !.output = "waiting", !.match = "waiting"]
    <2>1. Screen(g) /\ g.result = gui.result
      BY <1>2 DEF Screen, GuiFields
    <2>2. StartWorker(g, "demo", <<Payload[1]>>)
      BY <1>6 DEF StartDemo
    <2> HIDE DEF g
    <2> QED BY <2>1, <2>2, StartScreen
  <1> QED BY <1>3, <1>4, <1>5, <1>6 DEF User

(* The window after a click. *)
LEMMA UserGui ==
  ASSUME GuiInv, User
  PROVE  GuiInv'
  <1>1. Screen(gui) /\ queue' = queue /\ run' = run /\ runs \in Nat
    BY DEF GuiInv, GuiKinds, User
  <1>2. Screen(gui') /\ Clicked
    BY <1>1, UserClicks DEF Clicked
  <1>3. runs' \in Nat /\ Active' = Active
    BY <1>1 DEF User, Active
  <1>4. CASE worker' = worker /\ gui'.refused = TRUE /\ gui'.result = gui.result
    BY <1>1, <1>2, <1>3, <1>4 DEF GuiInv, GuiKinds, ResultShown, StagesShown, Idle
  <1>5. CASE \/ worker' = Worker("opening", "demo", <<Payload[1]>>)
             \/ \E name \in WorkNames \ {"demo"} : worker' = Worker("opening", name, <<>>)
    <2>1. /\ worker'.phase = "opening" /\ worker'.report = worker.report
          /\ worker'.name = "demo" => worker'.data = <<Payload[1]>>
      BY <1>5 DEF Worker
    <2>2. <<Payload[1]>>[1] \in Nat
      BY <1>1 DEF Payload
    <2>3. ~Idle' /\ ~DemoRuns' /\ ~DemoPassed'
      BY <2>1 DEF Idle, DemoRuns, DemoPassed
    <2> QED BY <1>1, <1>2, <1>3, <2>1, <2>2, <2>3 DEF GuiInv, GuiKinds, ResultShown, StagesShown
  <1> QED BY <1>2, <1>4, <1>5 DEF Clicked

(* A message of the worker is one. *)
LEMMA MessageFields ==
  ASSUME worker.name \in WorkNames, NEW kind \in {"progress", "success", "failure"},
         NEW stage \in STAGES \cup {None}, NEW text \in Nat \cup {None},
         kind = "progress" => stage \in STAGES
  PROVE  /\ Message(kind, stage, text) \in Messages /\ Message(kind, stage, text).kind = kind
         /\ Message(kind, stage, text).stage = stage /\ Message(kind, stage, text).text = text
         /\ Message(kind, stage, text).name = worker.name
  BY DEF Message, Messages

(* The worker puts its outcome. *)
LEMMA Reported ==
  ASSUME IInv, GuiInv, worker.phase # "none", NEW kind \in {"success", "failure"},
         NEW text \in Nat \cup {None}, Report(kind, text), gui' = gui, runs' = runs,
         run'.flow = "demo" => run'.data[1] \in Nat,
         worker.name = "demo" /\ kind = "success" /\ ~gui.refused =>
           \A s \in STAGES : Settled(queue, gui, s)
  PROVE  GuiInv'
  <1> DEFINE m == Message(kind, None, text)
  <1>1. m \in Messages /\ m.kind = kind /\ m.name = worker.name
    BY MessageFields DEF IInv, WorkInv
  <1>2. queue' = Append(queue, m) /\ worker' = [worker EXCEPT !.phase = "exiting", !.report = m]
    BY DEF Report
  <1> HIDE DEF m
  <1>3. /\ DOMAIN worker = WorkerFields /\ queue \in Seq(Messages) /\ Screen(gui) /\ runs \in Nat
        /\ worker.name = "demo" => worker.data[1] \in Nat
    BY DEF IInv, WorkInv, GuiInv, GuiKinds
  <1>4. /\ worker'.phase = "exiting" /\ worker'.report = m /\ worker'.name = worker.name
        /\ worker'.data = worker.data
    BY <1>2, <1>3 DEF WorkerFields
  <1>5. /\ queue' \in Seq(Messages) /\ queue' # <<>> /\ Len(queue') = Len(queue) + 1
        /\ queue'[Len(queue) + 1] = m
    BY <1>1, <1>2, <1>3, AppendProperties
  <1>6. GuiKinds'
    BY <1>1, <1>3, <1>4, <1>5 DEF GuiKinds
  <1>7. ResultShown'
    BY <1>4, <1>5 DEF ResultShown
  <1>8. StagesShown'
    <2>1. ~DemoRuns'
      BY <1>4 DEF DemoRuns
    <2>2. ASSUME DemoPassed', ~gui.refused
          PROVE  \A s \in STAGES : Settled(queue', gui', s)
      <3>1. worker.name = "demo" /\ kind = "success"
        BY <1>1, <1>4, <2>2 DEF DemoPassed
      <3>2. \A s \in STAGES : Settled(queue, gui, s)
        BY <2>2, <3>1
      <3>3. \A s \in STAGES : Settled(Append(queue, m), gui, s)
        BY <1>1, <1>3, <3>1, <3>2, SettledAppend
      <3> QED BY <1>2, <3>3
    <2> QED BY <1>5, <2>1, <2>2 DEF StagesShown
  <1> QED BY <1>6, <1>7, <1>8 DEF GuiInv

(* The worker opens the port, or fails to. *)
LEMMA OpenGui ==
  ASSUME IInv, GuiInv, OpenClient
  PROVE  GuiInv'
  <1>1. /\ DOMAIN worker = WorkerFields /\ worker.phase = "opening" /\ worker.name \in WorkNames
        /\ queue \in Seq(Messages) /\ Screen(gui) /\ runs \in Nat
        /\ worker.name = "demo" => worker.data[1] \in Nat
        /\ run.flow = "demo" => run.data[1] \in Nat
        /\ gui' = gui /\ runs' = runs
    BY DEF IInv, WorkInv, GuiInv, GuiKinds, OpenClient
  <1>2. CASE Report("failure", None) /\ run' = run
    BY <1>1, <1>2, Reported
  <1>3. CASE /\ run' = Started("gui", worker.name, Work(worker.name), worker.data)
             /\ worker' = [worker EXCEPT !.phase = "running"]
             /\ queue' = IF worker.name = "demo"
                         THEN Append(queue, Message("progress", "preflight", None)) ELSE queue
    <2> DEFINE m == Message("progress", "preflight", None)
    <2>1. m \in Messages /\ m.kind = "progress" /\ m.stage = "preflight"
      BY <1>1, MessageFields DEF STAGES
    <2>2. queue' = IF worker.name = "demo" THEN Append(queue, m) ELSE queue
      BY <1>3
    <2> HIDE DEF m
    <2>3. /\ worker'.phase = "running" /\ worker'.name = worker.name /\ worker'.data = worker.data
          /\ worker'.report = worker.report
      BY <1>1, <1>3 DEF WorkerFields
    <2>4. /\ run'.outcome = "running" /\ run'.owner = "gui" /\ run'.flow = worker.name
          /\ run'.data = worker.data /\ run'.rest = Work(worker.name)
      BY <1>3 DEF Started
    <2>5. queue' \in Seq(Messages)
      BY <1>1, <2>1, <2>2, AppendProperties
    <2>6. GuiKinds'
      BY <1>1, <2>3, <2>4, <2>5 DEF GuiInv, GuiKinds, Active
    <2>7. ~Idle' /\ ~DemoPassed'
      BY <2>3 DEF Idle, DemoPassed
    <2>8. ASSUME worker.name = "demo"
          PROVE  \A s \in Announced(At(run')) : Settled(queue', gui', s)
      <3>1. run'.rest = Steps("demo") /\ run'.flow = "demo" /\ "demo" \in Judged
        BY <2>4, <2>8 DEF Work, Steps, Judged
      <3>2. At(run') = 1
        BY <3>1, Begun DEF Lead
      <3>3. Announced(At(run')) = {"preflight"}
        BY <3>2 DEF Announced
      <3>4. Settled(Append(queue, m), gui, m.stage)
        BY <1>1, <2>1, SettledAppend
      <3> QED BY <1>1, <2>1, <2>2, <2>8, <3>3, <3>4
    <2> QED BY <2>3, <2>6, <2>7, <2>8 DEF GuiInv, ResultShown, StagesShown, DemoRuns
  <1> QED BY <1>2, <1>3 DEF OpenClient

(* The worker makes a call. *)
LEMMA WorkerGui ==
  ASSUME IInv, GuiInv, WorkerStep
  PROVE  GuiInv'
  <1>1. /\ DOMAIN worker = WorkerFields /\ worker.phase = "running" /\ worker.name \in WorkNames
        /\ queue \in Seq(Messages) /\ Screen(gui) /\ runs \in Nat
        /\ worker.name = "demo" => worker.data[1] \in Nat
        /\ run.flow = "demo" => run.data[1] \in Nat
        /\ run.owner = "gui" /\ run.flow = worker.name
        /\ gui' = gui /\ runs' = runs /\ RunStep /\ FlowInv
    BY DEF IInv, WorkInv, GuiInv, GuiKinds, WorkerStep, RunStep
  <1>2. Advances(run, run')
    BY <1>1, StepChanges
  <1>3. run'.flow = "demo" => run'.data[1] \in Nat
    BY <1>1, <1>2 DEF Advances, WorkNames
  <1>4. ASSUME worker.name = "demo", run.outcome = "running", ~gui.refused
        PROVE  \A s \in Announced(At(run)) : Settled(queue, gui, s)
    BY <1>1, <1>4 DEF GuiInv, StagesShown, DemoRuns
  <1>5. CASE run'.rest = <<>>
    <2> DEFINE kind == IF run'.outcome = "PASS" THEN "success" ELSE "failure"
               text == IF run'.flow = "demo" /\ run'.outcome = "PASS" THEN run'.data[1] ELSE None
    <2>1. Report(kind, text)
      BY <1>5 DEF WorkerStep
    <2>2. kind \in {"success", "failure"} /\ text \in Nat \cup {None}
      BY <1>3
    <2>3. ASSUME worker.name = "demo", kind = "success", ~gui.refused
          PROVE  \A s \in STAGES : Settled(queue, gui, s)
      <3>1. run.outcome = "running" /\ At(run) = Q + 10
        BY <1>1, <1>2, <1>5, <2>3 DEF Advances
      <3> QED BY <1>4, <2>3, <3>1, AllAnnounced
    <2> HIDE DEF kind, text
    <2> QED BY <1>1, <1>3, <2>1, <2>2, <2>3, Reported
  <1>6. CASE run'.rest # <<>>
    <2>1. /\ run'.outcome \in {"running", "failing"} /\ run'.owner = "gui" /\ run'.flow = worker.name
          /\ run'.outcome = "running" => run.outcome = "running"
          /\ run'.flow = "demo" /\ run'.outcome = "running" => At(run') = At(run) + 1 /\ Remaining(run')
      BY <1>1, <1>2, <1>6 DEF Advances
    <2>2. queue' = queue \o Progress /\ worker' = worker
      BY <1>6 DEF WorkerStep
    <2> DEFINE stage == StageForProgress(Head(run'.rest))
               m == Message("progress", stage, None)
    <2>3. stage \in STAGES \cup {None}
      BY DEF StageForProgress, STAGES
    <2>4. \/ run'.flow = "demo" /\ stage # None /\ Progress = <<m>>
          \/ (run'.flow # "demo" \/ stage = None) /\ Progress = <<>>
      BY DEF Progress
    <2> HIDE DEF stage, m
    <2>5. stage # None => /\ m \in Messages /\ m.kind = "progress" /\ m.stage = stage
      <3>1. ASSUME stage # None
            PROVE  /\ Message("progress", stage, None) \in Messages
                   /\ Message("progress", stage, None).kind = "progress"
                   /\ Message("progress", stage, None).stage = stage
        <4>1. /\ worker.name \in WorkNames /\ stage \in STAGES /\ stage \in STAGES \cup {None}
              /\ None \in Nat \cup {None} /\ "progress" \in {"progress", "success", "failure"}
          BY <1>1, <2>3, <3>1
        <4> QED BY <4>1 DEF Message, Messages
      <3> QED BY <3>1 DEF m
    <2>6. \/ run'.flow = "demo" /\ stage # None /\ queue' = Append(queue, m)
          \/ (run'.flow # "demo" \/ stage = None) /\ queue' = queue
      <3>1. queue \in Seq(Messages)
        BY <1>1
      <3>2. queue \o <<>> = queue
        BY <3>1, ConcatEmptySeq
      <3>3. stage # None => queue \o <<m>> = Append(queue, m)
        BY <2>5, <3>1, AppendIsConcat
      <3> QED BY <2>2, <2>4, <3>2, <3>3, Zenon
    <2>7. queue' \in Seq(Messages)
      BY <1>1, <2>5, <2>6, AppendProperties
    <2>8. GuiKinds'
      BY <1>1, <1>3, <2>1, <2>2, <2>7 DEF GuiInv, GuiKinds, Active
    <2>9. ~Idle' /\ ~DemoPassed'
      BY <1>1, <2>2 DEF Idle, DemoPassed
    <2>10. ASSUME worker.name = "demo", run'.outcome = "running", ~gui.refused
           PROVE  \A s \in Announced(At(run')) : Settled(queue', gui', s)
      <3>1. /\ run.outcome = "running" /\ At(run') = At(run) + 1 /\ Remaining(run')
            /\ run'.flow = "demo" /\ run'.flow \in Judged
        BY <2>1, <2>10 DEF Judged
      <3>2. Head(run'.rest) = Step("demo", At(run'))
        BY <3>1, Place
      <3>3. At(run) \in Int /\ At(run) >= 1
        <4>1. Remaining(run) /\ run.flow = "demo" /\ run.flow \in Judged
          BY <1>1, <2>10, <3>1 DEF FlowInv, Underway, Judged
        <4>2. At(run) \in Int /\ Lead(run.flow) + At(run) \in 1..Len(Steps(run.flow))
          BY <4>1, Place
        <4> QED BY <4>1, <4>2 DEF Lead
      <3>4. Announced(At(run')) \subseteq Announced(At(run)) \cup ({stage} \ {None})
        BY <3>1, <3>2, <3>3, NextAnnounced DEF stage
      <3>5. \A s \in Announced(At(run)) : Settled(queue, gui, s)
        BY <1>4, <2>10, <3>1
      <3>6. CASE stage # None /\ queue' = Append(queue, m)
        <4>1. /\ \A s : Settled(queue, gui, s) => Settled(Append(queue, m), gui, s)
              /\ Settled(Append(queue, m), gui, m.stage)
          BY <1>1, <2>5, <3>6, SettledAppend
        <4> QED BY <1>1, <2>5, <3>4, <3>5, <3>6, <4>1
      <3>7. CASE stage = None /\ queue' = queue
        BY <1>1, <3>4, <3>5, <3>7
      <3> QED BY <2>6, <3>1, <3>6, <3>7
    <2> QED BY <1>1, <2>2, <2>8, <2>9, <2>10 DEF GuiInv, ResultShown, StagesShown, DemoRuns
  <1> QED BY <1>5, <1>6

(* The main thread takes a message. *)
LEMMA DrainGui ==
  ASSUME GuiInv, DrainQueue
  PROVE  GuiInv'
  <1> DEFINE m == Head(queue)
             t == Tail(queue)
  <1>1. /\ queue \in Seq(Messages) /\ queue # <<>> /\ Screen(gui) /\ run' = run /\ runs' = runs
        /\ worker' = worker
    BY DEF GuiInv, GuiKinds, DrainQueue
  <1>2. /\ m \in Messages /\ t \in Seq(Messages) /\ Len(t) = Len(queue) - 1
        /\ \A i \in 1..Len(t) : t[i] = queue[i + 1]
    BY <1>1, HeadTailProperties
  <1>3. Len(queue) \in Nat /\ Len(queue) >= 1 /\ m = queue[1]
    BY <1>1, EmptySeq
  <1>4. t = <<>> <=> Len(t) = 0
    <2> HIDE DEF t
    <2> QED BY <1>2, EmptySeq
  <1>5. gui' = Handle(gui, m) /\ queue' = t
    BY DEF DrainQueue
  <1>6. Handled(gui, m, gui')
    BY <1>1, <1>2, <1>5, HandleFields
  <1>7. ASSUME NEW s \in STAGES, Settled(queue, gui, s)
        PROVE  Settled(queue', gui', s)
    BY <1>1, <1>5, <1>6, <1>7, SettledTail
  <1> HIDE DEF m, t
  <1>8. Screen(gui') /\ gui'.refused = gui.refused
    BY <1>6 DEF Handled
  <1>9. GuiKinds'
    BY <1>1, <1>2, <1>5, <1>8 DEF GuiInv, GuiKinds, Active
  <1>10. ASSUME Idle, t = <<>>
         PROVE  m = worker.report /\ m.kind # "progress"
    <2>1. Len(queue) = 1 /\ queue[Len(queue)] = worker.report
      BY <1>1, <1>2, <1>3, <1>4, <1>10 DEF GuiInv, ResultShown
    <2> QED BY <1>3, <1>10, <2>1 DEF GuiInv, GuiKinds, Idle
  <1>11. ResultShown'
    <2>1. ASSUME Idle, t # <<>> PROVE t[Len(t)] = worker.report
      <3>1. Len(t) \in 1..Len(t) /\ t[Len(t)] = queue[Len(queue)]
        BY <1>2, <1>3, <1>4, <2>1
      <3> QED BY <1>1, <2>1, <3>1 DEF GuiInv, ResultShown
    <2>2. ASSUME Idle, t = <<>>
          PROVE  gui'.result = Conclusion(worker.report.name, worker.report.kind)
      BY <1>6, <1>10, <2>2 DEF Handled
    <2> QED BY <1>1, <1>5, <2>1, <2>2 DEF ResultShown, Idle
  <1>12. StagesShown'
    <2>1. ASSUME DemoRuns, ~gui.refused
          PROVE  \A s \in Announced(At(run)) : Settled(queue', gui', s)
      <3>1. \A s \in Announced(At(run)) : s \in STAGES
        <4>1. \A i : StageForProgress(Step("demo", i)) \in STAGES \cup {None}
          BY DEF StageForProgress, STAGES
        <4> QED BY <4>1 DEF Announced, STAGES
      <3> QED BY <1>7, <2>1, <3>1 DEF GuiInv, StagesShown
    <2>2. ASSUME DemoPassed, ~gui.refused
          PROVE  \A s \in STAGES : Settled(queue', gui', s)
      BY <1>7, <2>2 DEF GuiInv, StagesShown
    <2>3. ASSUME DemoPassed, ~gui.refused, t = <<>>
          PROVE  /\ gui'.output = worker.report.text /\ gui'.match = "match"
                 /\ \A s \in STAGES : gui'.stages[s] = "pass"
      <3>1. m = worker.report /\ m.kind = "success" /\ m.name = "demo"
        BY <1>10, <2>3 DEF DemoPassed
      <3>2. Len(queue) = 1
        BY <1>2, <1>3, <1>4, <2>3
      <3>3. ASSUME NEW s \in STAGES PROVE Shown(gui, s)
        <4>1. Settled(queue, gui, s)
          BY <2>3 DEF GuiInv, StagesShown
        <4>2. ASSUME NEW i \in 1..Len(queue) PROVE queue[i].kind # "progress"
          <5>1. i = 1
            BY <3>2
          <5> QED BY <1>3, <3>1, <5>1
        <4> QED BY <4>1, <4>2 DEF Settled
      <3> QED BY <1>6, <3>1, <3>3 DEF Handled
    <2> QED BY <1>1, <1>5, <1>8, <2>1, <2>2, <2>3 DEF StagesShown, DemoRuns, DemoPassed, Idle
  <1> QED BY <1>9, <1>11, <1>12 DEF GuiInv

(* Neither the window nor the worker's program changes. *)
LEMMA OutsideGui ==
  ASSUME GuiInv, gui' = gui, worker' = worker, queue' = queue, runs' \in Nat,
         run'.flow = "demo" => run'.data[1] \in Nat,
         worker.phase = "running" =>
           /\ run'.outcome = run.outcome /\ run'.owner = run.owner /\ run'.flow = run.flow
           /\ run'.rest = run.rest
  PROVE  GuiInv'
  <1>1. worker.phase = "running" => Active' = Active /\ At(run') = At(run)
    BY DEF Active, At
  <1>2. GuiKinds'
    BY <1>1 DEF GuiInv, GuiKinds
  <1>3. ResultShown'
    BY DEF GuiInv, ResultShown, Idle
  <1>4. StagesShown'
    BY <1>1 DEF GuiInv, StagesShown, DemoRuns, DemoPassed, Idle
  <1> QED BY <1>2, <1>3, <1>4 DEF GuiInv

(* The command line and the board leave the window alone. *)
LEMMA OthersGui ==
  ASSUME IInv, GuiInv, StartCli \/ CliStep \/ KillCli \/ BoardNext, UNCHANGED guiVars
  PROVE  GuiInv'
  <1>1. /\ gui' = gui /\ worker' = worker /\ queue' = queue /\ runs \in Nat
        /\ run.flow = "demo" => run.data[1] \in Nat
        /\ worker.phase = "running" => Active /\ run.owner = "gui"
        /\ DOMAIN run = RunFields /\ FlowInv
    BY DEF guiVars, GuiInv, GuiKinds, IInv, FlowInv
  <1>2. CASE StartCli
    <2>1. PICK c \in Commands : run'.flow = c
      BY <1>2 DEF StartCli, Started
    <2>2. c # "demo"
      BY DEF Commands, LegacyCommands, FullCommands
    <2>3. runs' \in Nat /\ ~Active
      BY <1>1, <1>2 DEF StartCli
    <2> QED BY <1>1, <2>1, <2>2, <2>3, OutsideGui
  <1>3. CASE CliStep
    <2>1. Advances(run, run') /\ run.owner = "cli" /\ runs' = runs
      BY <1>1, <1>3, StepChanges DEF CliStep, RunStep
    <2>2. run'.flow = "demo" => run'.data[1] \in Nat
      BY <1>1, <2>1 DEF Advances
    <2> QED BY <1>1, <2>1, <2>2, OutsideGui
  <1>4. CASE KillCli
    <2>1. run'.flow = "none" /\ run.owner = "cli" /\ runs' = runs
      BY <1>4 DEF KillCli, NoRun, Started
    <2> QED BY <1>1, <2>1, OutsideGui
  <1>5. CASE BoardNext
    <2>1. runs' = runs /\ (run' = run \/ \E x : run' = [run EXCEPT !.spi = x])
      BY <1>5 DEF BoardNext, StartupDone, ResetBoard, ContainFault, SpiFails, PeriodicProbe
    <2>2. /\ run'.outcome = run.outcome /\ run'.owner = run.owner /\ run'.flow = run.flow
          /\ run'.rest = run.rest /\ run'.data = run.data
      BY <1>1, <2>1 DEF RunFields
    <2>3. runs' \in Nat /\ (run'.flow = "demo" => run'.data[1] \in Nat)
      BY <1>1, <2>1, <2>2
    <2>4. gui' = gui /\ worker' = worker /\ queue' = queue
      BY <1>1
    <2> QED BY <2>2, <2>3, <2>4, OutsideGui, ZenonT(60)
  <1> QED BY <1>2, <1>3, <1>4, <1>5

(* The window's invariant is kept. *)
LEMMA GuiInvNext ==
  ASSUME IInv, GuiInv, [Next]_vars
  PROVE  GuiInv'
  <1>1. CASE User
    BY <1>1, UserGui
  <1>2. CASE OpenClient
    BY <1>2, OpenGui
  <1>3. CASE WorkerStep
    BY <1>3, WorkerGui
  <1>4. CASE ThreadExit
    <2>1. /\ worker'.phase = "none" /\ worker'.report = worker.report /\ worker.phase = "exiting"
          /\ gui' = gui /\ queue' = queue /\ run' = run /\ runs' = runs
      BY <1>4 DEF ThreadExit, Worker
    <2>2. Idle' = Idle /\ DemoPassed' = DemoPassed /\ ~DemoRuns'
      BY <2>1 DEF Idle, DemoPassed, DemoRuns
    <2>3. GuiKinds'
      BY <2>1 DEF GuiInv, GuiKinds
    <2>4. ResultShown' /\ StagesShown'
      BY <2>1, <2>2 DEF GuiInv, ResultShown, StagesShown
    <2> QED BY <2>3, <2>4 DEF GuiInv
  <1>5. CASE DrainQueue
    BY <1>5, DrainGui
  <1>6. CASE CloseDialog
    <2>1. worker' = worker /\ queue' = queue /\ run' = run /\ runs' = runs /\ Screen(gui)
      BY <1>6 DEF CloseDialog, GuiInv, GuiKinds
    <2>2. /\ Screen(gui') /\ gui'.refused = gui.refused /\ gui'.result = gui.result
          /\ gui'.output = gui.output /\ gui'.match = gui.match /\ gui'.stages = gui.stages
          /\ gui'.current = gui.current
      BY <1>6, <2>1 DEF CloseDialog, SetBusy, Screen, GuiFields
    <2>3. \A s \in STAGES : Settled(queue, gui, s) => Settled(queue', gui', s)
      BY <2>1, <2>2 DEF Settled, Shown
    <2>4. GuiKinds' /\ ResultShown'
      BY <2>1, <2>2 DEF GuiInv, GuiKinds, ResultShown, Idle, Active
    <2>5. \A s \in Announced(At(run)) : Settled(queue, gui, s) => Settled(queue', gui', s)
      BY <2>1, <2>2 DEF Settled, Shown
    <2>6. StagesShown'
      BY <2>1, <2>2, <2>3, <2>5 DEF GuiInv, StagesShown, DemoRuns, DemoPassed, Idle
    <2> QED BY <2>4, <2>6 DEF GuiInv
  <1>7. CASE CloseWindow
    <2>1. /\ worker'.phase = "none" /\ worker'.report = None /\ queue' = <<>> /\ gui' = Window
          /\ run'.flow = "none" /\ runs' = runs
      BY <1>7 DEF CloseWindow, NoWorker, NoRun, Started
    <2>2. Screen(gui')
      BY <2>1 DEF Window, Screen, GuiFields
    <2>3. queue' \in Seq(Messages)
      BY <2>1, EmptySeq
    <2>4. GuiKinds'
      BY <2>1, <2>2, <2>3 DEF GuiInv, GuiKinds
    <2> QED BY <2>1, <2>4 DEF GuiInv, ResultShown, StagesShown, Idle, DemoRuns, DemoPassed
  <1>8. CASE (StartCli \/ CliStep \/ KillCli \/ BoardNext) /\ UNCHANGED guiVars
    BY <1>8, OthersGui
  <1>9. CASE UNCHANGED vars
    <2>1. gui' = gui /\ worker' = worker /\ queue' = queue /\ run' = run /\ runs' = runs
      BY <1>9 DEF vars
    <2> QED BY <2>1, OutsideGui DEF GuiInv, GuiKinds
  <1> QED BY <1>1, <1>2, <1>3, <1>4, <1>5, <1>6, <1>7, <1>8, <1>9 DEF Next

(* The window's invariant holds initially. *)
LEMMA GuiInvInit ==
  ASSUME Init
  PROVE  GuiInv
  <1>1. /\ run.flow = "none" /\ runs = 0 /\ gui = Window /\ queue = <<>>
        /\ worker.phase = "none" /\ worker.report = None
    BY DEF Init, FlowInit, NoRun, Started, NoWorker
  <1>2. Screen(gui) /\ queue \in Seq(Messages)
    BY <1>1, EmptySeq DEF Window, Screen, GuiFields
  <1> QED BY <1>1, <1>2 DEF GuiInv, GuiKinds, ResultShown, StagesShown, Idle, DemoRuns, DemoPassed

(* Whatever is clicked while a worker runs and in whatever order its        *)
(* messages, its end and the clicks come, the window shows the last         *)
(* worker's outcome once its messages are handled; and after a passed demo  *)
(* that no refused click redrew, its plaintext, the match and six passed    *)
(* stages.                                                                  *)
THEOREM DisplayTheorem == Spec => []DisplayTruthful
  <1>1. Init => IInv /\ GuiInv
    BY IInvInit, GuiInvInit
  <1>2. (IInv /\ GuiInv) /\ [Next]_vars => (IInv /\ GuiInv)'
    BY IInvNext, GuiInvNext
  <1>3. IInv /\ GuiInv => DisplayTruthful
    BY DEF GuiInv, ResultShown, StagesShown, Idle, DemoPassed, DisplayTruthful
  <1> QED BY <1>1, <1>2, <1>3, PTL DEF Spec

=============================================================================
