----------------------------- MODULE KnockProofs ------------------------------
(***************************************************************************)
(* Proofs about Knock, for every value of its constants.                   *)
(***************************************************************************)
EXTENDS Knock, FiniteSetTheorems, TLAPS

(* A session, and a function of it that waits. *)
RecordOK(r) ==
  /\ r \in Knock
  /\ r.timer \/ r.beat \/ r.tail => r.status = "open"
  /\ r.status = "open" /\ r.login # AnyAddr => ~r.timer /\ ~r.tail
  /\ r.status = "open" => r.ports # {}
  /\ r.status \in {"new", "opening"} => r.login = AnyAddr

CallOK(r, k, c) ==
  /\ c \in Call
  /\ c.step # "none" => c.todo # {} /\ c.todo \subseteq r.ports /\ r.status # "new"
  /\ c.step \in {"open", "undo"} => k = 1 /\ r.status = "opening"
  /\ c.step \in {"narrow", "rollback", "drop", "close"} => r.status \in {"open", "closed"}
  /\ c.step \in {"narrow", "rollback", "drop"} => c.addr \in Addr
  /\ c.step = "close" => ~r.timer /\ ~r.beat /\ ~r.tail

(* It is being closed, or has its poller, and its timer until the login. *)
EndOK(r, c) ==
  r.status = "open" => \/ \E k \in Lane : c[k].step = "close"
                       \/ r.beat /\ (r.login = AnyAddr => r.timer)

Sessions ==
  /\ knock \in [Session -> Knock]
  /\ calls \in [Session -> [Lane -> Call]]
  /\ \A s \in Session :
       /\ RecordOK(knock[s])
       /\ EndOK(knock[s], calls[s])
       /\ \A k \in Lane : CallOK(knock[s], k, calls[s][k])

Rest ==
  /\ rules \in [Port \X Source -> Nat]
  /\ file \in [ip : Addr, fresh : BOOLEAN] \cup {NoFile}
  /\ phase \in {"up", "closing", "closed", "down"}
  /\ visited \in SUBSET Session
  /\ failures \in Nat /\ beats \in Nat /\ ends \in Nat
  /\ raced \in SUBSET Session

LEMMA InvType == Rest /\ Sessions => TypeOK
BY DEF Rest, Sessions, TypeOK, RecordOK, CallOK

LEMMA InvEnd == Rest /\ Sessions => SessionHasEnd
BY KnockAssumption DEF Sessions, SessionHasEnd, EndOK, Waiting

LEMMA NoCallOK ==
  ASSUME NEW r, NEW k, NEW c \in Call, c.step = "none"
  PROVE  CallOK(r, k, c)
BY DEF CallOK

LEMMA InitInv == Init => Rest /\ Sessions
<1> SUFFICES ASSUME Init PROVE Rest /\ Sessions OBVIOUS
<1>1. RecordOK(NewKnock) BY DEF RecordOK, NewKnock, Knock, Source
<1>2. NoCall \in Call /\ NoCall.step = "none" BY DEF NoCall, Call, Source
<1>3. NewKnock.status # "open" BY DEF NewKnock
<1>6. Sessions BY <1>1, <1>2, <1>3, NoCallOK DEF Init, Sessions, RecordOK, EndOK
<1>4. Rest BY DEF Init, Rest
<1>5. QED BY <1>6, <1>4

(***************************************************************************)
(* Calls and ports.                                                        *)
(***************************************************************************)
LEMMA PortFact ==
  ASSUME Sessions, NEW s \in Session, NEW k \in Lane, calls[s][k].step # "none"
  PROVE  PortOf(s, k) \in calls[s][k].todo /\ PortOf(s, k) \in Port
<1>1. CallOK(knock[s], k, calls[s][k]) /\ knock[s] \in Knock BY DEF Sessions
<1>2. calls[s][k].todo # {} /\ calls[s][k].todo \subseteq knock[s].ports BY <1>1 DEF CallOK
<1>3. knock[s].ports \subseteq Port BY <1>1 DEF Knock
<1>4. QED BY <1>2, <1>3 DEF PortOf

LEMMA RulesType ==
  ASSUME Rest, NEW p \in Port, NEW a \in Source, NEW o \in Outcome,
         OpenPort(p, a, o) \/ ClosePort(p, a, o)
  PROVE  rules' \in [Port \X Source -> Nat] /\ failures' \in Nat
<1>1. failures' \in Nat BY DEF OpenPort, ClosePort, Answer, Rest
<1>2. <<p, a>> \in Port \X Source OBVIOUS
<1>3. rules[<<p, a>>] \in Nat BY <1>2 DEF Rest
<1>4. CASE OpenPort(p, a, o) BY <1>1, <1>3, <1>4 DEF OpenPort, Rest
<1>5. CASE ClosePort(p, a, o)
  <2>1. rules[<<p, a>>] # 0 => rules[<<p, a>>] - 1 \in Nat BY <1>3
  <2>2. QED BY <1>1, <1>5, <2>1 DEF ClosePort, Rest
<1>6. QED BY <1>1, <1>4, <1>5

(* A step that changes one session and one function of it. *)
LEMMA OneSession ==
  ASSUME Sessions, NEW s \in Session, NEW k \in Lane, NEW r, NEW d,
         knock' = [knock EXCEPT ![s] = r],
         calls' = [calls EXCEPT ![s] = [calls[s] EXCEPT ![k] = d]],
         RecordOK(r), CallOK(r, k, d), EndOK(r, [calls[s] EXCEPT ![k] = d]),
         \A j \in Lane \ {k} : CallOK(r, j, calls[s][j])
  PROVE  Sessions'
<1> DEFINE c == [calls[s] EXCEPT ![k] = d]
<1>1. c \in [Lane -> Call] BY DEF Sessions, CallOK
<1>2. \A j \in Lane : CallOK(r, j, c[j]) BY DEF Sessions
<1>3. r \in Knock BY DEF RecordOK
<1>4. EndOK(r, c) OBVIOUS
<1>5. calls' = [calls EXCEPT ![s] = c] OBVIOUS
<1> HIDE DEF c
<1>6. knock' \in [Session -> Knock] /\ calls' \in [Session -> [Lane -> Call]]
  BY <1>1, <1>3, <1>5 DEF Sessions
<1>7. knock'[s] = r /\ calls'[s] = c BY <1>5 DEF Sessions
<1>8. \A t \in Session \ {s} : knock'[t] = knock[t] /\ calls'[t] = calls[t]
  BY <1>5 DEF Sessions
<1>9. QED BY <1>2, <1>4, <1>6, <1>7, <1>8 DEF Sessions

LEMMA SameRecord ==
  ASSUME Sessions, NEW s \in Session, NEW k \in Lane, NEW d, UNCHANGED knock,
         calls' = [calls EXCEPT ![s] = [calls[s] EXCEPT ![k] = d]],
         CallOK(knock[s], k, d), calls[s][k].step # "close"
  PROVE  Sessions'
<1>1. knock' = [knock EXCEPT ![s] = knock[s]] BY DEF Sessions
<1>2. EndOK(knock[s], [calls[s] EXCEPT ![k] = d]) BY DEF Sessions, EndOK
<1>3. QED BY <1>1, <1>2, OneSession DEF Sessions

LEMMA AwaitFact ==
  ASSUME Sessions, NEW s \in Session, NEW k \in Lane, NEW d, Await(s, k, d)
  PROVE  calls' = [calls EXCEPT ![s] = [calls[s] EXCEPT ![k] = d]]
BY DEF Await, Sessions

(* What a function goes on as, with a port done. *)
LEMMA NextPortFact ==
  ASSUME Sessions, NEW s \in Session, NEW k \in Lane, calls[s][k].step # "none",
         NEW last, NextPort(s, k, last)
  PROVE  \E d : /\ calls' = [calls EXCEPT ![s] = [calls[s] EXCEPT ![k] = d]]
                /\ IF IsLast(s, k) THEN d = last
                   ELSE CallOK(knock[s], k, d) /\ d.step = calls[s][k].step
<1> DEFINE c == calls[s][k]
           e == [c EXCEPT !.todo = @ \ {PortOf(s, k)}]
<1>1. CallOK(knock[s], k, c) /\ c \in Call BY DEF Sessions, CallOK
<1>2. PortOf(s, k) \in c.todo BY PortFact
<1>3. CASE IsLast(s, k) BY <1>3, AwaitFact DEF NextPort
<1>4. CASE ~IsLast(s, k)
  <2>1. c.todo \ {PortOf(s, k)} # {} BY <1>2, <1>4 DEF IsLast
  <2>2. e.todo = c.todo \ {PortOf(s, k)} /\ e.step = c.step /\ e.addr = c.addr /\ e \in Call
    BY <1>1 DEF Call
  <2>3. CallOK(knock[s], k, e) BY <1>1, <2>1, <2>2 DEF CallOK
  <2>4. Await(s, k, e) BY <1>4 DEF NextPort
  <2>5. calls' = [calls EXCEPT ![s] = [calls[s] EXCEPT ![k] = e]] BY <2>4, AwaitFact
  <2>6. QED BY <1>4, <2>2, <2>3, <2>5
<1>5. QED BY <1>3, <1>4

(***************************************************************************)
(* The callbacks that start a function.                                    *)
(***************************************************************************)
LEMMA BeginFact ==
  ASSUME Sessions, Rest, NEW s \in Session, NEW k \in Lane, NEW d, Begin(s, k, d)
  PROVE  /\ calls' = [calls EXCEPT ![s] = [calls[s] EXCEPT ![k] = d]]
         /\ calls[s][k].step = "none"
         /\ raced' \in SUBSET Session
BY AwaitFact DEF Begin, Waiting, Rest

LEMMA ExecuteStep ==
  ASSUME Sessions, Rest, NEW s \in Session, NEW P \in PortSets, NEW a \in Sources,
         Execute(s, P, a)
  PROVE  Sessions' /\ Rest'
<1> DEFINE r == [NewKnock EXCEPT !.status = "opening", !.ports = P, !.source = a]
           d == [step |-> "open", todo |-> P, addr |-> a]
<1>1. P \in SUBSET Port /\ P # {} /\ a \in Source BY KnockAssumption DEF Source
<1>2. 1 \in Lane BY KnockAssumption DEF Lane
<1>3. /\ calls' = [calls EXCEPT ![s] = [calls[s] EXCEPT ![1] = d]] /\ raced' \in SUBSET Session
  BY <1>2, BeginFact DEF Execute
<1>4. knock' = [knock EXCEPT ![s] = r] BY DEF Execute
<1>5. RecordOK(r) BY <1>1 DEF RecordOK, NewKnock, Knock, Source
<1>6. CallOK(r, 1, d) BY <1>1 DEF CallOK, Call, NewKnock
<1>7. r.status = "opening" BY DEF NewKnock
<1>8. \A j \in Lane : calls[s][j].step = "none" /\ calls[s][j] \in Call
  BY DEF Execute, Sessions, CallOK, Call
<1>9. \A j \in Lane : CallOK(r, j, calls[s][j]) BY <1>8, NoCallOK
<1>10. EndOK(r, [calls[s] EXCEPT ![1] = d]) BY <1>7 DEF EndOK
<1> HIDE DEF r, d
<1>11. Sessions' BY <1>2, <1>3, <1>4, <1>5, <1>6, <1>9, <1>10, OneSession
<1>12. QED BY <1>3, <1>11 DEF Execute, Rest, countVars

LEMMA BeginNarrowStep ==
  ASSUME Sessions, Rest, NEW s \in Session, NEW k \in Lane, NEW ip \in Addr,
         BeginNarrow(s, k, ip), UNCHANGED knock
  PROVE  Sessions' /\ raced' \in SUBSET Session
<1> DEFINE d == [step |-> "narrow", todo |-> knock[s].ports, addr |-> ip]
<1>1. /\ calls' = [calls EXCEPT ![s] = [calls[s] EXCEPT ![k] = d]]
      /\ calls[s][k].step = "none" /\ raced' \in SUBSET Session
  BY BeginFact DEF BeginNarrow
<1>2. knock[s].status = "open" /\ RecordOK(knock[s]) BY DEF BeginNarrow, Sessions
<1>3. CallOK(knock[s], k, d) BY <1>2 DEF CallOK, RecordOK, Call, Knock, Source
<1> HIDE DEF d
<1>4. QED BY <1>1, <1>3, SameRecord

LEMMA BeginCloseStep ==
  ASSUME Sessions, Rest, NEW s \in Session, NEW k \in Lane, BeginClose(s, k)
  PROVE  Sessions' /\ raced' \in SUBSET Session
<1> DEFINE r == [knock[s] EXCEPT !.timer = FALSE, !.beat = FALSE, !.tail = FALSE]
           d == [step |-> "close", todo |-> knock[s].ports, addr |-> CloseSource(s)]
           c == [calls[s] EXCEPT ![k] = d]
<1>1. /\ calls' = [calls EXCEPT ![s] = c] /\ raced' \in SUBSET Session
  BY BeginFact DEF BeginClose
<1>2. knock[s].status = "open" /\ RecordOK(knock[s]) /\ knock[s] \in Knock
  BY DEF BeginClose, Sessions
<1>3. knock' = [knock EXCEPT ![s] = r] BY <1>2 DEF BeginClose, Sessions, Knock
<1>4. r \in Knock /\ r.status = "open" /\ r.ports = knock[s].ports /\ r.login = knock[s].login
      /\ ~r.timer /\ ~r.beat /\ ~r.tail
  BY <1>2 DEF Knock
<1>5. RecordOK(r) BY <1>2, <1>4 DEF RecordOK
<1>6. d \in Call BY <1>2 DEF Call, CloseSource, Knock
<1>7. CallOK(r, k, d) BY <1>2, <1>4, <1>6 DEF CallOK, RecordOK
<1>8. \A j \in Lane : CallOK(r, j, calls[s][j])
  BY <1>2, <1>4 DEF Sessions, CallOK
<1>9. c[k].step = "close" BY DEF Sessions
<1>10. EndOK(r, c) BY <1>9 DEF EndOK
<1> HIDE DEF r, d
<1>11. QED BY <1>1, <1>3, <1>5, <1>7, <1>8, <1>10, OneSession

(***************************************************************************)
(* The answers of the root agent.                                          *)
(***************************************************************************)
LEMMA WaitFact ==
  ASSUME Sessions, NEW s \in Session, NEW k \in Lane, calls[s][k].step # "none"
  PROVE  /\ CallOK(knock[s], k, calls[s][k]) /\ calls[s][k] \in Call
         /\ RecordOK(knock[s]) /\ knock[s] \in Knock
         /\ PortOf(s, k) \in Port /\ knock[s].source \in Source /\ calls[s][k].addr \in Source
         /\ knock[s].ports # {} /\ knock[s].ports \subseteq Port
<1>1. CallOK(knock[s], k, calls[s][k]) /\ RecordOK(knock[s]) BY DEF Sessions
<1>2. calls[s][k] \in Call /\ knock[s] \in Knock BY <1>1 DEF CallOK, RecordOK
<1>3. PortOf(s, k) \in Port BY PortFact
<1>4. knock[s].source \in Source /\ calls[s][k].addr \in Source /\ knock[s].ports \subseteq Port
  BY <1>2 DEF Knock, Call
<1>5. knock[s].ports # {} BY <1>1 DEF CallOK
<1>6. QED BY <1>1, <1>2, <1>3, <1>4, <1>5

LEMMA NoneFact == NoCall \in Call /\ NoCall.step = "none"
BY DEF NoCall, Call, Source

LEMMA OneIsLane == 1 \in Lane
BY KnockAssumption DEF Lane

LEMMA OpenStepInv ==
  ASSUME Sessions, Rest, NEW s \in Session, NEW o \in Outcome, OpenStep(s, o)
  PROVE  Sessions' /\ Rest'
<1>1. calls[s][1].step = "open" BY DEF OpenStep, Waiting
<1>2. /\ CallOK(knock[s], 1, calls[s][1]) /\ calls[s][1] \in Call
      /\ RecordOK(knock[s]) /\ knock[s] \in Knock
      /\ PortOf(s, 1) \in Port /\ knock[s].source \in Source
      /\ knock[s].ports # {} /\ knock[s].ports \subseteq Port
  BY <1>1, OneIsLane, WaitFact
<1>3. rules' \in [Port \X Source -> Nat] /\ failures' \in Nat
  BY <1>2, RulesType DEF OpenStep
<1>4. file' \in {file, NoFile} BY DEF OpenStep
<1>5. Rest' BY <1>3, <1>4 DEF OpenStep, Rest
<1>6. knock[s].status = "opening" /\ knock[s].login = AnyAddr
  BY <1>1, <1>2 DEF CallOK, RecordOK
<1>7. CASE o # "ok"
  <2> DEFINE d == [calls[s][1] EXCEPT !.step = "undo", !.todo = knock[s].ports]
  <2>1. d \in Call /\ d.step = "undo" /\ d.todo = knock[s].ports BY <1>2 DEF Call
  <2>2. CallOK(knock[s], 1, d) BY <1>2, <1>6, <2>1 DEF CallOK
  <2>3. Await(s, 1, d) /\ UNCHANGED knock BY <1>7 DEF OpenStep
  <2> HIDE DEF d
  <2>4. calls' = [calls EXCEPT ![s] = [calls[s] EXCEPT ![1] = d]]
    BY <2>3, OneIsLane, AwaitFact
  <2>5. Sessions' BY <1>1, <2>2, <2>3, <2>4, OneIsLane, SameRecord
  <2>6. QED BY <1>5, <2>5
<1>8. CASE o = "ok"
  <2>1. NextPort(s, 1, NoCall) BY <1>8 DEF OpenStep
  <2>2. PICK d : /\ calls' = [calls EXCEPT ![s] = [calls[s] EXCEPT ![1] = d]]
                 /\ IF IsLast(s, 1) THEN d = NoCall
                    ELSE CallOK(knock[s], 1, d) /\ d.step = calls[s][1].step
    BY <1>1, <2>1, OneIsLane, NextPortFact
  <2>3. CASE ~IsLast(s, 1)
    <3>1. UNCHANGED knock BY <1>8, <2>3 DEF OpenStep
    <3>2. QED BY <1>1, <1>5, <2>2, <2>3, <3>1, OneIsLane, SameRecord
  <2>4. CASE IsLast(s, 1)
    <3> DEFINE w == Ssh \in knock[s].ports
               r == [knock[s] EXCEPT !.status = "open", !.timer = TRUE, !.beat = TRUE,
                                     !.tail = w]
    <3>1. knock' = [knock EXCEPT ![s] = r]
      BY <1>2, <1>8, <2>4 DEF OpenStep, Sessions, Knock
    <3>11. w \in BOOLEAN OBVIOUS
    <3> HIDE DEF w
    <3>2. /\ r \in Knock /\ r.status = "open" /\ r.timer /\ r.beat
          /\ r.login = knock[s].login /\ r.ports = knock[s].ports
      BY <1>2, <3>11 DEF Knock
    <3>3. RecordOK(r) BY <1>2, <1>6, <3>2 DEF RecordOK
    <3>4. d = NoCall BY <2>2, <2>4
    <3>5. CallOK(r, 1, d) BY <3>4, NoneFact, NoCallOK
    <3>6. \A j \in Lane \ {1} : calls[s][j].step = "none" /\ calls[s][j] \in Call
      BY <1>6 DEF Sessions, CallOK, Call
    <3>7. \A j \in Lane \ {1} : CallOK(r, j, calls[s][j]) BY <3>6, NoCallOK
    <3>8. EndOK(r, [calls[s] EXCEPT ![1] = d]) BY <3>2 DEF EndOK
    <3> HIDE DEF r
    <3>9. Sessions' BY <2>2, <3>1, <3>3, <3>5, <3>7, <3>8, OneIsLane, OneSession
    <3>10. QED BY <1>5, <3>9
  <2>5. QED BY <2>3, <2>4
<1>9. QED BY <1>7, <1>8

LEMMA UndoStepInv ==
  ASSUME Sessions, Rest, NEW s \in Session, NEW o \in Outcome, UndoStep(s, o)
  PROVE  Sessions' /\ Rest'
<1>1. calls[s][1].step = "undo" BY DEF UndoStep, Waiting
<1>2. /\ CallOK(knock[s], 1, calls[s][1]) /\ RecordOK(knock[s]) /\ knock[s] \in Knock
      /\ PortOf(s, 1) \in Port /\ knock[s].source \in Source
  BY <1>1, OneIsLane, WaitFact
<1>3. rules' \in [Port \X Source -> Nat] /\ failures' \in Nat
  BY <1>2, RulesType DEF UndoStep
<1>4. Rest' BY <1>3 DEF UndoStep, Rest
<1>5. knock[s].status = "opening" BY <1>1, <1>2 DEF CallOK
<1>6. PICK d : /\ calls' = [calls EXCEPT ![s] = [calls[s] EXCEPT ![1] = d]]
               /\ IF IsLast(s, 1) THEN d = NoCall
                  ELSE CallOK(knock[s], 1, d) /\ d.step = calls[s][1].step
  BY <1>1, OneIsLane, NextPortFact DEF UndoStep
<1>7. CASE ~IsLast(s, 1)
  <2>1. UNCHANGED knock BY <1>7 DEF UndoStep
  <2>2. QED BY <1>1, <1>4, <1>6, <1>7, <2>1, OneIsLane, SameRecord
<1>8. CASE IsLast(s, 1)
  <2> DEFINE r == [knock[s] EXCEPT !.status = "closed"]
  <2>1. knock' = [knock EXCEPT ![s] = r] BY <1>8 DEF UndoStep, Sessions
  <2>2. /\ r \in Knock /\ r.status = "closed"
        /\ r.timer = knock[s].timer /\ r.beat = knock[s].beat /\ r.tail = knock[s].tail
    BY <1>2 DEF Knock
  <2>3. RecordOK(r) BY <1>2, <1>5, <2>2 DEF RecordOK
  <2>4. CallOK(r, 1, d) BY <1>6, <1>8, NoneFact, NoCallOK
  <2>5. \A j \in Lane \ {1} : calls[s][j].step = "none" /\ calls[s][j] \in Call
    BY <1>5 DEF Sessions, CallOK, Call
  <2>6. \A j \in Lane \ {1} : CallOK(r, j, calls[s][j]) BY <2>5, NoCallOK
  <2>7. EndOK(r, [calls[s] EXCEPT ![1] = d]) BY <2>2 DEF EndOK
  <2> HIDE DEF r
  <2>8. Sessions' BY <1>6, <2>1, <2>3, <2>4, <2>6, <2>7, OneIsLane, OneSession
  <2>9. QED BY <1>4, <2>8
<1>9. QED BY <1>7, <1>8

LEMMA NarrowStepInv ==
  ASSUME Sessions, Rest, NEW s \in Session, NEW k \in Lane, NEW o \in Outcome,
         NarrowStep(s, k, o)
  PROVE  Sessions' /\ Rest'
<1> DEFINE c == calls[s][k]
<1>1. c.step = "narrow" BY DEF NarrowStep, Waiting
<1>2. /\ CallOK(knock[s], k, c) /\ c \in Call
      /\ PortOf(s, k) \in Port /\ c.addr \in Source
      /\ knock[s].ports # {} /\ knock[s].ports \subseteq Port
  BY <1>1, WaitFact
<1>3. rules' \in [Port \X Source -> Nat] /\ failures' \in Nat
  BY <1>2, RulesType DEF NarrowStep
<1>4. Rest' BY <1>3 DEF NarrowStep, Rest
<1>5. c.addr \in Addr /\ knock[s].status \in {"open", "closed"}
  BY <1>1, <1>2 DEF CallOK
<1>6. \E d : /\ calls' = [calls EXCEPT ![s] = [calls[s] EXCEPT ![k] = d]]
             /\ CallOK(knock[s], k, d)
  <2>1. CASE o = "ok"
    <3> DEFINE drop == [c EXCEPT !.step = "drop", !.todo = knock[s].ports]
    <3>1. drop \in Call /\ drop.step = "drop" /\ drop.todo = knock[s].ports
          /\ drop.addr = c.addr
      BY <1>2 DEF Call
    <3>2. CallOK(knock[s], k, drop) BY <1>2, <1>5, <3>1 DEF CallOK
    <3>3. NextPort(s, k, drop) BY <2>1 DEF NarrowStep
    <3> HIDE DEF drop
    <3>4. QED BY <1>1, <3>2, <3>3, NextPortFact
  <2>2. CASE o # "ok"
    <3> DEFINE opened == knock[s].ports \ c.todo
               back == [c EXCEPT !.step = "rollback", !.todo = opened]
    <3>1. Await(s, k, IF opened = {} THEN NoCall ELSE back) BY <2>2 DEF NarrowStep
    <3>2. back \in Call /\ back.step = "rollback" /\ back.todo = opened /\ back.addr = c.addr
      BY <1>2 DEF Call
    <3>3. opened # {} => CallOK(knock[s], k, back) BY <1>2, <1>5, <3>2 DEF CallOK
    <3>4. CallOK(knock[s], k, NoCall) BY NoneFact, NoCallOK
    <3> HIDE DEF back, opened
    <3>5. CASE opened = {} BY <3>1, <3>4, <3>5, AwaitFact
    <3>6. CASE opened # {} BY <3>1, <3>3, <3>6, AwaitFact
    <3>7. QED BY <3>5, <3>6
  <2>3. QED BY <2>1, <2>2
<1>7. UNCHANGED knock BY DEF NarrowStep
<1>8. QED BY <1>1, <1>4, <1>6, <1>7, SameRecord

LEMMA RollbackStepInv ==
  ASSUME Sessions, Rest, NEW s \in Session, NEW k \in Lane, NEW o \in Outcome,
         RollbackStep(s, k, o)
  PROVE  Sessions' /\ Rest'
<1>1. calls[s][k].step = "rollback" BY DEF RollbackStep, Waiting
<1>2. PortOf(s, k) \in Port /\ calls[s][k].addr \in Source BY <1>1, WaitFact
<1>3. rules' \in [Port \X Source -> Nat] /\ failures' \in Nat
  BY <1>2, RulesType DEF RollbackStep
<1>4. Rest' BY <1>3 DEF RollbackStep, Rest
<1>5. CallOK(knock[s], k, NoCall) BY NoneFact, NoCallOK
<1>6. \E d : /\ calls' = [calls EXCEPT ![s] = [calls[s] EXCEPT ![k] = d]]
             /\ CallOK(knock[s], k, d)
  BY <1>1, <1>5, NextPortFact DEF RollbackStep
<1>7. UNCHANGED knock BY DEF RollbackStep
<1>8. QED BY <1>1, <1>4, <1>6, <1>7, SameRecord

LEMMA DropStepInv ==
  ASSUME Sessions, Rest, NEW s \in Session, NEW k \in Lane, NEW o \in Outcome,
         DropStep(s, k, o)
  PROVE  Sessions' /\ Rest'
<1> DEFINE ip == calls[s][k].addr
<1>1. calls[s][k].step = "drop" BY DEF DropStep, Waiting
<1>2. /\ CallOK(knock[s], k, calls[s][k]) /\ RecordOK(knock[s]) /\ knock[s] \in Knock
      /\ PortOf(s, k) \in Port /\ knock[s].source \in Source
  BY <1>1, WaitFact
<1>3. rules' \in [Port \X Source -> Nat] /\ failures' \in Nat
  BY <1>2, RulesType DEF DropStep
<1>4. Rest' BY <1>3 DEF DropStep, Rest
<1>5. knock[s].status \in {"open", "closed"} /\ ip \in Addr BY <1>1, <1>2 DEF CallOK
<1>6. PICK d : /\ calls' = [calls EXCEPT ![s] = [calls[s] EXCEPT ![k] = d]]
               /\ IF IsLast(s, k) THEN d = NoCall
                  ELSE CallOK(knock[s], k, d) /\ d.step = calls[s][k].step
  BY <1>1, NextPortFact DEF DropStep
<1>7. CASE ~IsLast(s, k)
  <2>1. UNCHANGED knock BY <1>7 DEF DropStep
  <2>2. QED BY <1>1, <1>4, <1>6, <1>7, <2>1, SameRecord
<1>8. CASE IsLast(s, k)
  <2> DEFINE r == [knock[s] EXCEPT !.timer = FALSE, !.login = ip, !.tail = FALSE]
             c == [calls[s] EXCEPT ![k] = d]
  <2>1. knock' = [knock EXCEPT ![s] = r] BY <1>2, <1>8 DEF DropStep, Sessions, Knock
  <2>2. /\ r \in Knock /\ r.status = knock[s].status /\ r.ports = knock[s].ports
        /\ r.beat = knock[s].beat /\ ~r.timer /\ ~r.tail /\ r.login = ip
    BY <1>2, <1>5 DEF Knock, Source
  <2>3. RecordOK(r) BY <1>2, <1>5, <2>2 DEF RecordOK
  <2>4. CallOK(r, k, d) BY <1>6, <1>8, NoneFact, NoCallOK
  <2>5. \A j \in Lane \ {k} : CallOK(r, j, calls[s][j])
    BY <1>5, <2>2 DEF Sessions, CallOK
  <2>6. ip # AnyAddr BY <1>5, KnockAssumption
  <2>7. EndOK(knock[s], calls[s]) BY DEF Sessions
  <2>8. \A j \in Lane : calls[s][j].step = "close" => c[j].step = "close"
    BY <1>1 DEF Sessions
  <2>9. EndOK(r, c) BY <2>2, <2>6, <2>7, <2>8 DEF EndOK
  <2> HIDE DEF r
  <2>10. Sessions' BY <1>6, <2>1, <2>3, <2>4, <2>5, <2>9, OneSession
  <2>11. QED BY <1>4, <2>10
<1>9. QED BY <1>7, <1>8

LEMMA CloseStepInv ==
  ASSUME Sessions, Rest, NEW s \in Session, NEW k \in Lane, NEW o \in Outcome,
         CloseStep(s, k, o)
  PROVE  Sessions' /\ Rest'
<1>1. calls[s][k].step = "close" BY DEF CloseStep, Waiting
<1>2. /\ CallOK(knock[s], k, calls[s][k]) /\ RecordOK(knock[s]) /\ knock[s] \in Knock
      /\ PortOf(s, k) \in Port /\ calls[s][k].addr \in Source
  BY <1>1, WaitFact
<1>3. rules' \in [Port \X Source -> Nat] /\ failures' \in Nat
  BY <1>2, RulesType DEF CloseStep
<1>4. file' \in {file, NoFile} BY DEF CloseStep
<1>5. Rest' BY <1>3, <1>4 DEF CloseStep, Rest
<1>6. knock[s].status \in {"open", "closed"} BY <1>1, <1>2 DEF CallOK
<1>7. PICK d : /\ calls' = [calls EXCEPT ![s] = [calls[s] EXCEPT ![k] = d]]
               /\ IF IsLast(s, k) THEN d = NoCall
                  ELSE CallOK(knock[s], k, d) /\ d.step = calls[s][k].step
  BY <1>1, NextPortFact DEF CloseStep
<1> DEFINE c == [calls[s] EXCEPT ![k] = d]
<1>8. CASE ~IsLast(s, k)
  <2>1. knock' = [knock EXCEPT ![s] = knock[s]] BY <1>8 DEF CloseStep, Sessions
  <2>2. c[k].step = "close" BY <1>1, <1>7, <1>8 DEF Sessions
  <2>3. EndOK(knock[s], c) BY <2>2 DEF EndOK
  <2>4. QED BY <1>2, <1>5, <1>7, <1>8, <2>1, <2>3, OneSession DEF Sessions
<1>9. CASE IsLast(s, k)
  <2> DEFINE r == [knock[s] EXCEPT !.status = "closed"]
  <2>1. knock' = [knock EXCEPT ![s] = r] BY <1>9 DEF CloseStep, Sessions
  <2>2. r \in Knock /\ r.status = "closed" /\ r.ports = knock[s].ports BY <1>2 DEF Knock
  <2>3. /\ r.timer = knock[s].timer /\ r.beat = knock[s].beat /\ r.tail = knock[s].tail
    BY <1>2 DEF Knock
  <2>4. ~r.timer /\ ~r.beat /\ ~r.tail BY <1>1, <1>2, <2>3 DEF CallOK
  <2>5. RecordOK(r) BY <2>2, <2>4 DEF RecordOK
  <2>6. CallOK(r, k, d) BY <1>7, <1>9, NoneFact, NoCallOK
  <2>7. \A j \in Lane \ {k} : CallOK(r, j, calls[s][j])
    BY <1>6, <2>2, <2>4 DEF Sessions, CallOK
  <2>8. EndOK(r, c) BY <2>2 DEF EndOK
  <2> HIDE DEF r
  <2>9. Sessions' BY <1>7, <2>1, <2>5, <2>6, <2>7, <2>8, OneSession
  <2>10. QED BY <1>5, <2>9
<1>10. QED BY <1>8, <1>9

(***************************************************************************)
(* The end of the process.                                                 *)
(***************************************************************************)
LEMMA DownInv ==
  ASSUME Sessions, Rest, Down, ends' \in Nat
  PROVE  Sessions' /\ Rest'
<1> DEFINE gone(s) == [knock[s] EXCEPT !.status = "gone", !.timer = FALSE, !.beat = FALSE,
                                       !.tail = FALSE]
<1>1. \A s \in Session : RecordOK(knock[s]) BY DEF Sessions
<1>2. \A s \in Session : RecordOK(gone(s)) /\ gone(s).status = "gone"
  <2> SUFFICES ASSUME NEW s \in Session
               PROVE  RecordOK(gone(s)) /\ gone(s).status = "gone"
    OBVIOUS
  <2>1. knock[s] \in Knock BY <1>1 DEF RecordOK
  <2>2. /\ gone(s) \in Knock /\ gone(s).status = "gone"
        /\ ~gone(s).timer /\ ~gone(s).beat /\ ~gone(s).tail
    BY <2>1 DEF Knock
  <2>3. QED BY <2>2 DEF RecordOK
<1>3. \A s \in Session : knock'[s] = IF knock[s].status \in {"opening", "open"}
                                     THEN gone(s) ELSE knock[s]
  BY DEF Down
<1> HIDE DEF gone
<1>4. \A s \in Session : RecordOK(knock'[s]) /\ knock'[s].status # "open"
  BY <1>1, <1>2, <1>3
<1>5. \A s \in Session, k \in Lane : calls'[s][k] = NoCall BY DEF Down
<1>6. \A s \in Session, k \in Lane : CallOK(knock'[s], k, calls'[s][k])
  BY <1>5, NoneFact, NoCallOK
<1>7. \A s \in Session : EndOK(knock'[s], calls'[s]) BY <1>4 DEF EndOK
<1>8. calls' \in [Session -> [Lane -> Call]] BY NoneFact DEF Down
<1>9. knock' \in [Session -> Knock]
  <2>1. knock' = [s \in Session |-> knock'[s]] BY DEF Down
  <2>2. \A s \in Session : knock'[s] \in Knock BY <1>4 DEF RecordOK
  <2>3. QED BY <2>1, <2>2
<1>10. Sessions' BY <1>4, <1>6, <1>7, <1>8, <1>9 DEF Sessions
<1>11. QED BY <1>10 DEF Down, Rest

LEMMA SameSessions ==
  ASSUME Sessions, UNCHANGED <<knock, calls>>
  PROVE  Sessions'
BY DEF Sessions, EndOK

(***************************************************************************)
(* The invariant.                                                          *)
(***************************************************************************)
LEMMA StepInv == Rest /\ Sessions /\ [Next]_vars => Rest' /\ Sessions'
<1> SUFFICES ASSUME Rest, Sessions, [Next]_vars PROVE Rest' /\ Sessions' OBVIOUS
<1>1. ASSUME NEW s \in Session, Step(s) PROVE Rest' /\ Sessions'
  BY <1>1, OpenStepInv, UndoStepInv, NarrowStepInv, RollbackStepInv, DropStepInv, CloseStepInv
  DEF Step
<1>2. ASSUME NEW s \in Session, TimerFires(s) PROVE Rest' /\ Sessions'
  <2>1. Sessions' /\ raced' \in SUBSET Session BY <1>2, BeginCloseStep DEF TimerFires
  <2>2. QED BY <1>2, <2>1 DEF TimerFires, Rest, countVars
<1>3. ASSUME NEW s \in Session, Heartbeat(s) PROVE Rest' /\ Sessions'
  <2>1. file # NoFile => file.ip \in Addr BY DEF Rest
  <2>2. Sessions' /\ raced' \in SUBSET Session
    BY <1>3, <2>1, BeginCloseStep, BeginNarrowStep DEF Heartbeat
  <2>3. QED BY <1>3, <2>2 DEF Heartbeat, Rest, countVars
<1>4. ASSUME NEW s \in Session, CloseNext(s) PROVE Rest' /\ Sessions'
  <2>1. 0 \in Lane BY KnockAssumption DEF Lane
  <2>2. Sessions' /\ raced' \in SUBSET Session BY <1>4, <2>1, BeginCloseStep DEF CloseNext
  <2>3. QED BY <1>4, <2>2 DEF CloseNext, Rest, countVars
<1>5. ASSUME NEW s \in Session, NEW ip \in Addr, AuthLogLine(s, ip) PROVE Rest' /\ Sessions'
  <2>1. Sessions' /\ raced' \in SUBSET Session BY <1>5, BeginNarrowStep DEF AuthLogLine
  <2>2. beats' \in Nat /\ failures' \in Nat BY <1>5 DEF AuthLogLine, Rest, Answer
  <2>3. file' = [ip |-> ip, fresh |-> TRUE] \/ file' = file BY <1>5 DEF AuthLogLine
  <2>4. [ip |-> ip, fresh |-> TRUE] \in [ip : Addr, fresh : BOOLEAN] OBVIOUS
  <2>5. file' \in [ip : Addr, fresh : BOOLEAN] \cup {NoFile} BY <2>3, <2>4 DEF Rest
  <2>6. QED BY <1>5, <2>1, <2>2, <2>5 DEF AuthLogLine, Rest
<1>6. ASSUME NEW s \in Session, NEW P \in PortSets, NEW a \in Sources, Execute(s, P, a)
      PROVE  Rest' /\ Sessions'
  BY <1>6, ExecuteStep
<1>7. ASSUME NEW ip \in Addr, TouchFile(ip) PROVE Rest' /\ Sessions'
  BY <1>7, SameSessions DEF TouchFile, Rest
<1>8. CASE FileGoesStale
  <2>1. file \in [ip : Addr, fresh : BOOLEAN] BY <1>8 DEF FileGoesStale, Rest, NoFile
  <2>2. file' \in [ip : Addr, fresh : BOOLEAN] BY <1>8, <2>1 DEF FileGoesStale
  <2>3. QED BY <1>8, <2>2, SameSessions DEF FileGoesStale, Rest, countVars
<1>9. CASE FileRemoved BY <1>9, SameSessions DEF FileRemoved, Rest, countVars
<1>10. CASE Interrupt BY <1>10, SameSessions DEF Interrupt, Rest
<1>11. CASE AllClosed BY <1>11, SameSessions DEF AllClosed, Rest, countVars
<1>12. CASE Exit BY <1>12, DownInv DEF Exit, Rest
<1>13. CASE Crash
  <2>1. ends' \in Nat BY <1>13 DEF Crash, Rest
  <2>2. QED BY <1>13, <2>1, DownInv DEF Crash
<1>14. CASE Restart BY <1>14, SameSessions DEF Restart, Rest, countVars
<1>15. CASE UNCHANGED vars BY <1>15, SameSessions DEF vars, Rest, countVars
<1>16. QED
  BY <1>1, <1>2, <1>3, <1>4, <1>5, <1>6, <1>7, <1>8, <1>9, <1>10, <1>11, <1>12, <1>13,
     <1>14, <1>15 DEF Next

(* Sessions and the rest keep their invariant. *)
THEOREM Invariant == Spec => [](Rest /\ Sessions)
<1>1. QED BY InitInv, StepInv, PTL DEF Spec

(* Every variable keeps its type; what runs for a session, and the ports its *)
(* functions have still to do, fit the state the session is in.              *)
THEOREM TypeCorrect == Spec => []TypeOK
<1>1. Rest /\ Sessions => TypeOK BY InvType
<1>2. QED BY <1>1, Invariant, PTL

(* A session that is open has a timer, a heartbeat that is watched, or is     *)
(* being closed: nothing that fails or overlaps in transitionToPostLogin or   *)
(* closeKnock leaves it without all three.                                    *)
THEOREM EndCorrect == Spec => []SessionHasEnd
<1>1. Rest /\ Sessions => SessionHasEnd BY InvEnd
<1>2. QED BY <1>1, Invariant, PTL

(***************************************************************************)
(* The rules a session answers for.  A rule of the firewall names no       *)
(* session, and two sessions may have made the same one: what is proved is *)
(* that rules counts as many as there are sessions answering for it.  At   *)
(* most one function of a session runs, as long as none of them raced.     *)
(***************************************************************************)

(* Of a session r with the functions c: the rule for its source, from its  *)
(* opening until it is dropped or closed, ...                              *)
HasSource(r, c, p, a) ==
  /\ p \in r.ports /\ a = r.source
  /\ \/ r.status = "opening" /\ \E k \in Lane : c[k].step = "open" /\ p \notin c[k].todo
     \/ /\ r.status = "open" /\ r.login = AnyAddr
        /\ \A k \in Lane : c[k].step \in {"drop", "close"} => p \in c[k].todo

(* ... and the rule for its login, also while phase 1 still stands.        *)
HasLogin(r, c, p, a) ==
  /\ p \in r.ports /\ r.status = "open"
  /\ \/ /\ r.login # AnyAddr /\ a = r.login
        /\ \A k \in Lane : c[k].step = "close" => p \in c[k].todo
     \/ \E k \in Lane :
          /\ a = c[k].addr
          /\ \/ c[k].step = "narrow" /\ p \notin c[k].todo
             \/ c[k].step = "rollback" /\ p \in c[k].todo
             \/ c[k].step = "drop"

SourceRules(p, a) == {s \in Session : HasSource(knock[s], calls[s], p, a)}
LoginRules(p, a) == {s \in Session : HasLogin(knock[s], calls[s], p, a)}

(* Nothing raced on port p, and no failure of one session hit another's.   *)
Clean(p) ==
  /\ \A s \in Session : p \in knock[s].ports => s \notin raced
  /\ \/ failures = 0
     \/ \A s \in Session, t \in Session :
          p \in knock[s].ports /\ p \in knock[t].ports => s = t

(* No call failed, and no session of p went with the process. *)
Quiet(p) == failures = 0 /\ \A s \in Session : p \in knock[s].ports => knock[s].status # "gone"

Tally(A, B, n, exact) ==
  /\ IsFiniteSet(A) /\ IsFiniteSet(B)
  /\ n >= Cardinality(A) + Cardinality(B)
  /\ exact => n = Cardinality(A) + Cardinality(B)

Counted ==
  \A p \in Port, a \in Source :
    Clean(p) => Tally(SourceRules(p, a), LoginRules(p, a), rules[<<p, a>>], Quiet(p))

(* What a lone function c knows of its session r. *)
CallAlone(r, c) ==
  /\ c.step \in {"narrow", "rollback", "drop"} => r.status = "open" /\ r.login = AnyAddr
  /\ c.step = "close" =>
       r.status = "open" /\ c.addr = IF r.login # AnyAddr THEN r.login ELSE r.source
Alone ==
  \A s \in Session :
    /\ knock[s].status = "new" => knock[s].ports = {}
    /\ \A k \in Lane : calls[s][k].step = "undo" => failures > 0
    /\ s \notin raced =>
         /\ \A j \in Lane, k \in Lane :
              calls[s][j].step # "none" /\ calls[s][k].step # "none" => j = k
         /\ \A k \in Lane : CallAlone(knock[s], calls[s][k])

(* The same rules, of a session whose only function is c. *)
HasSource1(r, c, p, a) ==
  /\ p \in r.ports /\ a = r.source
  /\ \/ r.status = "opening" /\ c.step = "open" /\ p \notin c.todo
     \/ /\ r.status = "open" /\ r.login = AnyAddr
        /\ c.step \in {"drop", "close"} => p \in c.todo
HasLogin1(r, c, p, a) ==
  /\ p \in r.ports /\ r.status = "open"
  /\ \/ r.login # AnyAddr /\ a = r.login /\ (c.step = "close" => p \in c.todo)
     \/ /\ a = c.addr
        /\ \/ c.step = "narrow" /\ p \notin c.todo
           \/ c.step = "rollback" /\ p \in c.todo
           \/ c.step = "drop"

LEMMA OneCall ==
  ASSUME NEW r, NEW c, NEW k \in Lane, \A j \in Lane \ {k} : c[j].step = "none",
         NEW p, NEW a
  PROVE  /\ HasSource(r, c, p, a) <=> HasSource1(r, c[k], p, a)
         /\ HasLogin(r, c, p, a) <=> HasLogin1(r, c[k], p, a)
BY DEF HasSource, HasLogin, HasSource1, HasLogin1

(* One step of one session r0, with the function c0, at one rule: what the *)
(* firewall has more or less is what the session answers for more or less, *)
(* unless a call failed and left a rule behind.                            *)
Balanced(r0, c0, r1, c1, p, a) ==
  LET n == rules[<<p, a>>]
      m == rules'[<<p, a>>]
      src0 == HasSource1(r0, c0, p, a)
      src1 == HasSource1(r1, c1, p, a)
      login0 == HasLogin1(r0, c0, p, a)
      login1 == HasLogin1(r1, c1, p, a) IN
  \/ m = n /\ (src1 <=> src0) /\ (login1 <=> login0)
  \/ m = n + 1 /\ ~src0 /\ src1 /\ (login1 <=> login0)
  \/ m = n + 1 /\ (src1 <=> src0) /\ ~login0 /\ login1
  \/ (m = n - 1 \/ n = 0) /\ src0 /\ ~src1 /\ (login1 <=> login0)
  \/ (m = n - 1 \/ n = 0) /\ (src1 <=> src0) /\ login0 /\ ~login1
  \/ failures' > 0 /\ m >= n /\ (src1 => src0) /\ (login1 => login0)
  \/ failures' > 0 /\ ~src1 /\ ~login1

BalancedIn(s, A, B, C, D, n, m, f) ==
  \/ m = n /\ (s \in C <=> s \in A) /\ (s \in D <=> s \in B)
  \/ m = n + 1 /\ s \notin A /\ s \in C /\ (s \in D <=> s \in B)
  \/ m = n + 1 /\ (s \in C <=> s \in A) /\ s \notin B /\ s \in D
  \/ (m = n - 1 \/ n = 0) /\ s \in A /\ s \notin C /\ (s \in D <=> s \in B)
  \/ (m = n - 1 \/ n = 0) /\ (s \in C <=> s \in A) /\ s \in B /\ s \notin D
  \/ f > 0 /\ m >= n /\ (s \in C => s \in A) /\ (s \in D => s \in B)
  \/ f > 0 /\ s \notin C /\ s \notin D

LEMMA SameSet ==
  ASSUME NEW s, NEW A, NEW C, C \ {s} = A \ {s}, s \notin A, s \notin C
  PROVE  C = A
OBVIOUS

LEMMA TallyLess ==
  ASSUME NEW A, NEW B, NEW C \in SUBSET A, NEW D \in SUBSET B, NEW n \in Nat, NEW m \in Nat,
         NEW q \in BOOLEAN, Tally(A, B, n, q), m >= n
  PROVE  Tally(C, D, m, FALSE)
<1>1. IsFiniteSet(A) /\ IsFiniteSet(B) BY DEF Tally
<1>2. /\ IsFiniteSet(C) /\ Cardinality(C) <= Cardinality(A)
      /\ IsFiniteSet(D) /\ Cardinality(D) <= Cardinality(B)
  BY <1>1, FS_Subset
<1>3. /\ Cardinality(A) \in Nat /\ Cardinality(B) \in Nat
      /\ Cardinality(C) \in Nat /\ Cardinality(D) \in Nat
  BY <1>1, <1>2, FS_CardinalityType
<1>4. QED BY <1>2, <1>3 DEF Tally

LEMMA TallyEmpty ==
  ASSUME NEW n \in Nat, NEW q \in BOOLEAN, q => n = 0
  PROVE  Tally({}, {}, n, q)
BY FS_EmptySet DEF Tally

LEMMA TallyWeaker ==
  ASSUME NEW A, NEW B, NEW n \in Nat, NEW q \in BOOLEAN, NEW e \in BOOLEAN, e => q,
         Tally(A, B, n, q)
  PROVE  Tally(A, B, n, e)
BY DEF Tally

(* The balance of a step, in terms of the sets of sessions. *)
LEMMA BalanceTally ==
  ASSUME NEW s, NEW A, NEW B, NEW C, NEW D, NEW n \in Nat, NEW m \in Nat,
         NEW q \in BOOLEAN, NEW e \in BOOLEAN, e => q, NEW f \in Nat,
         f > 0 => ~e,
         C \ {s} = A \ {s}, D \ {s} = B \ {s},
         BalancedIn(s, A, B, C, D, n, m, f),
         f > 0 => A \ {s} = {} /\ B \ {s} = {},
         Tally(A, B, n, q)
  PROVE  Tally(C, D, m, e)
<1>0. /\ C = IF s \in C THEN A \cup {s} ELSE A \ {s}
      /\ D = IF s \in D THEN B \cup {s} ELSE B \ {s}
  OBVIOUS
<1>a. /\ IsFiniteSet(A) /\ Cardinality(A) \in Nat
      /\ IsFiniteSet(B) /\ Cardinality(B) \in Nat
      /\ n >= Cardinality(A) + Cardinality(B)
      /\ q => n = Cardinality(A) + Cardinality(B)
  BY FS_CardinalityType DEF Tally
<1>b. /\ IsFiniteSet(A \cup {s}) /\ IsFiniteSet(B \cup {s})
      /\ s \notin A => Cardinality(A \cup {s}) = Cardinality(A) + 1
      /\ s \notin B => Cardinality(B \cup {s}) = Cardinality(B) + 1
  BY <1>a, FS_AddElement
<1>c. /\ IsFiniteSet(A \ {s}) /\ IsFiniteSet(B \ {s})
      /\ s \in A => Cardinality(A \ {s}) = Cardinality(A) - 1
      /\ s \in B => Cardinality(B \ {s}) = Cardinality(B) - 1
  BY <1>a, FS_RemoveElement
<1>d. Cardinality(A \ {s}) \in Nat /\ Cardinality(B \ {s}) \in Nat
  BY <1>c, FS_CardinalityType
<1>1. ASSUME s \in C <=> s \in A PROVE C = A BY <1>1
<1>2. ASSUME s \in D <=> s \in B PROVE D = B BY <1>2
<1>3. CASE m = n /\ (s \in C <=> s \in A) /\ (s \in D <=> s \in B)
  BY <1>1, <1>2, <1>3, TallyWeaker
<1>4. CASE m = n + 1 /\ s \notin A /\ s \in C /\ (s \in D <=> s \in B)
  <2>1. C = A \cup {s} /\ D = B BY <1>0, <1>2, <1>4
  <2>2. QED BY <1>a, <1>b, <1>4, <2>1 DEF Tally
<1>5. CASE m = n + 1 /\ (s \in C <=> s \in A) /\ s \notin B /\ s \in D
  <2>1. C = A /\ D = B \cup {s} BY <1>0, <1>1, <1>5
  <2>2. QED BY <1>a, <1>b, <1>5, <2>1 DEF Tally
<1>6. CASE (m = n - 1 \/ n = 0) /\ s \in A /\ s \notin C /\ (s \in D <=> s \in B)
  <2>1. C = A \ {s} /\ D = B BY <1>0, <1>2, <1>6
  <2>2. m = n - 1 BY <1>a, <1>c, <1>d, <1>6
  <2>3. QED BY <1>a, <1>c, <1>d, <1>6, <2>1, <2>2 DEF Tally
<1>7. CASE (m = n - 1 \/ n = 0) /\ (s \in C <=> s \in A) /\ s \in B /\ s \notin D
  <2>1. C = A /\ D = B \ {s} BY <1>0, <1>1, <1>7
  <2>2. m = n - 1 BY <1>a, <1>c, <1>d, <1>7
  <2>3. QED BY <1>a, <1>c, <1>d, <1>7, <2>1, <2>2 DEF Tally
<1>8. CASE f > 0 /\ m >= n /\ (s \in C => s \in A) /\ (s \in D => s \in B)
  <2>1. C \in SUBSET A /\ D \in SUBSET B BY <1>0, <1>8
  <2>2. Tally(C, D, m, FALSE) BY <1>8, <2>1, TallyLess DEF Tally
  <2>3. e = FALSE BY <1>8
  <2>4. QED BY <2>2, <2>3
<1>9. CASE f > 0 /\ s \notin C /\ s \notin D
  <2>1. C = {} /\ D = {} /\ e = FALSE BY <1>9
  <2>2. QED BY <2>1, TallyEmpty
<1>10. QED
  BY <1>3, <1>4, <1>5, <1>6, <1>7, <1>8, <1>9 DEF BalancedIn


(* A step of one function of one session. *)
LEMMA OneChange ==
  ASSUME Rest, Rest', Sessions, Alone, Counted, NEW s \in Session, NEW k \in Lane,
         NEW r \in Knock, NEW d \in Call,
         knock' = [knock EXCEPT ![s] = r],
         calls' = [calls EXCEPT ![s] = [calls[s] EXCEPT ![k] = d]],
         raced \subseteq raced', raced' \subseteq raced \cup {s}, failures' >= failures,
         s \notin raced' => \A j \in Lane \ {k} : calls[s][j].step = "none",
         knock[s].ports \subseteq r.ports, r.status # "new", knock[s].status # "gone",
         s \notin raced' => CallAlone(r, d),
         d.step = "undo" => failures' > 0,
         \A p \in Port, a \in Source : p \notin r.ports => rules'[<<p, a>>] = rules[<<p, a>>],
         s \notin raced' => \A p \in r.ports, a \in Source :
           Balanced(knock[s], calls[s][k], r, d, p, a)
  PROVE  Alone' /\ Counted'
<1> DEFINE c == [calls[s] EXCEPT ![k] = d]
<1>0. /\ knock \in [Session -> Knock] /\ calls \in [Session -> [Lane -> Call]]
      /\ failures \in Nat /\ failures' \in Nat
      /\ rules \in [Port \X Source -> Nat] /\ rules' \in [Port \X Source -> Nat]
  BY DEF Sessions, Rest
<1>1. /\ knock'[s] = r /\ calls'[s] = c
      /\ \A t \in Session \ {s} : knock'[t] = knock[t] /\ calls'[t] = calls[t]
  BY <1>0
<1>2. c[k] = d /\ \A j \in Lane \ {k} : c[j] = calls[s][j]
  BY <1>0
<1> HIDE DEF c
<1>3. Alone'
  <2>1. ASSUME NEW j \in Lane, c[j].step = "undo" PROVE failures' > 0
    BY <1>0, <1>2, <2>1 DEF Alone
  <2>2. ASSUME s \notin raced', NEW i \in Lane, NEW j \in Lane,
               c[i].step # "none", c[j].step # "none"
        PROVE  i = j
    BY <1>2, <2>2
  <2>3. ASSUME s \notin raced', NEW j \in Lane PROVE CallAlone(r, c[j])
    BY <1>2, <2>3 DEF CallAlone
  <2>4. ASSUME NEW t \in Session \ {s}, NEW j \in Lane, calls[t][j].step = "undo"
        PROVE  failures' > 0
    BY <1>0, <2>4 DEF Alone
  <2> DEFINE AloneIn(t) ==
        /\ knock'[t].status = "new" => knock'[t].ports = {}
        /\ \A j \in Lane : calls'[t][j].step = "undo" => failures' > 0
        /\ t \notin raced' =>
             /\ \A i \in Lane, j \in Lane :
                  calls'[t][i].step # "none" /\ calls'[t][j].step # "none" => i = j
             /\ \A j \in Lane : CallAlone(knock'[t], calls'[t][j])
  <2>5. AloneIn(s) BY <1>1, <2>1, <2>2, <2>3
  <2>6. ASSUME NEW t \in Session \ {s} PROVE AloneIn(t)
    <3>1. t \notin raced' => t \notin raced OBVIOUS
    <3>2. QED BY <1>1, <2>4, <3>1 DEF Alone
  <2>7. QED BY <2>5, <2>6 DEF Alone, CallAlone
<1>4. ASSUME NEW p \in Port, NEW a \in Source, Clean(p)'
      PROVE  Tally(SourceRules(p, a), LoginRules(p, a), rules[<<p, a>>], Quiet(p))'
  <2>1. \A t \in Session : p \in knock[t].ports => p \in knock'[t].ports
    BY <1>1
  <2>2. Clean(p)
    <3>1. \A t \in Session : p \in knock[t].ports => t \notin raced
      BY <1>4, <2>1 DEF Clean
    <3>2. failures' = 0 => failures = 0 BY <1>0
    <3>3. QED BY <1>4, <2>1, <3>1, <3>2 DEF Clean
  <2>3. Quiet(p)' => Quiet(p)
    <3>1. failures' = 0 => failures = 0 BY <1>0
    <3>2. QED BY <1>1, <2>1, <3>1 DEF Quiet
  <2>4. PICK q \in BOOLEAN : q <=> Quiet(p) OBVIOUS
  <2>5. PICK e \in BOOLEAN : e <=> Quiet(p)' OBVIOUS
  <2> DEFINE A == SourceRules(p, a)
             B == LoginRules(p, a)
             C == SourceRules(p, a)'
             D == LoginRules(p, a)'
             n == rules[<<p, a>>]
             m == rules'[<<p, a>>]
  <2>6. Tally(A, B, n, q)
    BY <2>2, <2>4 DEF Counted, Tally
  <2>7. /\ C \ {s} = A \ {s} /\ D \ {s} = B \ {s}
    BY <1>1 DEF SourceRules, LoginRules
  <2>8. /\ s \in A <=> HasSource(knock[s], calls[s], p, a)
        /\ s \in B <=> HasLogin(knock[s], calls[s], p, a)
        /\ s \in C <=> HasSource(r, c, p, a)
        /\ s \in D <=> HasLogin(r, c, p, a)
    BY <1>1 DEF SourceRules, LoginRules
  <2>9. n \in Nat /\ m \in Nat BY <1>0
  <2>10. Tally(C, D, m, e)
    <3>1. CASE p \in r.ports
      <4>1. s \notin raced' BY <1>1, <1>4, <3>1 DEF Clean
      <4>2. /\ s \in A <=> HasSource1(knock[s], calls[s][k], p, a)
            /\ s \in B <=> HasLogin1(knock[s], calls[s][k], p, a)
        BY <2>8, <4>1, OneCall
      <4>3. /\ s \in C <=> HasSource1(r, d, p, a)
            /\ s \in D <=> HasLogin1(r, d, p, a)
        BY <1>2, <2>8, <4>1, OneCall
      <4>4. Balanced(knock[s], calls[s][k], r, d, p, a)
        BY <3>1, <4>1
      <4>5. BalancedIn(s, A, B, C, D, n, m, failures')
        BY <4>2, <4>3, <4>4 DEF Balanced, BalancedIn
      <4>6. failures' > 0 => A \ {s} = {} /\ B \ {s} = {}
        BY <1>0, <1>1, <1>4, <2>1, <3>1 DEF Clean, SourceRules, LoginRules, HasSource, HasLogin
      <4>7. failures' > 0 => ~e BY <1>0, <2>5 DEF Quiet
      <4>8. e => q BY <2>3, <2>4, <2>5
      <4> HIDE DEF A, B, C, D, n, m
      <4>9. QED
        BY <1>0, <2>6, <2>7, <2>9, <4>5, <4>6, <4>7, <4>8, BalanceTally
    <3>2. CASE p \notin r.ports
      <4>0. s \notin A /\ s \notin B /\ s \notin C /\ s \notin D
        BY <2>8, <3>2 DEF HasSource, HasLogin
      <4>1. C = A /\ D = B
        <5> HIDE DEF A, B, C, D
        <5>1. C = A BY <2>7, <4>0, SameSet
        <5>2. D = B BY <2>7, <4>0, SameSet
        <5>3. QED BY <5>1, <5>2
      <4>2. m = n BY <3>2
      <4>3. e => q BY <2>3, <2>4, <2>5
      <4> HIDE DEF A, B, C, D, n, m
      <4>4. QED BY <2>6, <2>9, <4>1, <4>2, <4>3 DEF Tally
    <3>3. QED BY <3>1, <3>2
  <2>11. QED BY <2>5, <2>10 DEF Tally
<1>5. QED BY <1>3, <1>4 DEF Counted

(***************************************************************************)
(* What the root agent did, and what a lone function knows.                *)
(***************************************************************************)
LEMMA OpenRules ==
  ASSUME Rest, NEW p \in Port, NEW a \in Source, NEW o \in Outcome, OpenPort(p, a, o)
  PROVE  /\ failures' >= failures
         /\ \A q \in Port, b \in Source :
              q # p \/ b # a => rules'[<<q, b>>] = rules[<<q, b>>]
         /\ o = "ok" => rules'[<<p, a>>] = rules[<<p, a>>] + 1
         /\ o # "ok" => /\ failures' > 0
                        /\ \A q \in Port, b \in Source : rules'[<<q, b>>] >= rules[<<q, b>>]
<1>1. <<p, a>> \in Port \X Source /\ rules \in [Port \X Source -> Nat] /\ failures \in Nat
  BY DEF Rest
<1>2. failures' >= failures /\ (o # "ok" => failures' > 0) BY <1>1 DEF OpenPort, Answer
<1>3. rules' = rules \/ rules' = [rules EXCEPT ![<<p, a>>] = rules[<<p, a>>] + 1]
  BY DEF OpenPort
<1>4. o = "ok" => rules' = [rules EXCEPT ![<<p, a>>] = rules[<<p, a>>] + 1]
  BY DEF OpenPort
<1>5. \A q \in Port, b \in Source : <<q, b>> \in Port \X Source /\ rules[<<q, b>>] \in Nat
  BY <1>1
<1>6. QED BY <1>1, <1>2, <1>3, <1>4, <1>5

LEMMA CloseRules ==
  ASSUME Rest, NEW p \in Port, NEW a \in Source, NEW o \in Outcome, ClosePort(p, a, o)
  PROVE  /\ failures' >= failures
         /\ \A q \in Port, b \in Source :
              q # p \/ b # a => rules'[<<q, b>>] = rules[<<q, b>>]
         /\ o = "ok" => rules'[<<p, a>>] = rules[<<p, a>>] - 1 \/ rules[<<p, a>>] = 0
         /\ o # "ok" => failures' > 0 /\ rules' = rules
<1>1. <<p, a>> \in Port \X Source /\ rules \in [Port \X Source -> Nat] /\ failures \in Nat
  BY DEF Rest
<1>2. failures' >= failures /\ (o # "ok" => failures' > 0) BY <1>1 DEF ClosePort, Answer
<1>3. /\ rules' = rules \/ rules' = [rules EXCEPT ![<<p, a>>] = rules[<<p, a>>] - 1]
      /\ o # "ok" => rules' = rules
      /\ o = "ok" /\ rules[<<p, a>>] # 0
           => rules' = [rules EXCEPT ![<<p, a>>] = rules[<<p, a>>] - 1]
  BY DEF ClosePort, Outcome
<1>5. \A q \in Port, b \in Source : <<q, b>> \in Port \X Source /\ rules[<<q, b>>] \in Nat
  BY <1>1
<1>6. QED BY <1>1, <1>2, <1>3, <1>5

LEMMA Lone ==
  ASSUME Alone, NEW s \in Session, NEW k \in Lane, calls[s][k].step # "none", s \notin raced
  PROVE  /\ \A j \in Lane \ {k} : calls[s][j].step = "none"
         /\ CallAlone(knock[s], calls[s][k])
BY DEF Alone

LEMMA NextTodo ==
  ASSUME Sessions, NEW s \in Session, NEW k \in Lane, calls[s][k].step # "none",
         NEW last \in Call, NextPort(s, k, last)
  PROVE  \E d \in Call :
           /\ calls' = [calls EXCEPT ![s] = [calls[s] EXCEPT ![k] = d]]
           /\ IsLast(s, k) => d = last
           /\ ~IsLast(s, k) => /\ d.step = calls[s][k].step /\ d.addr = calls[s][k].addr
                               /\ d.todo = calls[s][k].todo \ {PortOf(s, k)}
<1> DEFINE c == calls[s][k]
           e == [c EXCEPT !.todo = @ \ {PortOf(s, k)}]
<1>1. c \in Call BY DEF Sessions, CallOK
<1>2. CASE IsLast(s, k) BY <1>2, AwaitFact DEF NextPort
<1>3. CASE ~IsLast(s, k)
  <2>1. e.todo = c.todo \ {PortOf(s, k)} /\ e.step = c.step /\ e.addr = c.addr /\ e \in Call
    BY <1>1 DEF Call
  <2>2. Await(s, k, e) BY <1>3 DEF NextPort
  <2>3. calls' = [calls EXCEPT ![s] = [calls[s] EXCEPT ![k] = e]] BY <2>2, AwaitFact
  <2>4. QED BY <1>3, <2>1, <2>3
<1>4. QED BY <1>2, <1>3

(* An answer of the root agent to the function k of s. *)
LEMMA OneAnswer ==
  ASSUME Rest, Rest', Sessions, Alone, Counted, NEW s \in Session, NEW k \in Lane,
         calls[s][k].step # "none", UNCHANGED raced, failures' >= failures,
         NEW r \in Knock, NEW d \in Call,
         knock' = [knock EXCEPT ![s] = r],
         calls' = [calls EXCEPT ![s] = [calls[s] EXCEPT ![k] = d]],
         r.ports = knock[s].ports, r.status # "new", knock[s].status # "gone",
         s \notin raced => CallAlone(r, d),
         d.step = "undo" => failures' > 0,
         \A p \in Port, a \in Source :
           p \notin knock[s].ports => rules'[<<p, a>>] = rules[<<p, a>>],
         s \notin raced => \A p \in r.ports, a \in Source :
           Balanced(knock[s], calls[s][k], r, d, p, a)
  PROVE  Alone' /\ Counted'
<1>1. s \notin raced => \A j \in Lane \ {k} : calls[s][j].step = "none" BY Lone
<1>2. \A p \in Port, a \in Source : p \notin r.ports => rules'[<<p, a>>] = rules[<<p, a>>]
  OBVIOUS
<1>3. raced \subseteq raced' /\ raced' \subseteq raced \cup {s} OBVIOUS
<1>4. QED BY <1>1, <1>2, <1>3, OneChange

(***************************************************************************)
(* The actions.                                                            *)
(***************************************************************************)
LEMMA OpenStepCount ==
  ASSUME Rest, Sessions, Alone, Counted, NEW s \in Session, NEW o \in Outcome, OpenStep(s, o)
  PROVE  Alone' /\ Counted'
<1> DEFINE c == calls[s][1]
           w == PortOf(s, 1)
<1>1. c.step = "open" /\ UNCHANGED raced BY DEF OpenStep, Waiting
<1>2. /\ CallOK(knock[s], 1, c) /\ RecordOK(knock[s]) /\ knock[s] \in Knock /\ c \in Call
      /\ w \in Port /\ knock[s].source \in Source /\ w \in c.todo
  BY <1>1, OneIsLane, WaitFact, PortFact
<1>3. /\ knock[s].status = "opening" /\ knock[s].login = AnyAddr
      /\ c.todo \subseteq knock[s].ports /\ w \in knock[s].ports
  BY <1>1, <1>2 DEF CallOK, RecordOK
<1>4. Rest' BY OpenStepInv
<1>5. OpenPort(w, knock[s].source, o) BY DEF OpenStep
<1>6. /\ failures' >= failures
      /\ \A p \in Port, a \in Source :
           p # w \/ a # knock[s].source => rules'[<<p, a>>] = rules[<<p, a>>]
      /\ o = "ok" => rules'[<<w, knock[s].source>>] = rules[<<w, knock[s].source>>] + 1
      /\ o # "ok" => failures' > 0
  BY <1>2, <1>5, OpenRules
<1>7. knock[s].ports \subseteq Port BY <1>2 DEF Knock
<1>8. CASE o # "ok"
  <2> DEFINE d == [c EXCEPT !.step = "undo", !.todo = knock[s].ports]
  <2>1. d \in Call /\ d.step = "undo" BY <1>2, <1>7 DEF Call
  <2>2. Await(s, 1, d) /\ UNCHANGED knock BY <1>8 DEF OpenStep
  <2> HIDE DEF d
  <2>3. calls' = [calls EXCEPT ![s] = [calls[s] EXCEPT ![1] = d]]
    BY <2>2, OneIsLane, AwaitFact
  <2>4. knock' = [knock EXCEPT ![s] = knock[s]] BY <2>2 DEF Sessions
  <2>5. CallAlone(knock[s], d) BY <2>1 DEF CallAlone
  <2>6. ASSUME NEW p \in knock[s].ports, NEW a \in Source
        PROVE  Balanced(knock[s], c, knock[s], d, p, a)
    <3>1. ~HasSource1(knock[s], d, p, a) /\ ~HasLogin1(knock[s], d, p, a)
      BY <1>3, <2>1 DEF HasSource1, HasLogin1
    <3>2. QED BY <1>6, <1>8, <3>1 DEF Balanced
  <2> HIDE DEF w
  <2>7. QED
    BY <1>1, <1>2, <1>3, <1>4, <1>6, <1>8, <2>1, <2>3, <2>4, <2>5, <2>6, OneIsLane, OneAnswer
<1>9. CASE o = "ok"
  <2>1. NextPort(s, 1, NoCall) BY <1>9 DEF OpenStep
  <2>2. PICK d \in Call :
           /\ calls' = [calls EXCEPT ![s] = [calls[s] EXCEPT ![1] = d]]
           /\ IsLast(s, 1) => d = NoCall
           /\ ~IsLast(s, 1) => d.step = c.step /\ d.addr = c.addr /\ d.todo = c.todo \ {w}
    BY <1>1, <2>1, OneIsLane, NoneFact, NextTodo
  <2>3. CASE ~IsLast(s, 1)
    <3>1. knock' = [knock EXCEPT ![s] = knock[s]] BY <1>9, <2>3 DEF OpenStep, Sessions
    <3>2. CallAlone(knock[s], d) BY <1>1, <2>2, <2>3 DEF CallAlone
    <3>3. ASSUME NEW p \in knock[s].ports, NEW a \in Source
          PROVE  Balanced(knock[s], c, knock[s], d, p, a)
      <4>1. p \in Port BY <1>7
      <4>2. CASE p = w /\ a = knock[s].source
        BY <1>1, <1>2, <1>3, <1>6, <1>9, <2>2, <2>3, <4>2 DEF Balanced, HasSource1, HasLogin1
      <4>3. CASE ~(p = w /\ a = knock[s].source)
        BY <1>1, <1>3, <1>6, <2>2, <2>3, <4>1, <4>3 DEF Balanced, HasSource1, HasLogin1
      <4>4. QED BY <4>2, <4>3
    <3> HIDE DEF w
    <3>4. QED
      BY <1>1, <1>2, <1>3, <1>4, <1>6, <2>2, <2>3, <3>1, <3>2, <3>3, OneIsLane, OneAnswer
  <2>4. CASE IsLast(s, 1)
    <3> DEFINE t == Ssh \in knock[s].ports
               r == [knock[s] EXCEPT !.status = "open", !.timer = TRUE, !.beat = TRUE,
                                     !.tail = t]
    <3>1. knock' = [knock EXCEPT ![s] = r]
      BY <1>2, <1>9, <2>4 DEF OpenStep, Sessions, Knock
    <3>2. t \in BOOLEAN OBVIOUS
    <3> HIDE DEF t
    <3>3. /\ r \in Knock /\ r.status = "open" /\ r.source = knock[s].source
          /\ r.login = AnyAddr /\ r.ports = knock[s].ports
      BY <1>2, <1>3, <3>2 DEF Knock
    <3> HIDE DEF r
    <3>4. d.step = "none" BY <2>2, <2>4 DEF NoCall
    <3>5. CallAlone(r, d) BY <3>4 DEF CallAlone
    <3>6. c.todo = {w} BY <2>4 DEF IsLast
    <3>7. ASSUME NEW p \in r.ports, NEW a \in Source
          PROVE  Balanced(knock[s], c, r, d, p, a)
      <4>1. p \in Port BY <1>7, <3>3
      <4>2. CASE p = w /\ a = knock[s].source
        BY <1>1, <1>3, <1>6, <1>9, <3>3, <3>4, <3>6, <4>2 DEF Balanced, HasSource1, HasLogin1
      <4>3. CASE ~(p = w /\ a = knock[s].source)
        BY <1>1, <1>3, <1>6, <3>3, <3>4, <3>6, <4>1, <4>3 DEF Balanced, HasSource1, HasLogin1
      <4>4. QED BY <4>2, <4>3
    <3> HIDE DEF w
    <3>8. QED
      BY <1>1, <1>2, <1>3, <1>4, <1>6, <2>2, <3>1, <3>3, <3>4, <3>5, <3>7, OneIsLane, OneAnswer
  <2>5. QED BY <2>3, <2>4
<1>10. QED BY <1>8, <1>9

LEMMA UndoStepCount ==
  ASSUME Rest, Sessions, Alone, Counted, NEW s \in Session, NEW o \in Outcome, UndoStep(s, o)
  PROVE  Alone' /\ Counted'
<1> DEFINE c == calls[s][1]
           w == PortOf(s, 1)
           r == IF IsLast(s, 1) THEN [knock[s] EXCEPT !.status = "closed"] ELSE knock[s]
<1>1. c.step = "undo" /\ UNCHANGED raced BY DEF UndoStep, Waiting
<1>2. /\ CallOK(knock[s], 1, c) /\ RecordOK(knock[s]) /\ knock[s] \in Knock /\ c \in Call
      /\ w \in Port /\ knock[s].source \in Source /\ w \in c.todo
  BY <1>1, OneIsLane, WaitFact, PortFact
<1>3. knock[s].status = "opening" /\ w \in knock[s].ports BY <1>1, <1>2 DEF CallOK
<1>4. Rest' BY UndoStepInv
<1>5. ClosePort(w, knock[s].source, o) BY DEF UndoStep
<1>6. /\ failures' >= failures
      /\ \A p \in Port, a \in Source :
           p # w \/ a # knock[s].source => rules'[<<p, a>>] = rules[<<p, a>>]
  BY <1>2, <1>5, CloseRules
<1>7. failures' > 0
  BY <1>1, <1>4, <1>6, OneIsLane DEF Alone, Rest
<1>8. PICK d \in Call :
         /\ calls' = [calls EXCEPT ![s] = [calls[s] EXCEPT ![1] = d]]
         /\ IsLast(s, 1) => d = NoCall
         /\ ~IsLast(s, 1) => d.step = c.step
  BY <1>1, OneIsLane, NoneFact, NextTodo DEF UndoStep
<1>9. knock' = [knock EXCEPT ![s] = r] BY DEF UndoStep, Sessions
<1>10. /\ r \in Knock /\ r.ports = knock[s].ports
       /\ IF IsLast(s, 1) THEN r.status = "closed" ELSE r.status = "opening"
  BY <1>2, <1>3 DEF Knock
<1> HIDE DEF r
<1>11. \/ r.status = "opening" /\ d.step = "undo"
       \/ r.status = "closed" /\ d.step = "none"
  <2>1. CASE IsLast(s, 1) BY <1>8, <1>10, <2>1, NoneFact
  <2>2. CASE ~IsLast(s, 1) BY <1>1, <1>8, <1>10, <2>2
  <2>3. QED BY <2>1, <2>2
<1>12. CallAlone(r, d) BY <1>11 DEF CallAlone
<1>13. \A p \in r.ports, a \in Source : Balanced(knock[s], c, r, d, p, a)
  BY <1>7, <1>10, <1>11 DEF Balanced, HasSource1, HasLogin1
<1>14. r.status # "new" /\ w \in r.ports BY <1>3, <1>10
<1> HIDE DEF w
<1>15. QED
  BY <1>1, <1>3, <1>4, <1>6, <1>7, <1>8, <1>9, <1>10, <1>12, <1>13, <1>14, OneIsLane, OneAnswer

LEMMA NarrowStepCount ==
  ASSUME Rest, Sessions, Alone, Counted, NEW s \in Session, NEW k \in Lane,
         NEW o \in Outcome, NarrowStep(s, k, o)
  PROVE  Alone' /\ Counted'
<1> DEFINE c == calls[s][k]
           w == PortOf(s, k)
<1>1. c.step = "narrow" /\ UNCHANGED raced BY DEF NarrowStep, Waiting
<1>2. /\ CallOK(knock[s], k, c) /\ knock[s] \in Knock /\ c \in Call
      /\ w \in Port /\ c.addr \in Source /\ w \in c.todo
  BY <1>1, WaitFact, PortFact
<1>3. /\ knock[s].status \in {"open", "closed"} /\ w \in knock[s].ports
      /\ c.todo \subseteq knock[s].ports
  BY <1>1, <1>2 DEF CallOK
<1>4. Rest' BY NarrowStepInv
<1>5. OpenPort(w, c.addr, o) BY DEF NarrowStep
<1>6. /\ failures' >= failures
      /\ \A p \in Port, a \in Source : p # w \/ a # c.addr => rules'[<<p, a>>] = rules[<<p, a>>]
      /\ o = "ok" => rules'[<<w, c.addr>>] = rules[<<w, c.addr>>] + 1
      /\ o # "ok" => /\ failures' > 0
                     /\ \A p \in Port, a \in Source : rules'[<<p, a>>] >= rules[<<p, a>>]
  BY <1>2, <1>5, OpenRules
<1>7. \A p \in Port, a \in Source :
        p \notin knock[s].ports => rules'[<<p, a>>] = rules[<<p, a>>]
  BY <1>3, <1>6
<1>8. knock[s].ports \subseteq Port BY <1>2 DEF Knock
<1>9. s \notin raced => knock[s].status = "open" /\ knock[s].login = AnyAddr
  BY <1>1, Lone DEF CallAlone
<1>10. knock' = [knock EXCEPT ![s] = knock[s]] BY DEF NarrowStep, Sessions
<1>11. knock[s].status # "new" /\ knock[s].status # "gone" BY <1>3
<1> HIDE DEF w
<1>12. CASE o = "ok"
  <2> DEFINE drop == [c EXCEPT !.step = "drop", !.todo = knock[s].ports]
  <2>1. /\ drop \in Call /\ drop.step = "drop" /\ drop.todo = knock[s].ports
        /\ drop.addr = c.addr
    BY <1>2, <1>8 DEF Call
  <2>2. NextPort(s, k, drop) BY <1>12 DEF NarrowStep
  <2> HIDE DEF drop
  <2>3. PICK d \in Call :
           /\ calls' = [calls EXCEPT ![s] = [calls[s] EXCEPT ![k] = d]]
           /\ IsLast(s, k) => d = drop
           /\ ~IsLast(s, k) => d.step = c.step /\ d.addr = c.addr /\ d.todo = c.todo \ {w}
    BY <1>1, <2>1, <2>2, NextTodo DEF w
  <2>4. d.addr = c.addr BY <2>1, <2>3
  <2>5. \/ d.step = "narrow" /\ d.todo = c.todo \ {w}
        \/ d.step = "drop" /\ d.todo = knock[s].ports /\ c.todo = {w}
    <3>1. CASE IsLast(s, k) BY <2>1, <2>3, <3>1 DEF IsLast, w
    <3>2. CASE ~IsLast(s, k) BY <1>1, <2>3, <3>2
    <3>3. QED BY <3>1, <3>2
  <2>6. s \notin raced => CallAlone(knock[s], d) BY <1>9, <2>5 DEF CallAlone
  <2>7. ASSUME s \notin raced, NEW p \in knock[s].ports, NEW a \in Source
        PROVE  Balanced(knock[s], c, knock[s], d, p, a)
    <3>1. p \in Port BY <1>8
    <3>2. CASE p = w /\ a = c.addr
      BY <1>1, <1>2, <1>3, <1>6, <1>9, <1>12, <2>4, <2>5, <2>7, <3>2
      DEF Balanced, HasSource1, HasLogin1
    <3>3. CASE ~(p = w /\ a = c.addr)
      BY <1>1, <1>6, <1>9, <2>4, <2>5, <2>7, <3>1, <3>3 DEF Balanced, HasSource1, HasLogin1
    <3>4. QED BY <3>2, <3>3
  <2>8. d.step # "undo" BY <2>5
  <2>9. QED
    BY <1>1, <1>2, <1>4, <1>6, <1>7, <1>10, <1>11, <2>3, <2>6, <2>7, <2>8, OneAnswer
<1>13. CASE o # "ok"
  <2> DEFINE opened == knock[s].ports \ c.todo
             back == [c EXCEPT !.step = "rollback", !.todo = opened]
             d == IF opened = {} THEN NoCall ELSE back
  <2>1. Await(s, k, d) BY <1>13 DEF NarrowStep
  <2>2. /\ back \in Call /\ back.step = "rollback" /\ back.todo = opened
        /\ back.addr = c.addr
    BY <1>2, <1>8 DEF Call
  <2>3. calls' = [calls EXCEPT ![s] = [calls[s] EXCEPT ![k] = d]] BY <2>1, AwaitFact
  <2>4. d \in Call BY <2>2, NoneFact
  <2> HIDE DEF back
  <2>5. \/ opened = {} /\ d.step = "none"
        \/ d.step = "rollback" /\ d.todo = opened /\ d.addr = c.addr
    BY <2>2, NoneFact
  <2> HIDE DEF d
  <2>6. s \notin raced => CallAlone(knock[s], d) BY <1>9, <2>5 DEF CallAlone
  <2>7. ASSUME s \notin raced, NEW p \in knock[s].ports, NEW a \in Source
        PROVE  Balanced(knock[s], c, knock[s], d, p, a)
    <3>1. p \in Port BY <1>8
    <3>2. HasSource1(knock[s], d, p, a) => HasSource1(knock[s], c, p, a)
      BY <1>1, <1>9, <2>5, <2>7 DEF HasSource1
    <3>3. HasLogin1(knock[s], d, p, a) => HasLogin1(knock[s], c, p, a)
      BY <1>1, <1>9, <2>5, <2>7 DEF HasLogin1
    <3>4. QED BY <1>6, <1>13, <3>1, <3>2, <3>3 DEF Balanced
  <2>8. d.step # "undo" BY <2>5
  <2>9. QED
    BY <1>1, <1>2, <1>4, <1>6, <1>7, <1>10, <1>11, <2>3, <2>4, <2>6, <2>7, <2>8, OneAnswer
<1>14. QED BY <1>12, <1>13

LEMMA RollbackStepCount ==
  ASSUME Rest, Sessions, Alone, Counted, NEW s \in Session, NEW k \in Lane,
         NEW o \in Outcome, RollbackStep(s, k, o)
  PROVE  Alone' /\ Counted'
<1> DEFINE c == calls[s][k]
           w == PortOf(s, k)
<1>1. c.step = "rollback" /\ UNCHANGED raced BY DEF RollbackStep, Waiting
<1>2. /\ CallOK(knock[s], k, c) /\ knock[s] \in Knock /\ c \in Call
      /\ w \in Port /\ c.addr \in Source /\ w \in c.todo
  BY <1>1, WaitFact, PortFact
<1>3. /\ knock[s].status \in {"open", "closed"} /\ w \in knock[s].ports
  BY <1>1, <1>2 DEF CallOK
<1>4. Rest' BY RollbackStepInv
<1>5. ClosePort(w, c.addr, o) BY DEF RollbackStep
<1>6. /\ failures' >= failures
      /\ \A p \in Port, a \in Source : p # w \/ a # c.addr => rules'[<<p, a>>] = rules[<<p, a>>]
      /\ o = "ok" => rules'[<<w, c.addr>>] = rules[<<w, c.addr>>] - 1 \/ rules[<<w, c.addr>>] = 0
      /\ o # "ok" => failures' > 0 /\ rules' = rules
  BY <1>2, <1>5, CloseRules
<1>7. \A p \in Port, a \in Source :
        p \notin knock[s].ports => rules'[<<p, a>>] = rules[<<p, a>>]
  BY <1>3, <1>6
<1>8. \A p \in Port, a \in Source : rules[<<p, a>>] \in Nat
  BY DEF Rest
<1>9. s \notin raced => knock[s].status = "open" /\ knock[s].login = AnyAddr
  BY <1>1, Lone DEF CallAlone
<1>10. knock' = [knock EXCEPT ![s] = knock[s]] BY DEF RollbackStep, Sessions
<1>11. knock[s].status # "new" /\ knock[s].status # "gone" BY <1>3
<1>12. PICK d \in Call :
         /\ calls' = [calls EXCEPT ![s] = [calls[s] EXCEPT ![k] = d]]
         /\ IsLast(s, k) => d = NoCall
         /\ ~IsLast(s, k) => d.step = c.step /\ d.addr = c.addr /\ d.todo = c.todo \ {w}
  BY <1>1, NoneFact, NextTodo DEF RollbackStep
<1>13. \/ d.step = "none" /\ c.todo = {w}
       \/ d.step = "rollback" /\ d.addr = c.addr /\ d.todo = c.todo \ {w}
  <2>1. CASE IsLast(s, k) BY <1>12, <2>1, NoneFact DEF IsLast
  <2>2. CASE ~IsLast(s, k) BY <1>1, <1>12, <2>2
  <2>3. QED BY <2>1, <2>2
<1> HIDE DEF w
<1>14. s \notin raced => CallAlone(knock[s], d) BY <1>9, <1>13 DEF CallAlone
<1>15. ASSUME s \notin raced, NEW p \in knock[s].ports, NEW a \in Source
       PROVE  Balanced(knock[s], c, knock[s], d, p, a)
  <2>1. p \in Port BY <1>2 DEF Knock
  <2>2. HasSource1(knock[s], d, p, a) <=> HasSource1(knock[s], c, p, a)
    BY <1>1, <1>9, <1>13, <1>15 DEF HasSource1
  <2>3. CASE p = w /\ a = c.addr
    <3>1. HasLogin1(knock[s], c, p, a) /\ ~HasLogin1(knock[s], d, p, a)
      BY <1>1, <1>2, <1>9, <1>13, <1>15, <2>3 DEF HasLogin1
    <3>2. CASE o = "ok" BY <1>6, <2>2, <2>3, <3>1, <3>2 DEF Balanced
    <3>3. CASE o # "ok" BY <1>6, <1>8, <2>1, <2>2, <3>1, <3>3 DEF Balanced
    <3>4. QED BY <3>2, <3>3
  <2>4. CASE ~(p = w /\ a = c.addr)
    <3>1. HasLogin1(knock[s], d, p, a) <=> HasLogin1(knock[s], c, p, a)
      BY <1>1, <1>9, <1>13, <1>15, <2>4 DEF HasLogin1
    <3>2. QED BY <1>6, <2>1, <2>2, <2>4, <3>1 DEF Balanced
  <2>5. QED BY <2>3, <2>4
<1>16. d.step # "undo" BY <1>13
<1>17. QED
  BY <1>1, <1>2, <1>4, <1>6, <1>7, <1>10, <1>11, <1>12, <1>14, <1>15, <1>16, OneAnswer

LEMMA DropStepCount ==
  ASSUME Rest, Sessions, Alone, Counted, NEW s \in Session, NEW k \in Lane,
         NEW o \in Outcome, DropStep(s, k, o)
  PROVE  Alone' /\ Counted'
<1> DEFINE c == calls[s][k]
           w == PortOf(s, k)
           source == knock[s].source
           r == IF IsLast(s, k)
                  THEN [knock[s] EXCEPT !.timer = FALSE, !.login = c.addr, !.tail = FALSE]
                  ELSE knock[s]
<1>1. c.step = "drop" /\ UNCHANGED raced BY DEF DropStep, Waiting
<1>2. /\ CallOK(knock[s], k, c) /\ knock[s] \in Knock /\ c \in Call
      /\ w \in Port /\ source \in Source /\ c.addr \in Source /\ w \in c.todo
  BY <1>1, WaitFact, PortFact
<1>3. /\ knock[s].status \in {"open", "closed"} /\ w \in knock[s].ports
      /\ c.addr # AnyAddr
  BY <1>1, <1>2, KnockAssumption DEF CallOK
<1>4. Rest' BY DropStepInv
<1>5. ClosePort(w, source, o) BY DEF DropStep
<1>6. /\ failures' >= failures
      /\ \A p \in Port, a \in Source : p # w \/ a # source => rules'[<<p, a>>] = rules[<<p, a>>]
      /\ o = "ok" => rules'[<<w, source>>] = rules[<<w, source>>] - 1 \/ rules[<<w, source>>] = 0
      /\ o # "ok" => failures' > 0 /\ rules' = rules
  BY <1>2, <1>5, CloseRules
<1>7. \A p \in Port, a \in Source :
        p \notin knock[s].ports => rules'[<<p, a>>] = rules[<<p, a>>]
  BY <1>3, <1>6
<1>8. \A p \in Port, a \in Source : rules[<<p, a>>] \in Nat
  BY DEF Rest
<1>9. s \notin raced => knock[s].status = "open" /\ knock[s].login = AnyAddr
  BY <1>1, Lone DEF CallAlone
<1>10. knock' = [knock EXCEPT ![s] = r] BY <1>2 DEF DropStep, Sessions, Knock
<1>11. /\ r \in Knock /\ r.ports = knock[s].ports /\ r.source = source
       /\ r.status = knock[s].status
       /\ r.login = IF IsLast(s, k) THEN c.addr ELSE knock[s].login
  BY <1>2 DEF Knock
<1>12. PICK d \in Call :
         /\ calls' = [calls EXCEPT ![s] = [calls[s] EXCEPT ![k] = d]]
         /\ IsLast(s, k) => d = NoCall
         /\ ~IsLast(s, k) => d.step = c.step /\ d.addr = c.addr /\ d.todo = c.todo \ {w}
  BY <1>1, NoneFact, NextTodo DEF DropStep
<1> HIDE DEF r
<1>13. \/ d.step = "none" /\ c.todo = {w} /\ r.login = c.addr
       \/ /\ d.step = "drop" /\ d.addr = c.addr /\ d.todo = c.todo \ {w}
          /\ r.login = knock[s].login
  <2>1. CASE IsLast(s, k) BY <1>11, <1>12, <2>1, NoneFact DEF IsLast
  <2>2. CASE ~IsLast(s, k) BY <1>1, <1>11, <1>12, <2>2
  <2>3. QED BY <2>1, <2>2
<1> HIDE DEF w
<1>14. s \notin raced => CallAlone(r, d) BY <1>9, <1>11, <1>13 DEF CallAlone
<1>15. ASSUME s \notin raced, NEW p \in r.ports, NEW a \in Source
       PROVE  Balanced(knock[s], c, r, d, p, a)
  <2>1. p \in Port BY <1>2, <1>11 DEF Knock
  <2>2. HasLogin1(r, d, p, a) <=> HasLogin1(knock[s], c, p, a)
    BY <1>1, <1>3, <1>9, <1>11, <1>13, <1>15 DEF HasLogin1
  <2>3. CASE p = w /\ a = source
    <3>1. HasSource1(knock[s], c, p, a) /\ ~HasSource1(r, d, p, a)
      BY <1>1, <1>2, <1>3, <1>9, <1>11, <1>13, <1>15, <2>3 DEF HasSource1
    <3>2. CASE o = "ok" BY <1>6, <2>2, <2>3, <3>1, <3>2 DEF Balanced
    <3>3. CASE o # "ok" BY <1>6, <1>8, <2>1, <2>2, <3>1, <3>3 DEF Balanced
    <3>4. QED BY <3>2, <3>3
  <2>4. CASE ~(p = w /\ a = source)
    <3>1. HasSource1(r, d, p, a) <=> HasSource1(knock[s], c, p, a)
      BY <1>1, <1>3, <1>9, <1>11, <1>13, <1>15, <2>4 DEF HasSource1
    <3>2. QED BY <1>6, <2>1, <2>2, <2>4, <3>1 DEF Balanced
  <2>5. QED BY <2>3, <2>4
<1>16. d.step # "undo" BY <1>13
<1>17. r.status # "new" /\ knock[s].status # "gone" BY <1>3, <1>11
<1>18. QED
  BY <1>1, <1>2, <1>4, <1>6, <1>7, <1>10, <1>11, <1>12, <1>14, <1>15, <1>16, <1>17, OneAnswer

LEMMA CloseStepCount ==
  ASSUME Rest, Sessions, Alone, Counted, NEW s \in Session, NEW k \in Lane,
         NEW o \in Outcome, CloseStep(s, k, o)
  PROVE  Alone' /\ Counted'
<1> DEFINE c == calls[s][k]
           w == PortOf(s, k)
           r == IF IsLast(s, k) THEN [knock[s] EXCEPT !.status = "closed"] ELSE knock[s]
<1>1. c.step = "close" /\ UNCHANGED raced BY DEF CloseStep, Waiting
<1>2. /\ CallOK(knock[s], k, c) /\ knock[s] \in Knock /\ c \in Call
      /\ w \in Port /\ c.addr \in Source /\ w \in c.todo
  BY <1>1, WaitFact, PortFact
<1>3. knock[s].status \in {"open", "closed"} /\ w \in knock[s].ports
  BY <1>1, <1>2 DEF CallOK
<1>4. Rest' BY CloseStepInv
<1>5. ClosePort(w, c.addr, o) BY DEF CloseStep
<1>6. /\ failures' >= failures
      /\ \A p \in Port, a \in Source : p # w \/ a # c.addr => rules'[<<p, a>>] = rules[<<p, a>>]
      /\ o = "ok" => rules'[<<w, c.addr>>] = rules[<<w, c.addr>>] - 1 \/ rules[<<w, c.addr>>] = 0
      /\ o # "ok" => failures' > 0 /\ rules' = rules
  BY <1>2, <1>5, CloseRules
<1>7. \A p \in Port, a \in Source :
        p \notin knock[s].ports => rules'[<<p, a>>] = rules[<<p, a>>]
  BY <1>3, <1>6
<1>8. \A p \in Port, a \in Source : rules[<<p, a>>] \in Nat
  BY DEF Rest
<1>9. s \notin raced =>
        /\ knock[s].status = "open"
        /\ c.addr = IF knock[s].login # AnyAddr THEN knock[s].login ELSE knock[s].source
  BY <1>1, Lone DEF CallAlone
<1>10. knock' = [knock EXCEPT ![s] = r] BY DEF CloseStep, Sessions
<1>11. /\ r \in Knock /\ r.ports = knock[s].ports /\ r.source = knock[s].source
       /\ r.login = knock[s].login
       /\ r.status = IF IsLast(s, k) THEN "closed" ELSE knock[s].status
  BY <1>2 DEF Knock
<1>12. PICK d \in Call :
         /\ calls' = [calls EXCEPT ![s] = [calls[s] EXCEPT ![k] = d]]
         /\ IsLast(s, k) => d = NoCall
         /\ ~IsLast(s, k) => d.step = c.step /\ d.addr = c.addr /\ d.todo = c.todo \ {w}
  BY <1>1, NoneFact, NextTodo DEF CloseStep
<1> HIDE DEF r
<1>13. \/ d.step = "none" /\ c.todo = {w} /\ r.status = "closed"
       \/ /\ d.step = "close" /\ d.addr = c.addr /\ d.todo = c.todo \ {w}
          /\ r.status = knock[s].status
  <2>1. CASE IsLast(s, k) BY <1>11, <1>12, <2>1, NoneFact DEF IsLast
  <2>2. CASE ~IsLast(s, k) BY <1>1, <1>11, <1>12, <2>2
  <2>3. QED BY <2>1, <2>2
<1> HIDE DEF w
<1>14. s \notin raced => CallAlone(r, d) BY <1>9, <1>11, <1>13 DEF CallAlone
<1>15. ASSUME s \notin raced, NEW p \in r.ports, NEW a \in Source
       PROVE  Balanced(knock[s], c, r, d, p, a)
  <2>1. p \in Port BY <1>2, <1>11 DEF Knock
  <2>2. /\ HasSource1(knock[s], c, p, a) <=>
             a = knock[s].source /\ knock[s].login = AnyAddr /\ p \in c.todo
        /\ HasLogin1(knock[s], c, p, a) <=>
             a = knock[s].login /\ knock[s].login # AnyAddr /\ p \in c.todo
    BY <1>1, <1>9, <1>11, <1>15 DEF HasSource1, HasLogin1
  <2>3. /\ HasSource1(r, d, p, a) <=>
             a = knock[s].source /\ knock[s].login = AnyAddr /\ p \in c.todo \ {w}
        /\ HasLogin1(r, d, p, a) <=>
             a = knock[s].login /\ knock[s].login # AnyAddr /\ p \in c.todo \ {w}
    BY <1>1, <1>9, <1>11, <1>13, <1>15 DEF HasSource1, HasLogin1
  <2>4. CASE p = w /\ a = c.addr
    <3>1. \/ /\ HasSource1(knock[s], c, p, a) /\ ~HasSource1(r, d, p, a)
             /\ ~HasLogin1(knock[s], c, p, a) /\ ~HasLogin1(r, d, p, a)
          \/ /\ HasLogin1(knock[s], c, p, a) /\ ~HasLogin1(r, d, p, a)
             /\ ~HasSource1(knock[s], c, p, a) /\ ~HasSource1(r, d, p, a)
      BY <1>2, <1>9, <1>15, <2>2, <2>3, <2>4
    <3>2. CASE o = "ok" BY <1>6, <2>4, <3>1, <3>2 DEF Balanced
    <3>3. CASE o # "ok" BY <1>6, <1>8, <2>1, <3>1, <3>3 DEF Balanced
    <3>4. QED BY <3>2, <3>3
  <2>5. CASE ~(p = w /\ a = c.addr)
    <3>1. /\ HasSource1(r, d, p, a) <=> HasSource1(knock[s], c, p, a)
          /\ HasLogin1(r, d, p, a) <=> HasLogin1(knock[s], c, p, a)
      BY <1>9, <1>15, <2>2, <2>3, <2>5
    <3>2. QED BY <1>6, <2>1, <2>5, <3>1 DEF Balanced
  <2>6. QED BY <2>4, <2>5
<1>16. d.step # "undo" BY <1>13
<1>17. r.status # "new" /\ knock[s].status # "gone" BY <1>3, <1>13
<1>18. QED
  BY <1>1, <1>2, <1>4, <1>6, <1>7, <1>10, <1>11, <1>12, <1>14, <1>15, <1>16, <1>17, OneAnswer

(* A function is called: if it is alone, the session had none. *)
LEMMA OneBegin ==
  ASSUME Rest, Rest', Sessions, Alone, Counted, NEW s \in Session, NEW k \in Lane,
         NEW r \in Knock, NEW d \in Call, Begin(s, k, d),
         knock' = [knock EXCEPT ![s] = r], UNCHANGED rules, failures' >= failures,
         knock[s].ports \subseteq r.ports, r.status # "new", knock[s].status # "gone",
         CallAlone(r, d), d.step # "undo",
         calls[s][k].step = "none" => \A p \in r.ports, a \in Source :
           /\ HasSource1(r, d, p, a) <=> HasSource1(knock[s], calls[s][k], p, a)
           /\ HasLogin1(r, d, p, a) <=> HasLogin1(knock[s], calls[s][k], p, a)
  PROVE  Alone' /\ Counted'
<1>1. /\ calls' = [calls EXCEPT ![s] = [calls[s] EXCEPT ![k] = d]]
      /\ calls[s][k].step = "none"
  BY BeginFact
<1>2. raced' = IF \A j \in Lane : calls[s][j].step = "none" THEN raced ELSE raced \cup {s}
  BY DEF Begin, Waiting
<1>3. s \notin raced' => \A j \in Lane \ {k} : calls[s][j].step = "none" BY <1>2
<1>4. raced \subseteq raced' /\ raced' \subseteq raced \cup {s} BY <1>2
<1>5. \A p \in r.ports, a \in Source : Balanced(knock[s], calls[s][k], r, d, p, a)
  BY <1>1 DEF Balanced
<1>6. \A p \in Port, a \in Source : p \notin r.ports => rules'[<<p, a>>] = rules[<<p, a>>]
  OBVIOUS
<1>7. QED BY <1>1, <1>3, <1>4, <1>5, <1>6, OneChange

LEMMA ExecuteCount ==
  ASSUME Rest, Sessions, Alone, Counted, NEW s \in Session, NEW P \in PortSets,
         NEW a \in Sources, Execute(s, P, a)
  PROVE  Alone' /\ Counted'
<1> DEFINE r == [NewKnock EXCEPT !.status = "opening", !.ports = P, !.source = a]
           d == [step |-> "open", todo |-> P, addr |-> a]
<1>1. P \in SUBSET Port /\ a \in Source BY KnockAssumption DEF Source
<1>2. Begin(s, 1, d) /\ knock' = [knock EXCEPT ![s] = r] BY DEF Execute
<1>3. Rest' BY ExecuteStep
<1>4. knock[s].status = "new" /\ UNCHANGED rules /\ failures' >= failures
  BY DEF Execute, countVars, Rest
<1>5. knock[s].ports = {} BY <1>4 DEF Alone
<1>6. r \in Knock /\ r.status = "opening" /\ r.ports = P
  BY <1>1 DEF Knock, NewKnock, Source
<1>7. d \in Call /\ d.step = "open" /\ d.todo = P BY <1>1 DEF Call
<1> HIDE DEF r, d
<1>8. CallAlone(r, d) BY <1>7 DEF CallAlone
<1>9. \A p \in r.ports, b \in Source :
        /\ HasSource1(r, d, p, b) <=> HasSource1(knock[s], calls[s][1], p, b)
        /\ HasLogin1(r, d, p, b) <=> HasLogin1(knock[s], calls[s][1], p, b)
  BY <1>5, <1>6, <1>7 DEF HasSource1, HasLogin1
<1>10. knock[s].ports \subseteq r.ports /\ r.status # "new" /\ knock[s].status # "gone"
       /\ d.step # "undo"
  BY <1>4, <1>5, <1>6, <1>7
<1>11. QED
  BY <1>2, <1>3, <1>4, <1>6, <1>7, <1>8, <1>9, <1>10, OneIsLane, OneBegin

LEMMA BeginNarrowCount ==
  ASSUME Rest, Rest', Sessions, Alone, Counted, NEW s \in Session, NEW k \in Lane,
         NEW ip \in Addr, BeginNarrow(s, k, ip), UNCHANGED <<knock, rules>>,
         failures' >= failures
  PROVE  Alone' /\ Counted'
<1> DEFINE d == [step |-> "narrow", todo |-> knock[s].ports, addr |-> ip]
<1>1. knock[s].status = "open" /\ knock[s].login = AnyAddr /\ Begin(s, k, d)
  BY DEF BeginNarrow
<1>2. knock[s] \in Knock /\ knock' = [knock EXCEPT ![s] = knock[s]] BY DEF Sessions
<1>3. d \in Call /\ d.step = "narrow" /\ d.todo = knock[s].ports BY <1>2 DEF Call, Knock, Source
<1> HIDE DEF d
<1>4. CallAlone(knock[s], d) BY <1>1, <1>3 DEF CallAlone
<1>5. calls[s][k].step = "none" => \A p \in knock[s].ports, a \in Source :
        /\ HasSource1(knock[s], d, p, a) <=> HasSource1(knock[s], calls[s][k], p, a)
        /\ HasLogin1(knock[s], d, p, a) <=> HasLogin1(knock[s], calls[s][k], p, a)
  BY <1>1, <1>3 DEF HasSource1, HasLogin1
<1>6. knock[s].status # "new" /\ knock[s].status # "gone" /\ d.step # "undo" BY <1>1, <1>3
<1>7. QED BY <1>1, <1>2, <1>3, <1>4, <1>5, <1>6, OneBegin

LEMMA BeginCloseCount ==
  ASSUME Rest, Rest', Sessions, Alone, Counted, NEW s \in Session, NEW k \in Lane,
         BeginClose(s, k), UNCHANGED rules, failures' >= failures
  PROVE  Alone' /\ Counted'
<1> DEFINE r == [knock[s] EXCEPT !.timer = FALSE, !.beat = FALSE, !.tail = FALSE]
           d == [step |-> "close", todo |-> knock[s].ports, addr |-> CloseSource(s)]
<1>1. knock[s].status = "open" /\ Begin(s, k, d) BY DEF BeginClose
<1>2. knock[s] \in Knock BY DEF Sessions
<1>3. knock' = [knock EXCEPT ![s] = r] BY <1>2 DEF BeginClose, Sessions, Knock
<1>4. /\ r \in Knock /\ r.status = "open" /\ r.ports = knock[s].ports
      /\ r.login = knock[s].login /\ r.source = knock[s].source
  BY <1>1, <1>2 DEF Knock
<1>5. /\ d \in Call /\ d.step = "close" /\ d.todo = knock[s].ports
      /\ d.addr = IF knock[s].login # AnyAddr THEN knock[s].login ELSE knock[s].source
  BY <1>2 DEF Call, CloseSource, Knock
<1> HIDE DEF r, d
<1>6. CallAlone(r, d) BY <1>4, <1>5 DEF CallAlone
<1>7. calls[s][k].step = "none" => \A p \in r.ports, a \in Source :
        /\ HasSource1(r, d, p, a) <=> HasSource1(knock[s], calls[s][k], p, a)
        /\ HasLogin1(r, d, p, a) <=> HasLogin1(knock[s], calls[s][k], p, a)
  BY <1>1, <1>4, <1>5 DEF HasSource1, HasLogin1
<1>8. /\ knock[s].ports \subseteq r.ports /\ r.status # "new" /\ knock[s].status # "gone"
      /\ d.step # "undo"
  BY <1>1, <1>4, <1>5
<1>9. QED BY <1>1, <1>3, <1>4, <1>5, <1>6, <1>7, <1>8, OneBegin

(* The process ends: a session that was open is gone, and answers for nothing. *)
LEMMA DownCount ==
  ASSUME Rest, Rest', Sessions, Alone, Counted, Down
  PROVE  Alone' /\ Counted'
<1>1. /\ \A s \in Session : knock'[s].status \in {"new", "closed", "gone"}
      /\ \A s \in Session : knock'[s].ports = knock[s].ports
      /\ \A s \in Session : knock[s].status = "gone" => knock'[s].status = "gone"
      /\ \A s \in Session : knock[s].status \in {"opening", "open"} =>
                              knock'[s].status = "gone"
      /\ \A s \in Session : knock'[s].status = "new" => knock[s].status = "new"
  <2> SUFFICES ASSUME NEW s \in Session
               PROVE  /\ knock'[s].status \in {"new", "closed", "gone"}
                      /\ knock'[s].ports = knock[s].ports
                      /\ knock[s].status = "gone" => knock'[s].status = "gone"
                      /\ knock[s].status \in {"opening", "open"} => knock'[s].status = "gone"
                      /\ knock'[s].status = "new" => knock[s].status = "new"
    OBVIOUS
  <2>1. knock[s] \in Knock BY DEF Sessions
  <2>2. CASE knock[s].status \in {"opening", "open"}
    <3>1. knock'[s] = [knock[s] EXCEPT !.status = "gone", !.timer = FALSE, !.beat = FALSE,
                                       !.tail = FALSE]
      BY <2>2 DEF Down
    <3>2. knock'[s].status = "gone" /\ knock'[s].ports = knock[s].ports
      BY <2>1, <3>1 DEF Knock
    <3>3. QED BY <2>2, <3>2
  <2>3. CASE knock[s].status \notin {"opening", "open"}
    <3>1. knock'[s] = knock[s] BY <2>3 DEF Down
    <3>2. QED BY <2>1, <2>3, <3>1 DEF Knock
  <2>4. QED BY <2>2, <2>3
<1>2. \A s \in Session, k \in Lane : calls'[s][k].step = "none" BY NoneFact DEF Down
<1>3. Alone' BY <1>1, <1>2 DEF Alone, CallAlone
<1>4. UNCHANGED <<rules, failures, raced>> BY DEF Down
<1>5. ASSUME NEW p \in Port, NEW a \in Source, Clean(p)'
      PROVE  Tally(SourceRules(p, a), LoginRules(p, a), rules[<<p, a>>], Quiet(p))'
  <2>1. Clean(p) BY <1>1, <1>4, <1>5 DEF Clean
  <2>2. SourceRules(p, a)' = {} /\ LoginRules(p, a)' = {}
    BY <1>1 DEF SourceRules, LoginRules, HasSource, HasLogin
  <2>3. rules[<<p, a>>] \in Nat /\ UNCHANGED rules BY <1>4 DEF Rest
  <2>4. Quiet(p)' => rules[<<p, a>>] = 0
    <3>1. SUFFICES ASSUME Quiet(p)' PROVE rules[<<p, a>>] = 0 OBVIOUS
    <3>2. Quiet(p) /\ \A s \in Session : p \in knock[s].ports => knock[s].status \notin {"opening", "open"}
      BY <1>1, <1>4, <3>1 DEF Quiet
    <3>3. SourceRules(p, a) = {} /\ LoginRules(p, a) = {}
      BY <3>2 DEF SourceRules, LoginRules, HasSource, HasLogin
    <3>4. QED BY <2>1, <3>2, <3>3, FS_EmptySet DEF Counted, Tally
  <2>5. PICK q \in BOOLEAN : q <=> Quiet(p)' OBVIOUS
  <2>6. Tally({}, {}, rules[<<p, a>>], q) BY <2>3, <2>4, <2>5, TallyEmpty
  <2>7. QED BY <2>2, <2>3, <2>5, <2>6 DEF Tally
<1>6. QED BY <1>3, <1>5 DEF Counted

LEMMA SameCount ==
  ASSUME Alone, Counted, UNCHANGED <<rules, knock, calls, failures, raced>>
  PROVE  Alone' /\ Counted'
<1>1. Alone' BY DEF Alone, CallAlone
<1>2. ASSUME NEW p \in Port, NEW a \in Source, Clean(p)'
      PROVE  Tally(SourceRules(p, a), LoginRules(p, a), rules[<<p, a>>], Quiet(p))'
  <2>1. Clean(p) BY <1>2 DEF Clean
  <2>2. SourceRules(p, a)' = SourceRules(p, a) BY DEF SourceRules, HasSource
  <2>3. LoginRules(p, a)' = LoginRules(p, a) BY DEF LoginRules, HasLogin
  <2>4. Quiet(p)' <=> Quiet(p) BY DEF Quiet
  <2>5. Tally(SourceRules(p, a), LoginRules(p, a), rules[<<p, a>>], Quiet(p))
    BY <2>1 DEF Counted
  <2>6. QED BY <2>2, <2>3, <2>4, <2>5 DEF Tally
<1>3. QED BY <1>1, <1>2 DEF Counted

(***************************************************************************)
(* The invariant, and what it says of the firewall.                        *)
(***************************************************************************)
LEMMA CountInit == Init => Alone /\ Counted
<1> SUFFICES ASSUME Init PROVE Alone /\ Counted OBVIOUS
<1>1. /\ \A s \in Session : knock[s].status = "new" /\ knock[s].ports = {}
      /\ \A s \in Session, k \in Lane : calls[s][k].step = "none"
      /\ failures = 0 /\ raced = {} /\ \A r \in Port \X Source : rules[r] = 0
  BY DEF Init, NewKnock, NoCall
<1>2. Alone BY <1>1 DEF Alone, CallAlone
<1>3. ASSUME NEW p \in Port, NEW a \in Source
      PROVE  Tally(SourceRules(p, a), LoginRules(p, a), rules[<<p, a>>], Quiet(p))
  <2>1. SourceRules(p, a) = {} /\ LoginRules(p, a) = {}
    BY <1>1 DEF SourceRules, LoginRules, HasSource, HasLogin
  <2>2. rules[<<p, a>>] = 0 BY <1>1
  <2>3. QED BY <2>1, <2>2, FS_EmptySet DEF Tally
<1>4. QED BY <1>2, <1>3 DEF Counted

LEMMA CountStep ==
  ASSUME Rest, Rest', Sessions, Alone, Counted, [Next]_vars
  PROVE  Alone' /\ Counted'
<1>1. ASSUME NEW s \in Session, Step(s) PROVE Alone' /\ Counted'
  BY <1>1, OpenStepCount, UndoStepCount, NarrowStepCount, RollbackStepCount, DropStepCount,
     CloseStepCount DEF Step
<1>2. ASSUME NEW s \in Session, TimerFires(s) PROVE Alone' /\ Counted'
  BY <1>2, BeginCloseCount DEF TimerFires, countVars, Rest
<1>3. ASSUME NEW s \in Session, Heartbeat(s) PROVE Alone' /\ Counted'
  <2>1. file # NoFile => file.ip \in Addr BY DEF Rest
  <2>2. UNCHANGED rules /\ failures' >= failures BY <1>3 DEF Heartbeat, countVars, Rest
  <2>3. QED BY <1>3, <2>1, <2>2, BeginCloseCount, BeginNarrowCount DEF Heartbeat
<1>4. ASSUME NEW s \in Session, CloseNext(s) PROVE Alone' /\ Counted'
  <2>1. 0 \in Lane BY KnockAssumption DEF Lane
  <2>2. QED BY <1>4, <2>1, BeginCloseCount DEF CloseNext, countVars, Rest
<1>5. ASSUME NEW s \in Session, NEW ip \in Addr, AuthLogLine(s, ip) PROVE Alone' /\ Counted'
  <2>1. PICK k \in Lane : BeginNarrow(s, k, ip) BY <1>5 DEF AuthLogLine
  <2>2. UNCHANGED <<rules, knock>> BY <1>5 DEF AuthLogLine
  <2>3. failures' >= failures BY <1>5 DEF AuthLogLine, Answer, Rest
  <2>4. QED BY <2>1, <2>2, <2>3, BeginNarrowCount
<1>6. ASSUME NEW s \in Session, NEW P \in PortSets, NEW a \in Sources, Execute(s, P, a)
      PROVE  Alone' /\ Counted'
  BY <1>6, ExecuteCount
<1>7. ASSUME NEW ip \in Addr, TouchFile(ip) PROVE Alone' /\ Counted'
  BY <1>7, SameCount DEF TouchFile
<1>8. CASE FileGoesStale BY <1>8, SameCount DEF FileGoesStale, countVars
<1>9. CASE FileRemoved BY <1>9, SameCount DEF FileRemoved, countVars
<1>10. CASE Interrupt BY <1>10, SameCount DEF Interrupt
<1>11. CASE AllClosed BY <1>11, SameCount DEF AllClosed, countVars
<1>12. CASE Exit BY <1>12, DownCount DEF Exit
<1>13. CASE Crash BY <1>13, DownCount DEF Crash
<1>14. CASE Restart BY <1>14, SameCount DEF Restart, countVars
<1>15. CASE UNCHANGED vars BY <1>15, SameCount DEF vars, countVars
<1>16. QED
  BY <1>1, <1>2, <1>3, <1>4, <1>5, <1>6, <1>7, <1>8, <1>9, <1>10, <1>11, <1>12, <1>13,
     <1>14, <1>15 DEF Next

LEMMA CountNoRule == Rest /\ Counted => NoRuleLeft
<1> SUFFICES ASSUME Rest, Counted, failures = 0, NEW p \in Port, NEW a \in Source,
                    \A s \in Session : p \in knock[s].ports =>
                      /\ knock[s].status = "closed" /\ s \notin raced
                      /\ \A k \in Lane : Waiting(s, k, "none")
             PROVE  rules[<<p, a>>] = 0
  BY DEF NoRuleLeft
<1>1. Clean(p) /\ Quiet(p) BY DEF Clean, Quiet
<1>2. SourceRules(p, a) = {} /\ LoginRules(p, a) = {}
  BY DEF SourceRules, LoginRules, HasSource, HasLogin
<1>3. QED BY <1>1, <1>2, FS_EmptySet DEF Counted, Tally

LEMMA SomeRule ==
  ASSUME Rest, Counted, NEW s \in Session, NEW p \in Port, NEW a \in Source, Clean(p),
         HasSource(knock[s], calls[s], p, a) \/ HasLogin(knock[s], calls[s], p, a)
  PROVE  rules[<<p, a>>] > 0
<1> DEFINE A == SourceRules(p, a)
           B == LoginRules(p, a)
<1>1. A # {} \/ B # {} BY DEF SourceRules, LoginRules
<1>2. /\ IsFiniteSet(A) /\ IsFiniteSet(B)
      /\ rules[<<p, a>>] >= Cardinality(A) + Cardinality(B)
  BY DEF Counted, Tally
<1>3. rules[<<p, a>>] \in Nat BY DEF Rest
<1> HIDE DEF A, B
<1>4. /\ Cardinality(A) \in Nat /\ Cardinality(B) \in Nat
      /\ Cardinality(A) # 0 \/ Cardinality(B) # 0
  BY <1>1, <1>2, FS_EmptySet, FS_CardinalityType
<1>5. QED BY <1>2, <1>3, <1>4

LEMMA CountAccess == Rest /\ Sessions /\ Counted => KeepsAccess
<1> SUFFICES ASSUME Rest, Sessions, Counted, NEW s \in Session,
                    knock[s].status = "open", Undisturbed(s),
                    \A k \in Lane : ~Waiting(s, k, "close"),
                    NEW p \in knock[s].ports
             PROVE  \E a \in Source :
                      /\ rules[<<p, a>>] > 0
                      /\ \/ a = CloseSource(s)
                         \/ \E k \in Lane : Waiting(s, k, "drop") /\ a = calls[s][k].addr
  BY DEF KeepsAccess
<1>1. /\ knock[s] \in Knock /\ p \in Port
      /\ knock[s].source \in Source /\ knock[s].login \in Source
      /\ \A k \in Lane : calls[s][k].addr \in Source
  BY DEF Sessions, Knock, Call
<1>2. Clean(p) BY DEF Undisturbed, Clean
<1>3. \A k \in Lane : calls[s][k].step # "close" BY DEF Waiting
<1>4. CASE knock[s].login # AnyAddr
  <2>1. HasLogin(knock[s], calls[s], p, knock[s].login) BY <1>3, <1>4 DEF HasLogin
  <2>2. rules[<<p, knock[s].login>>] > 0 BY <1>1, <1>2, <2>1, SomeRule
  <2>3. QED BY <1>1, <1>4, <2>2 DEF CloseSource
<1>5. ASSUME NEW k \in Lane, Waiting(s, k, "drop")
      PROVE  rules[<<p, calls[s][k].addr>>] > 0
  <2>1. HasLogin(knock[s], calls[s], p, calls[s][k].addr) BY <1>5 DEF HasLogin, Waiting
  <2>2. QED BY <1>1, <1>2, <2>1, SomeRule
<1>6. CASE knock[s].login = AnyAddr /\ \A k \in Lane : ~Waiting(s, k, "drop")
  <2>1. HasSource(knock[s], calls[s], p, knock[s].source)
    BY <1>3, <1>6 DEF HasSource, Waiting
  <2>2. rules[<<p, knock[s].source>>] > 0 BY <1>1, <1>2, <2>1, SomeRule
  <2>3. QED BY <1>1, <1>6, <2>2 DEF CloseSource
<1>7. QED BY <1>1, <1>4, <1>5, <1>6

(* Sessions, the rules they answer for, and what the firewall has. *)
THEOREM CountInvariant == Spec => [](Rest /\ Sessions /\ Alone /\ Counted)
<1>1. Init => Rest /\ Sessions /\ Alone /\ Counted BY InitInv, CountInit
<1>2. Rest /\ Sessions /\ Alone /\ Counted /\ [Next]_vars
        => (Rest /\ Sessions /\ Alone /\ Counted)'
  BY StepInv, CountStep
<1>3. QED BY <1>1, <1>2, PTL DEF Spec

(* Every rule of a port is gone again once its sessions are closed, if no     *)
(* call failed and none of these sessions had two functions at once or was    *)
(* open when the process ended: closeKnock closes the rules of its phase.     *)
THEOREM NoRuleLeftCorrect == Spec => []NoRuleLeft
<1>1. Rest /\ Sessions /\ Alone /\ Counted => NoRuleLeft BY CountNoRule
<1>2. QED BY <1>1, CountInvariant, PTL

(* A session that is open and not being closed has a rule for each of its     *)
(* ports, for the login or still for its source, whatever fails, also when    *)
(* another session with the same ports and the same address ends.             *)
THEOREM KeepsAccessCorrect == Spec => []KeepsAccess
<1>1. Rest /\ Sessions /\ Alone /\ Counted => KeepsAccess BY CountAccess
<1>2. QED BY <1>1, CountInvariant, PTL

(***************************************************************************)
(* Every function of a session has an end: each answer of the root agent   *)
(* takes a port from it or is its last one.                                *)
(***************************************************************************)

(* A function goes on at most once, to the second half or the undoing of it. *)
Halves(c) == CASE c.step \in {"open", "narrow"} -> 2
               [] c.step = "none" -> 0
               [] OTHER -> 1

(* What is left of a function: d is less than c. *)
Less(d, c) ==
  \/ Halves(d) < Halves(c)
  \/ d.step = c.step /\ d.todo \subseteq c.todo /\ d.todo # c.todo

(* The function of s in lane k gets on, and no other one moves. *)
GetsOn(s, k) ==
  /\ Less(calls'[s][k], calls[s][k])
  /\ \A t \in Session, j \in Lane : <<t, j>> # <<s, k>> => calls'[t][j] = calls[t][j]

FunctionStep ==
  /\ \A s \in Session : Step(s) => \E k \in Lane : GetsOn(s, k)
  /\ \A s \in Session, k \in Lane :
       calls[s][k].step # "none" =>
         \/ calls'[s][k] = calls[s][k]
         \/ Step(s) /\ Less(calls'[s][k], calls[s][k])
         \/ phase' = "down"

LEMMA AwaitMoves ==
  ASSUME Sessions, NEW s \in Session, NEW k \in Lane, NEW d, Await(s, k, d)
  PROVE  /\ calls'[s][k] = d
         /\ \A t \in Session, j \in Lane : <<t, j>> # <<s, k>> => calls'[t][j] = calls[t][j]
BY DEF Await, Sessions

LEMMA NextPortLess ==
  ASSUME Sessions, NEW s \in Session, NEW k \in Lane, calls[s][k].step # "none",
         NEW last, Halves(last) < Halves(calls[s][k]), NextPort(s, k, last)
  PROVE  GetsOn(s, k)
<1> DEFINE c == calls[s][k]
           e == [c EXCEPT !.todo = @ \ {PortOf(s, k)}]
<1>1. c \in Call /\ PortOf(s, k) \in c.todo BY PortFact DEF Sessions
<1>2. CASE IsLast(s, k)
  <2>1. Await(s, k, last) BY <1>2 DEF NextPort
  <2>2. QED BY <2>1, AwaitMoves DEF GetsOn, Less
<1>3. CASE ~ IsLast(s, k)
  <2>1. Await(s, k, e) BY <1>3 DEF NextPort
  <2>2. e.step = c.step /\ e.todo = c.todo \ {PortOf(s, k)} BY <1>1 DEF Call
  <2>3. Less(e, c) BY <1>1, <2>2 DEF Less
  <2>4. QED BY <2>1, <2>3, AwaitMoves DEF GetsOn
<1>4. QED BY <1>2, <1>3

LEMMA AwaitLess ==
  ASSUME Sessions, NEW s \in Session, NEW k \in Lane, NEW d,
         Halves(d) < Halves(calls[s][k]), Await(s, k, d)
  PROVE  GetsOn(s, k)
BY AwaitMoves DEF GetsOn, Less

LEMMA StepGetsOn ==
  ASSUME Sessions, NEW s \in Session, Step(s)
  PROVE  \E k \in Lane : GetsOn(s, k)
<1>0. /\ 1 \in Lane /\ Halves(NoCall) = 0
      /\ \A k \in Lane : calls[s][k] \in Call
  BY KnockAssumption DEF Lane, Halves, NoCall, Sessions
<1>1. PICK o \in Outcome : \/ OpenStep(s, o) \/ UndoStep(s, o)
                          \/ \E k \in Lane : \/ NarrowStep(s, k, o) \/ RollbackStep(s, k, o)
                                              \/ DropStep(s, k, o) \/ CloseStep(s, k, o)
  BY DEF Step
<1>2. CASE OpenStep(s, o)
  <2> DEFINE d == [calls[s][1] EXCEPT !.step = "undo", !.todo = knock[s].ports]
  <2>1. calls[s][1].step = "open" /\ Halves(calls[s][1]) = 2
    BY <1>2 DEF OpenStep, Waiting, Halves
  <2>2. Halves(d) = 1 BY <1>0 DEF Halves, Call
  <2>3. Await(s, 1, d) \/ NextPort(s, 1, NoCall) BY <1>2 DEF OpenStep
  <2> HIDE DEF d
  <2>4. Halves(d) < Halves(calls[s][1]) /\ Halves(NoCall) < Halves(calls[s][1])
    BY <1>0, <2>1, <2>2
  <2>5. QED BY <1>0, <2>1, <2>3, <2>4, AwaitLess, NextPortLess
<1>3. CASE UndoStep(s, o)
  <2>1. calls[s][1].step = "undo" /\ NextPort(s, 1, NoCall) BY <1>3 DEF UndoStep, Waiting
  <2>2. Halves(NoCall) < Halves(calls[s][1]) BY <1>0, <2>1 DEF Halves
  <2>3. QED BY <1>0, <2>1, <2>2, NextPortLess
<1>4. ASSUME NEW k \in Lane, NarrowStep(s, k, o) PROVE GetsOn(s, k)
  <2> DEFINE c == calls[s][k]
             d == [c EXCEPT !.step = "drop", !.todo = knock[s].ports]
             r == [c EXCEPT !.step = "rollback", !.todo = knock[s].ports \ c.todo]
  <2>1. c.step = "narrow" /\ Halves(c) = 2 BY <1>4 DEF NarrowStep, Waiting, Halves
  <2>2. Halves(d) = 1 /\ Halves(r) = 1 BY <1>0 DEF Halves, Call
  <2>3. NextPort(s, k, d) \/ Await(s, k, NoCall) \/ Await(s, k, r) BY <1>4 DEF NarrowStep
  <2> HIDE DEF d, r
  <2>4. /\ Halves(d) < Halves(c) /\ Halves(r) < Halves(c) /\ Halves(NoCall) < Halves(c)
    BY <1>0, <2>1, <2>2
  <2>5. QED BY <2>1, <2>3, <2>4, AwaitLess, NextPortLess
<1>5. ASSUME NEW k \in Lane, RollbackStep(s, k, o) \/ DropStep(s, k, o) \/ CloseStep(s, k, o)
      PROVE  GetsOn(s, k)
  <2>1. calls[s][k].step \in {"rollback", "drop", "close"} /\ NextPort(s, k, NoCall)
    BY <1>5 DEF RollbackStep, DropStep, CloseStep, Waiting
  <2>2. Halves(NoCall) < Halves(calls[s][k]) BY <1>0, <2>1 DEF Halves
  <2>3. QED BY <2>1, <2>2, NextPortLess
<1>6. QED BY <1>0, <1>1, <1>2, <1>3, <1>4, <1>5

(* A function is begun in a lane where none waits. *)
LEMMA BeginKeeps ==
  ASSUME Sessions, NEW t \in Session, NEW j \in Lane, NEW d, Begin(t, j, d),
         NEW s \in Session, NEW k \in Lane, calls[s][k].step # "none"
  PROVE  calls'[s][k] = calls[s][k]
BY AwaitMoves DEF Begin, Waiting

LEMMA OthersKeep ==
  ASSUME Sessions, [Next]_vars, \A t \in Session : ~ Step(t), phase' # "down",
         NEW s \in Session, NEW k \in Lane, calls[s][k].step # "none"
  PROVE  calls'[s][k] = calls[s][k]
<1>1. 0 \in Lane /\ 1 \in Lane BY KnockAssumption DEF Lane
<1>2. ASSUME NEW t \in Session, NEW j \in Lane, BeginClose(t, j)
      PROVE  calls'[s][k] = calls[s][k]
  BY <1>2, BeginKeeps DEF BeginClose
<1>3. ASSUME NEW t \in Session, NEW j \in Lane, NEW ip, BeginNarrow(t, j, ip)
      PROVE  calls'[s][k] = calls[s][k]
  BY <1>3, BeginKeeps DEF BeginNarrow
<1>4. ASSUME NEW t \in Session, NEW P, NEW a, Execute(t, P, a)
      PROVE  calls'[s][k] = calls[s][k]
  BY <1>1, <1>4, BeginKeeps DEF Execute
<1>5. ASSUME NEW t \in Session,
             TimerFires(t) \/ Heartbeat(t) \/ CloseNext(t) \/ \E ip \in Addr : AuthLogLine(t, ip)
      PROVE  calls'[s][k] = calls[s][k]
  BY <1>1, <1>2, <1>3, <1>5 DEF TimerFires, Heartbeat, CloseNext, AuthLogLine
<1>6. CASE \/ \E ip \in Addr : TouchFile(ip)
           \/ FileGoesStale \/ FileRemoved \/ Interrupt \/ AllClosed \/ Restart
  BY <1>6 DEF TouchFile, FileGoesStale, FileRemoved, Interrupt, AllClosed, Restart
<1>7. ~ Exit /\ ~ Crash BY DEF Exit, Crash, Down
<1>8. UNCHANGED vars => calls'[s][k] = calls[s][k] BY DEF vars
<1>9. QED BY <1>4, <1>5, <1>6, <1>7, <1>8 DEF Next

(* A function that waits comes to its end with the answers it waits for: each *)
(* takes a port from it or begins its second half, and neither callbacks nor  *)
(* other functions, of this session or another, give it more to do or end it. *)
(* (executeKnock, transitionToPostLogin and closeKnock between their awaits.) *)
THEOREM FunctionsAdvance == Spec => [][FunctionStep]_vars
<1>1. ASSUME Sessions, [Next]_vars PROVE FunctionStep
  <2>1. \A s \in Session : Step(s) => \E k \in Lane : GetsOn(s, k) BY <1>1, StepGetsOn
  <2>2. ASSUME NEW s \in Session, NEW k \in Lane, calls[s][k].step # "none"
        PROVE  \/ calls'[s][k] = calls[s][k]
               \/ Step(s) /\ Less(calls'[s][k], calls[s][k])
               \/ phase' = "down"
    <3>1. ASSUME NEW t \in Session, Step(t)
          PROVE  calls'[s][k] = calls[s][k] \/ (Step(s) /\ Less(calls'[s][k], calls[s][k]))
      <4>1. PICK j \in Lane : GetsOn(t, j) BY <2>1, <3>1
      <4>2. CASE <<s, k>> = <<t, j>> BY <3>1, <4>1, <4>2 DEF GetsOn
      <4>3. CASE <<s, k>> # <<t, j>> BY <4>1, <4>3 DEF GetsOn
      <4>4. QED BY <4>2, <4>3
    <3>2. CASE \A t \in Session : ~ Step(t) BY <1>1, <2>2, <3>2, OthersKeep
    <3>3. QED BY <3>1, <3>2
  <2>3. QED BY <2>1, <2>2 DEF FunctionStep
<1>2. Rest /\ Sessions /\ [Next]_vars => [FunctionStep]_vars BY <1>1
<1>3. QED BY <1>2, Invariant, PTL DEF Spec
===============================================================================
