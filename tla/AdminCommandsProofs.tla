-------------------------- MODULE AdminCommandsProofs --------------------------
(***************************************************************************)
(* Proofs about AdminCommands, for every value of its constants.           *)
(***************************************************************************)
EXTENDS AdminCommands, TLAPS

LEMMA TypeInit == Init => TypeOK
<1> SUFFICES ASSUME Init PROVE TypeOK OBVIOUS
<1>1. now \in Time BY AdminAssumption DEF Init, Time
<1>2. stamp \in [Nonce -> Nat]
  <2>1. 1 .. MaxTime \subseteq Nat BY AdminAssumption
  <2>2. stamp \in [Nonce -> 1 .. MaxTime] BY DEF Init
  <2>3. QED BY <2>1, <2>2
<1>3. chain \in Seq(Nonce) /\ Len(chain) = 0 BY DEF Init
<1>4. seen \in NonceMap /\ disk \in NonceMap BY DEF Init, Nothing, NonceMap
<1>5. last \in 0 .. Len(chain) /\ toBlock \in 0 .. Len(chain) /\ cursor \in 0 .. Len(chain) + 1
  BY <1>3 DEF Init
<1>6. executed \in [Nonce -> Nat] /\ unsaved \in [Nonce -> Nat] BY DEF Init
<1>7. apc = "down" /\ stop = "run" /\ saveTimer = FALSE /\ errors = 0 /\ ends = 0
      /\ ioErrors = 0 /\ behind = FALSE /\ ahead = {} /\ late = {}
  BY DEF Init
<1>8. QED BY <1>1, <1>2, <1>3, <1>4, <1>5, <1>6, <1>7 DEF TypeOK

(* The operators on nonce maps. *)
LEMMA MapTypes ==
  ASSUME NEW m \in NonceMap, now \in Time
  PROVE  Prune(m) \in NonceMap /\ Nothing \in NonceMap
BY DEF Prune, Nothing, NonceMap

LEMMA ForgetType ==
  ASSUME NEW m \in NonceMap, NEW kept \in NonceMap, unsaved \in [Nonce -> Nat],
         Forget(m, kept)
  PROVE  unsaved' \in [Nonce -> Nat]
BY DEF Forget

(* The steps of a process that ends. *)
LEMMA DownType == TypeOK /\ Down /\ ends' \in Nat => TypeOK'
<1> SUFFICES ASSUME TypeOK, Down, ends' \in Nat PROVE TypeOK' OBVIOUS
<1>1. unsaved' \in [Nonce -> Nat] BY ForgetType DEF TypeOK, Down
<1>2. Nothing \in NonceMap BY MapTypes DEF TypeOK
<1>3. UNCHANGED <<chainVars, disk, errors, ioErrors, behind, executed, ahead>> BY DEF Down, ioVars
<1>4. last' \in 0 .. Len(chain') /\ toBlock' \in 0 .. Len(chain') /\ cursor' \in 0 .. Len(chain') + 1
  BY <1>3 DEF TypeOK, Down, chainVars
<1>5. QED BY <1>1, <1>2, <1>3, <1>4 DEF TypeOK, Down, chainVars

LEMMA TypeStep == TypeOK /\ [Next]_vars => TypeOK'
<1> SUFFICES ASSUME TypeOK, [Next]_vars PROVE TypeOK' OBVIOUS
<1>0. /\ chain \in Seq(Nonce) /\ Len(chain) \in Nat
      /\ seen \in NonceMap /\ disk \in NonceMap /\ ioErrors \in Nat /\ saveTimer \in BOOLEAN /\ behind \in BOOLEAN
      /\ now \in Time /\ executed \in [Nonce -> Nat] /\ unsaved \in [Nonce -> Nat]
      /\ ahead \in SUBSET Nonce /\ late \in SUBSET Nonce
  BY DEF TypeOK
<1>r. /\ last \in 0 .. Len(chain) /\ toBlock \in 0 .. Len(chain)
      /\ cursor \in 0 .. Len(chain) + 1 /\ apc \in {"down", "poll", "scan", "dispatch"}
      /\ apc \in {"scan", "dispatch"} => cursor \in 1 .. toBlock + 1
      /\ apc = "dispatch" => cursor <= toBlock
  BY DEF TypeOK
<1>1. CASE Tick
  <2>1. now' \in Time BY <1>0, <1>1, AdminAssumption DEF Tick, Time
  <2>2. QED BY <1>1, <2>1 DEF Tick, TypeOK, rangeVars, nonceVars, countVars, ioVars, historyVars
<1>2. ASSUME NEW n \in Nonce, Send(n) PROVE TypeOK'
  <2>1. chain' \in Seq(Nonce) /\ Len(chain') = Len(chain) + 1
    BY <1>0, <1>2 DEF Send
  <2>2. UNCHANGED <<now, stamp, apc, stop, rangeVars, nonceVars, countVars, historyVars>>
    BY <1>2 DEF Send
  <2>3. /\ last' \in 0 .. Len(chain') /\ toBlock' \in 0 .. Len(chain')
        /\ cursor' \in 0 .. Len(chain') + 1
    BY <1>0, <1>r, <2>1, <2>2 DEF rangeVars
  <2>4. QED BY <2>1, <2>2, <2>3 DEF TypeOK, rangeVars, nonceVars, countVars, ioVars, historyVars
<1>3. CASE SaveTimerFires
  <2>1. UNCHANGED <<chainVars, apc, stop, rangeVars, seen, errors, ends, historyVars>>
    BY <1>3 DEF SaveTimerFires
  <2>2. disk' \in NonceMap /\ saveTimer' \in BOOLEAN /\ ioErrors' \in Nat /\ behind' \in BOOLEAN
    <3>1. disk' = seen \/ disk' = disk BY <1>3 DEF SaveTimerFires, SaveNonces
    <3>2. ioErrors' = ioErrors \/ ioErrors' = ioErrors + 1 BY <1>3 DEF SaveTimerFires, SaveNonces
    <3>3. ioErrors' \in Nat BY <1>0, <3>2
    <3>4. saveTimer' = FALSE /\ behind' \in BOOLEAN BY <1>3 DEF SaveTimerFires, SaveNonces
    <3>5. QED BY <1>0, <3>1, <3>3, <3>4
  <2>3. QED BY <2>1, <2>2 DEF TypeOK, chainVars, rangeVars, historyVars
<1>4. CASE Start
  <2>1. unsaved' \in [Nonce -> Nat] /\ seen' \in NonceMap /\ ioErrors' \in Nat
    <3>1. Nothing \in NonceMap BY <1>0, MapTypes
    <3>2. CASE seen' = disk /\ ioErrors' = ioErrors /\ unsaved' = unsaved
      BY <1>0, <3>2
    <3>3. CASE ioErrors' = ioErrors + 1 /\ seen' = Nothing /\ Forget(disk, Nothing)
      <4>1. unsaved' \in [Nonce -> Nat] BY <1>0, <3>1, <3>3, ForgetType
      <4>2. ioErrors' \in Nat BY <1>0, <3>3
      <4>3. QED BY <3>1, <3>3, <4>1, <4>2
    <3>4. QED BY <1>4, <3>2, <3>3 DEF Start
  <2>2. last' \in 0 .. Len(chain') BY <1>0, <1>4 DEF Start, chainVars
  <2>3. UNCHANGED <<chainVars, toBlock, cursor, disk, saveTimer, errors, ends, executed,
                    ahead, late>> /\ apc' = "poll" /\ stop' = "run"
    BY <1>4 DEF Start
  <2>4. behind' \in BOOLEAN BY <1>4 DEF Start
  <2>5. QED BY <2>1, <2>2, <2>3, <2>4 DEF TypeOK, chainVars
<1>5. CASE BeginRange
  <2>1. seen' \in NonceMap /\ saveTimer' \in BOOLEAN BY <1>0, <1>5, MapTypes DEF BeginRange
  <2>2. toBlock' \in 0 .. Len(chain) /\ cursor' \in 1 .. toBlock' + 1
    BY <1>0, <1>r, <1>5 DEF BeginRange
  <2>3. cursor' \in 0 .. Len(chain) + 1 /\ apc' = "scan"
    BY <1>0, <1>r, <1>5 DEF BeginRange
  <2>4. UNCHANGED <<chainVars, stop, last, disk, countVars, historyVars>>
    BY <1>5 DEF BeginRange
  <2>5. QED BY <2>1, <2>2, <2>3, <2>4 DEF TypeOK, chainVars, countVars, ioVars, historyVars
<1>6. CASE IgnoreRange
  <2>1. last' \in 0 .. Len(chain) BY <1>0, <1>6 DEF IgnoreRange
  <2>2. UNCHANGED <<chainVars, apc, stop, toBlock, cursor, nonceVars, countVars, historyVars>>
    BY <1>6 DEF IgnoreRange
  <2>3. QED BY <2>1, <2>2 DEF TypeOK, chainVars, nonceVars, countVars, ioVars, historyVars
<1>7. CASE Execute
  <2>1. chain[cursor] \in Nonce
    <3>1. cursor \in 1 .. Len(chain) BY <1>0, <1>r, <1>7 DEF Execute
    <3>2. QED BY <1>0, <3>1
  <2>2. /\ seen' \in NonceMap /\ executed' \in [Nonce -> Nat] /\ saveTimer' \in BOOLEAN
        /\ ahead' \in SUBSET Nonce /\ late' \in SUBSET Nonce
    <3> DEFINE n == chain[cursor]
    <3>1. /\ seen' = [seen EXCEPT ![n] = now] /\ saveTimer' = TRUE
          /\ executed' = [executed EXCEPT ![n] = @ + 1]
          /\ ahead' = ahead \cup {n} \/ ahead' = ahead
          /\ late' = late \cup {n} \/ late' = late
      BY <1>7 DEF Execute, Burn
    <3>2. n \in Nonce BY <2>1
    <3> HIDE DEF n
    <3>3. QED BY <1>0, <3>1, <3>2 DEF NonceMap
  <2>3. UNCHANGED <<chainVars, stop, rangeVars, disk, countVars, unsaved>>
        /\ apc' = "dispatch" /\ apc = "scan" /\ cursor <= toBlock
    BY <1>7 DEF Execute
  <2>4. QED BY <2>2, <2>3 DEF TypeOK, chainVars, rangeVars, countVars, ioVars
<1>8. CASE Reject \/ FinishDispatch
  <2>1. cursor' \in 0 .. Len(chain) + 1 /\ cursor' \in 1 .. toBlock + 1 /\ apc' = "scan"
    <3>1. cursor' = cursor + 1 /\ cursor <= toBlock /\ apc \in {"scan", "dispatch"}
          /\ apc' = "scan"
      BY <1>r, <1>8 DEF Reject, FinishDispatch
    <3>2. QED BY <1>0, <1>r, <3>1
  <2>2. UNCHANGED <<chainVars, stop, last, toBlock, nonceVars, countVars, historyVars>>
    BY <1>8 DEF Reject, FinishDispatch
  <2>3. QED BY <2>1, <2>2 DEF TypeOK, chainVars, nonceVars, countVars, ioVars, historyVars
<1>8e. CASE EndRange
  <2>1. UNCHANGED <<chainVars, stop, toBlock, cursor, nonceVars, countVars, historyVars>>
        /\ last' = toBlock /\ apc' = "poll"
    BY <1>8e DEF EndRange
  <2>2. QED BY <2>1 DEF TypeOK, chainVars, nonceVars, countVars, ioVars, historyVars
<1>9. CASE DispatchThrows
  <2>1. UNCHANGED <<chainVars, stop, rangeVars, nonceVars, ends, ioErrors, behind, historyVars>>
        /\ errors' \in Nat /\ apc' = "poll"
    BY <1>9 DEF DispatchThrows, TypeOK, ioVars
  <2>2. QED BY <2>1 DEF TypeOK, chainVars, rangeVars, nonceVars, historyVars
<1>10. CASE Crash BY <1>10, DownType, SMTT(30) DEF Crash, TypeOK
<1>11. CASE Exit BY <1>11, DownType DEF Exit, TypeOK
<1>12. CASE Interrupt
  BY <1>12 DEF TypeOK, Interrupt, ioVars, chainVars, rangeVars, nonceVars, historyVars
<1>13. CASE Flush
  <2>1. UNCHANGED <<chainVars, apc, rangeVars, seen, errors, ends, historyVars>>
        /\ stop' = "flushed"
    BY <1>13 DEF Flush
  <2>2. disk' \in NonceMap /\ saveTimer' \in BOOLEAN /\ ioErrors' \in Nat /\ behind' \in BOOLEAN
    <3>1. disk' = seen \/ disk' = disk BY <1>13 DEF Flush, SaveNonces
    <3>2. ioErrors' = ioErrors \/ ioErrors' = ioErrors + 1 BY <1>13 DEF Flush, SaveNonces, ioVars
    <3>3. ioErrors' \in Nat BY <1>0, <3>2
    <3>4. saveTimer' = FALSE /\ behind' \in BOOLEAN BY <1>0, <1>13 DEF Flush, SaveNonces, ioVars
    <3>5. QED BY <1>0, <3>1, <3>3, <3>4
  <2>3. QED BY <2>1, <2>2 DEF TypeOK, chainVars, rangeVars, historyVars
<1>14. CASE Sleep \/ UNCHANGED vars
  BY <1>14
  DEF TypeOK, Sleep, vars, chainVars, rangeVars, nonceVars, countVars, ioVars, historyVars
<1>15. QED
  BY <1>1, <1>2, <1>3, <1>4, <1>5, <1>6, <1>7, <1>8, <1>8e, <1>9, <1>10, <1>11, <1>12,
     <1>13, <1>14
  DEF Next

(* Every variable keeps its type; a transaction being looked at exists.    *)
(* (processAdminCommands.)                                                 *)
THEOREM TypeCorrect == Spec => []TypeOK
BY TypeInit, TypeStep, PTL DEF Spec

-------------------------------------------------------------------------------
(* The nonce file *)

(* A process that is shutting down runs, and its map and file agree.       *)
FileInv ==
  /\ FileCurrent /\ ShutdownSaves
  /\ apc = "down" => stop = "run"

LEMMA FileInit == Init => FileInv
BY DEF Init, FileInv, FileCurrent, ShutdownSaves

LEMMA FileStep == TypeOK /\ FileInv /\ [Next]_vars => FileInv'
<1> SUFFICES ASSUME TypeOK, FileInv, [Next]_vars PROVE FileInv' OBVIOUS
<1> USE DEF FileInv, FileCurrent, ShutdownSaves
<1>1. CASE Tick \/ \E n \in Nonce : Send(n)
  BY <1>1 DEF Tick, Send, nonceVars, countVars, ioVars, historyVars, Missing, Known
<1>2. CASE SaveTimerFires
  <2>1. disk' = seen \/ behind' BY <1>2 DEF SaveTimerFires, SaveNonces
  <2>2. QED BY <1>2, <2>1 DEF SaveTimerFires, Missing
<1>3. CASE Start
  <2>1. seen' = disk \/ behind' BY <1>3 DEF Start
  <2>2. QED BY <1>3, <2>1 DEF Start
<1>4. CASE BeginRange
  BY <1>4 DEF BeginRange, countVars, ioVars, TypeOK
<1>5. CASE IgnoreRange \/ Reject \/ FinishDispatch \/ EndRange \/ DispatchThrows \/ Sleep
  BY <1>5 DEF IgnoreRange, Reject, FinishDispatch, EndRange, DispatchThrows, Sleep, vars,
              rangeVars, nonceVars, countVars, ioVars, historyVars, Missing, Known
<1>6. CASE Execute
  <2> DEFINE n == chain[cursor]
  <2>1. n \in Nonce /\ seen \in NonceMap BY <1>6 DEF Execute, TypeOK
  <2>2. seen' = [seen EXCEPT ![n] = now] /\ disk' = disk /\ saveTimer' /\ stop' = stop
    BY <1>6 DEF Execute, Burn
  <2>3. stop = "flushed" => late' = late \cup {n} BY <1>6 DEF Execute
  <2>4. behind' = behind /\ apc' = "dispatch" BY <1>6 DEF Execute, countVars, ioVars
  <2> HIDE DEF n
  <2>5. Missing(seen, disk)' \subseteq Missing(seen, disk) \cup {n}
    BY <2>1, <2>2 DEF Missing, Known, NonceMap
  <2>6. QED BY <2>2, <2>3, <2>4, <2>5
<1>7. CASE Crash \/ Exit
  BY <1>7 DEF Crash, Exit, Down, ioVars
<1>8. CASE Interrupt
  BY <1>8 DEF Interrupt, nonceVars, ioVars
<1>9. CASE Flush
  <2>1. apc # "down" /\ apc' = apc BY <1>9 DEF Flush
  <2>2. disk' = seen' \/ behind'
    BY <1>9, <2>1 DEF Flush, SaveNonces, ioVars
  <2>3. QED BY <1>9, <2>1, <2>2 DEF Missing
<1>10. CASE UNCHANGED vars
  BY <1>10 DEF vars, nonceVars, countVars, ioVars, historyVars, Missing, Known
<1>11. QED
  BY <1>1, <1>2, <1>3, <1>4, <1>5, <1>6, <1>7, <1>8, <1>9, <1>10 DEF Next

(* The file is current whenever no save is scheduled (scheduleSave and     *)
(* saveNonces), unless the last read or write failed.                      *)
THEOREM FileCorrect == Spec => []FileCurrent
<1>1. FileInv => FileCurrent BY DEF FileInv
<1>2. QED BY TypeInit, TypeStep, FileInit, FileStep, <1>1, PTL DEF Spec

(* A graceful shutdown whose file is written loses no nonce burnt before   *)
(* its flush (flushNonceSaves).                                            *)
THEOREM ShutdownCorrect == Spec => []ShutdownSaves
<1>1. FileInv => ShutdownSaves BY DEF FileInv
<1>2. QED BY TypeInit, TypeStep, FileInit, FileStep, <1>1, PTL DEF Spec

-------------------------------------------------------------------------------
(* Replays *)

(* What the monitor remembers of a nonce, or will when it is started. *)
Mem(n) == IF apc = "down" THEN disk[n] ELSE seen[n]

(* The command cannot be executed: it is too old, or was seen no earlier   *)
(* than it is dated, so that it will be too old before it is forgotten.    *)
Covered(n) == now - stamp[n] > MaxAge \/ (Mem(n) # NotSeen /\ Mem(n) >= stamp[n])

(* It was seen ahead of its date: it is remembered, or its date has come.  *)
Half(n) == n \in ahead /\ (Mem(n) # NotSeen \/ stamp[n] <= now)

SeenAt(t, n) == t # NotSeen => t <= now /\ stamp[n] <= t + Tolerance

ReplayInv ==
  \A n \in Nonce :
    /\ SeenAt(seen[n], n) /\ SeenAt(disk[n], n)
    /\ \/ executed[n] <= unsaved[n]
       \/ executed[n] <= unsaved[n] + 1 /\ (Covered(n) \/ Half(n))
       \/ executed[n] <= unsaved[n] + 2 /\ Covered(n) /\ n \in ahead

LEMMA ReplayInit == Init => ReplayInv
<1> SUFFICES ASSUME Init, NEW n \in Nonce
             PROVE  SeenAt(seen[n], n) /\ SeenAt(disk[n], n) /\ executed[n] <= unsaved[n]
  BY DEF ReplayInv
<1>1. seen[n] = NotSeen /\ disk[n] = NotSeen BY DEF Init, Nothing
<1>2. executed[n] = 0 /\ unsaved[n] = 0 BY DEF Init
<1>3. QED BY <1>1, <1>2 DEF SeenAt

(* The number facts TypeOK gives for one command. *)
LEMMA NonceTypes ==
  ASSUME TypeOK, NEW n \in Nonce
  PROVE  /\ now \in Int /\ stamp[n] \in Int /\ executed[n] \in Int /\ unsaved[n] \in Int
         /\ seen[n] \in Int /\ disk[n] \in Int
BY AdminAssumption DEF TypeOK, NonceMap, Time, NotSeen

(* A process that ends, or cannot load its file, forgets some nonces and   *)
(* keeps the others as they are.                                           *)
LEMMA ForgetReplay ==
  ASSUME TypeOK, ReplayInv, NEW m \in NonceMap, NEW kept \in NonceMap, NEW n \in Nonce,
         Mem(n) = m[n], (Mem(n))' = kept[n], Forget(m, kept),
         UNCHANGED <<now, stamp, executed, ahead>>,
         SeenAt(seen[n], n)', SeenAt(disk[n], n)'
  PROVE  /\ SeenAt(seen[n], n)' /\ SeenAt(disk[n], n)'
         /\ \/ executed'[n] <= unsaved'[n]
            \/ executed'[n] <= unsaved'[n] + 1 /\ (Covered(n) \/ Half(n))'
            \/ executed'[n] <= unsaved'[n] + 2 /\ Covered(n)' /\ n \in ahead'
<1> USE AdminAssumption, NonceTypes
<1>1. m[n] \in Int /\ kept[n] \in Int BY DEF NonceMap, Time, NotSeen
<1>2. SeenAt(m[n], n) BY DEF ReplayInv, Mem
<1>3. CASE n \in Missing(m, kept)
  <2>1. unsaved'[n] = unsaved[n] + 1 BY <1>3 DEF Forget
  <2>2. executed[n] <= unsaved[n] + 2 /\ Covered(n) /\ n \in ahead => (Covered(n) \/ Half(n))'
    BY <1>1, <1>2 DEF Covered, Half, SeenAt
  <2>3. QED BY <2>1, <2>2 DEF ReplayInv
<1>4. CASE n \notin Missing(m, kept)
  <2>1. unsaved'[n] = unsaved[n] BY <1>4 DEF Forget
  <2>2. m[n] = NotSeen \/ kept[n] = m[n] BY <1>4 DEF Missing, Known
  <2>3. Covered(n) => Covered(n)' BY <1>1, <2>2 DEF Covered
  <2>4. Half(n) => Half(n)' BY <1>1, <2>2 DEF Half
  <2>5. QED BY <2>1, <2>3, <2>4 DEF ReplayInv
<1>5. QED BY <1>3, <1>4

LEMMA ReplayStep ==
  Tolerance <= MaxAge /\ TypeOK /\ TypeOK' /\ FileInv /\ ReplayInv /\ [Next]_vars
    => ReplayInv'
<1> SUFFICES ASSUME Tolerance <= MaxAge, TypeOK, TypeOK', FileInv, ReplayInv, [Next]_vars
             PROVE  ReplayInv'
  OBVIOUS
<1> SUFFICES ASSUME NEW n \in Nonce
             PROVE  /\ SeenAt(seen[n], n)' /\ SeenAt(disk[n], n)'
                    /\ \/ executed'[n] <= unsaved'[n]
                       \/ executed'[n] <= unsaved'[n] + 1 /\ (Covered(n) \/ Half(n))'
                       \/ executed'[n] <= unsaved'[n] + 2 /\ Covered(n)' /\ n \in ahead'
  BY DEF ReplayInv
<1> DEFINE Goal == /\ SeenAt(seen[n], n)' /\ SeenAt(disk[n], n)'
                   /\ \/ executed'[n] <= unsaved'[n]
                      \/ executed'[n] <= unsaved'[n] + 1 /\ (Covered(n) \/ Half(n))'
                      \/ executed'[n] <= unsaved'[n] + 2 /\ Covered(n)' /\ n \in ahead'
<1>0. /\ now \in Int /\ stamp[n] \in Int /\ executed[n] \in Int /\ unsaved[n] \in Int
      /\ seen[n] \in Int /\ disk[n] \in Int /\ MaxAge \in Nat /\ Tolerance \in Nat
      /\ seen \in NonceMap /\ disk \in NonceMap
  BY NonceTypes, AdminAssumption DEF TypeOK
<1>i. /\ SeenAt(seen[n], n) /\ SeenAt(disk[n], n)
      /\ \/ executed[n] <= unsaved[n]
         \/ executed[n] <= unsaved[n] + 1 /\ (Covered(n) \/ Half(n))
         \/ executed[n] <= unsaved[n] + 2 /\ Covered(n) /\ n \in ahead
  BY DEF ReplayInv
<1>1. CASE Tick
  <2>1. now' = now + 1 /\ UNCHANGED <<stamp, apc, nonceVars, historyVars>>
    BY <1>1 DEF Tick
  <2>2. QED BY <1>0, <1>i, <2>1 DEF nonceVars, historyVars, SeenAt, Covered, Half, Mem
<1>2. CASE UNCHANGED <<now, stamp, executed, unsaved, ahead, seen, disk>>
           /\ (apc' = "down") = (apc = "down")
  BY <1>2, <1>i DEF SeenAt, Covered, Half, Mem
<1>3. CASE SaveTimerFires \/ Flush
  <2>1. /\ UNCHANGED <<now, stamp, executed, unsaved, ahead, seen, apc>>
        /\ disk' = seen \/ disk' = disk
    BY <1>3 DEF SaveTimerFires, Flush, SaveNonces, chainVars, historyVars
  <2>2. apc # "down" \/ disk' = disk \/ disk'[n] = seen[n] BY <2>1
  <2>3. CASE apc # "down"
    BY <1>i, <2>1, <2>3 DEF SeenAt, Covered, Half, Mem
  <2>4. apc # "down" BY <1>3 DEF FileInv, SaveTimerFires, Flush
  <2>5. QED BY <2>3, <2>4
<1>4. CASE Start
  <2>1. UNCHANGED <<now, stamp, executed, ahead, disk>> /\ apc = "down" /\ apc' = "poll"
    BY <1>4 DEF Start, chainVars
  <2>2. CASE seen' = disk /\ unsaved' = unsaved
    BY <1>i, <2>1, <2>2 DEF SeenAt, Covered, Half, Mem
  <2>3. CASE seen' = Nothing /\ Forget(disk, Nothing)
    <3>1. Nothing \in NonceMap /\ Nothing[n] = NotSeen BY MapTypes DEF TypeOK, Nothing
    <3>2. SeenAt(seen[n], n)' /\ SeenAt(disk[n], n)'
      BY <1>i, <2>1, <2>3, <3>1 DEF SeenAt
    <3>3. Mem(n) = disk[n] /\ (Mem(n))' = Nothing[n] BY <2>1, <2>3 DEF Mem
    <3>4. QED BY <1>0, <2>1, <2>3, <3>1, <3>2, <3>3, ForgetReplay
  <2>4. QED BY <1>4, <2>2, <2>3 DEF Start
<1>5. CASE Crash \/ Exit
  <2>1. /\ UNCHANGED <<now, stamp, executed, ahead, disk>> /\ apc' = "down"
        /\ seen' = Nothing /\ Forget(seen, disk)
    BY <1>5 DEF Crash, Exit, Down, chainVars
  <2>2. CASE apc # "down"
    <3>1. Nothing[n] = NotSeen BY DEF Nothing
    <3>2. SeenAt(seen[n], n)' /\ SeenAt(disk[n], n)'
      BY <1>i, <2>1, <3>1 DEF SeenAt
    <3>3. Mem(n) = seen[n] /\ (Mem(n))' = disk[n] BY <2>1, <2>2 DEF Mem
    <3>4. QED BY <1>0, <2>1, <3>2, <3>3, ForgetReplay
  <2>3. apc # "down" BY <1>5 DEF Crash, Exit, FileInv
  <2>4. QED BY <2>2, <2>3
<1>6. CASE BeginRange
  <2>1. /\ UNCHANGED <<now, stamp, executed, unsaved, ahead, disk>>
        /\ apc # "down" /\ apc' # "down" /\ seen' = Prune(seen)
    BY <1>6 DEF BeginRange, chainVars, historyVars
  <2>2. \/ seen'[n] = seen[n]
        \/ seen'[n] = NotSeen /\ seen[n] # NotSeen /\ seen[n] < now - MaxAge
    BY <2>1 DEF Prune, Known
  <2>3. Covered(n) => Covered(n)'
    BY <1>0, <2>1, <2>2 DEF Covered, Mem
  <2>4. Half(n) => Half(n)'
    BY <1>0, <1>i, <2>1, <2>2 DEF Half, Mem, SeenAt
  <2>5. SeenAt(seen[n], n)' /\ SeenAt(disk[n], n)'
    BY <1>i, <2>1, <2>2 DEF SeenAt
  <2>6. QED BY <1>i, <2>1, <2>3, <2>4, <2>5
<1>7. CASE Execute
  <2> DEFINE c == chain[cursor]
  <2>1. /\ c \in Nonce /\ Valid(c) /\ seen' = [seen EXCEPT ![c] = now]
        /\ executed' = [executed EXCEPT ![c] = @ + 1]
        /\ ahead' = IF stamp[c] > now THEN ahead \cup {c} ELSE ahead
        /\ UNCHANGED <<now, stamp, unsaved, disk>> /\ apc # "down" /\ apc' # "down"
    BY <1>7 DEF Execute, Burn, TypeOK, chainVars
  <2> HIDE DEF c
  <2>2. CASE n # c
    <3>1. seen'[n] = seen[n] /\ executed'[n] = executed[n] /\ (n \in ahead' <=> n \in ahead)
      BY <2>1, <2>2 DEF TypeOK, NonceMap
    <3>2. QED BY <1>i, <2>1, <3>1 DEF SeenAt, Covered, Half, Mem
  <2>3. CASE n = c
    <3>1. seen'[n] = now /\ executed'[n] = executed[n] + 1
      BY <2>1, <2>3 DEF TypeOK, NonceMap
    <3>2. now - stamp[n] <= MaxAge /\ stamp[n] <= now + Tolerance /\ seen[n] = NotSeen
      BY <2>1, <2>3 DEF Valid, Known
    <3>3. ~Covered(n) BY <1>0, <2>1, <3>2 DEF Covered, Mem
    <3>4. now # NotSeen BY AdminAssumption DEF TypeOK, Time, NotSeen
    <3>5. \/ executed[n] <= unsaved[n]
          \/ executed[n] <= unsaved[n] + 1 /\ n \in ahead /\ stamp[n] <= now
      BY <1>i, <2>1, <3>2, <3>3 DEF Half, Mem
    <3>6. stamp[n] <= now => Covered(n)'
      BY <1>0, <2>1, <3>1, <3>4 DEF Covered, Mem
    <3>7. stamp[n] > now => Half(n)'
      BY <1>0, <2>1, <2>3, <3>1, <3>4 DEF Half, Mem
    <3>8. SeenAt(seen[n], n)' /\ SeenAt(disk[n], n)'
      BY <1>0, <1>i, <2>1, <3>1, <3>2 DEF SeenAt
    <3>9. n \in ahead => n \in ahead' BY <2>1
    <3>10. QED BY <1>0, <2>1, <3>1, <3>5, <3>6, <3>7, <3>8, <3>9
  <2>4. QED BY <2>2, <2>3
<1>8. QED
  BY <1>1, <1>2, <1>3, <1>4, <1>5, <1>6, <1>7
  DEF Next, Send, IgnoreRange, Reject, FinishDispatch, DispatchThrows, EndRange, Sleep,
      Interrupt, vars, chainVars, nonceVars, historyVars

(* NoReplay for every window, tolerance and number of commands, crashes,   *)
(* failed writes and repeated ranges (validateCommand, markNonceUsed,      *)
(* pruneOldNonces).                                                        *)
THEOREM NoReplayCorrect == Spec => []NoReplay
<1>1. CASE Tolerance <= MaxAge
  <2>1. TypeOK /\ ReplayInv => NoReplay
    <3> SUFFICES ASSUME TypeOK, ReplayInv, NEW n \in Nonce
                 PROVE  executed[n] <= unsaved[n] + (IF n \in ahead THEN 2 ELSE 1)
      BY DEF NoReplay
    <3>1. executed[n] \in Int /\ unsaved[n] \in Int BY NonceTypes
    <3>2. \/ executed[n] <= unsaved[n] + 1
          \/ executed[n] <= unsaved[n] + 2 /\ n \in ahead
      BY <3>1 DEF ReplayInv
    <3>3. QED BY <3>1, <3>2
  <2>2. TypeOK /\ TypeOK' /\ FileInv /\ ReplayInv /\ [Next]_vars => ReplayInv'
    BY <1>1, ReplayStep
  <2>3. QED
    BY <2>1, <2>2, TypeInit, TypeStep, FileInit, FileStep, ReplayInit, PTL DEF Spec
<1>2. CASE ~(Tolerance <= MaxAge)
  <2>1. NoReplay BY <1>2 DEF NoReplay
  <2>2. QED BY <2>1, PTL
<1>3. QED BY <1>1, <1>2
===============================================================================
