---------------------------- MODULE AdminCommands ------------------------------
(***************************************************************************)
(* src/admin/index.ts and src/admin/nonces.ts: commands the administrator  *)
(* sends as transactions, each executed once.                              *)
(*                                                                         *)
(* A command carries a nonce and a timestamp.  It is valid for MaxAge      *)
(* seconds after its timestamp; its nonce is remembered for MaxAge seconds *)
(* after it was first seen, in a map that is written to a file a moment    *)
(* after it changes.  One transaction per block, so a block is its nonce.  *)
(***************************************************************************)
EXTENDS Integers, Sequences

CONSTANTS
  Nonce,
  MaxAge,      \* max_command_age
  Tolerance,   \* how far ahead of the clock a timestamp is accepted (60s)
  Skew,        \* how far the administrator's clock may be ahead
  MaxTime,     \* bound: the clock
  MaxTxs,      \* bound: transactions
  MaxErrors,   \* bound: exceptions out of a command handler
  MaxEnds,     \* bound: crashes and shutdowns
  MaxIoErrors  \* bound: failed reads and writes of the nonce file

ASSUME AdminAssumption ==
  /\ MaxAge \in Nat /\ Tolerance \in Nat /\ Skew \in Nat /\ MaxTime \in Nat
  /\ MaxTxs \in Nat /\ MaxErrors \in Nat /\ MaxEnds \in Nat /\ MaxIoErrors \in Nat

NotSeen == -1
Time == 0 .. MaxTime
NonceMap == [Nonce -> Time \cup {NotSeen}]

VARIABLES
  now,
  stamp,     \* each command's timestamp
  chain,     \* the transactions, oldest first
  apc,       \* "down", or where the monitor is: poll, scan, dispatch
  stop,      \* graceful shutdown: run, closing, flushed
  last, toBlock, cursor, \* lastProcessedBlock, and the range being scanned
  seen,      \* seenNonces: when the nonce was first seen
  disk,      \* admin-nonces.json
  saveTimer, \* a save is scheduled
  errors, ends, ioErrors, \* how often it happened (bounded)
  behind,    \* history: the last read or write of the file failed
  executed,  \* history: how often the command was dispatched
  unsaved,   \* history: how often a process forgot the nonce, not yet on file
  ahead,     \* history: nonces seen before the time the command is dated
  late       \* history: nonces seen after the shutdown's flush

chainVars == <<now, stamp, chain>>
rangeVars == <<last, toBlock, cursor>>
nonceVars == <<seen, disk, saveTimer>>
ioVars == <<ioErrors, behind>>
countVars == <<errors, ends, ioVars>>
historyVars == <<executed, unsaved, ahead, late>>
vars == <<chainVars, apc, stop, rangeVars, nonceVars, countVars, historyVars>>

TypeOK ==
  /\ now \in Time
  /\ stamp \in [Nonce -> Nat]
  /\ chain \in Seq(Nonce)
  /\ apc \in {"down", "poll", "scan", "dispatch"}
  /\ stop \in {"run", "closing", "flushed"}
  /\ last \in 0 .. Len(chain) /\ toBlock \in 0 .. Len(chain)
  /\ cursor \in 0 .. Len(chain) + 1
  /\ apc \in {"scan", "dispatch"} => cursor \in 1 .. toBlock + 1
  /\ apc = "dispatch" => cursor <= toBlock
  /\ seen \in NonceMap /\ disk \in NonceMap
  /\ saveTimer \in BOOLEAN
  /\ errors \in Nat /\ ends \in Nat /\ ioErrors \in Nat /\ behind \in BOOLEAN
  /\ executed \in [Nonce -> Nat] /\ unsaved \in [Nonce -> Nat]
  /\ ahead \in SUBSET Nonce /\ late \in SUBSET Nonce

Nothing == [n \in Nonce |-> NotSeen]

Init ==
  /\ now = 0
  /\ stamp \in [Nonce -> 1 .. MaxTime]
  /\ chain = <<>>
  /\ apc = "down" /\ stop = "run"
  /\ last = 0 /\ toBlock = 0 /\ cursor = 0
  /\ seen = Nothing /\ disk = Nothing
  /\ saveTimer = FALSE
  /\ errors = 0 /\ ends = 0 /\ ioErrors = 0 /\ behind = FALSE
  /\ executed = [n \in Nonce |-> 0] /\ unsaved = [n \in Nonce |-> 0]
  /\ ahead = {} /\ late = {}

-------------------------------------------------------------------------------
(* The clock and the administrator, who may send a command more than once *)

Tick ==
  /\ now < MaxTime
  /\ now' = now + 1
  /\ UNCHANGED <<stamp, chain, apc, stop, rangeVars, nonceVars, countVars, historyVars>>

Send(n) ==
  /\ Len(chain) < MaxTxs
  /\ stamp[n] <= now + Skew
  /\ chain' = Append(chain, n)
  /\ UNCHANGED <<now, stamp, apc, stop, rangeVars, nonceVars, countVars, historyVars>>

-------------------------------------------------------------------------------
(* nonces.ts *)

Known(m, n) == m[n] # NotSeen

\* Mutant: a nonce exactly MaxAge old is pruned as well.
PruneTooEarly(m) ==
  [n \in Nonce |-> IF Known(m, n) /\ m[n] <= now - MaxAge THEN NotSeen ELSE m[n]]

\* pruneOldNonces
Prune(m) ==
  [n \in Nonce |-> IF Known(m, n) /\ m[n] < now - MaxAge THEN NotSeen ELSE m[n]]

\* The nonces of m whose latest use kept does not hold.
Missing(m, kept) == {n \in Nonce : Known(m, n) /\ kept[n] # m[n]}

\* The process ends, or cannot load the file: of m, only kept remains.
Forget(m, kept) ==
  unsaved' = [n \in Nonce |-> IF n \in Missing(m, kept) THEN unsaved[n] + 1 ELSE unsaved[n]]

\* saveNonces: a new file replaces the old one; an error is only logged.
SaveNonces ==
  \/ disk' = seen /\ behind' = FALSE /\ UNCHANGED ioErrors
  \/ /\ ioErrors < MaxIoErrors /\ ioErrors' = ioErrors + 1
     /\ behind' = TRUE /\ UNCHANGED disk

\* The timer of scheduleSave fires.
SaveTimerFires ==
  /\ apc # "down"
  /\ saveTimer
  /\ saveTimer' = FALSE
  /\ SaveNonces
  /\ UNCHANGED <<chainVars, apc, stop, rangeVars, seen, errors, ends, historyVars>>

-------------------------------------------------------------------------------
(* The monitor *)

\* initAdminCommands: loadNonces, or start from nothing when it fails.
Start ==
  /\ apc = "down"
  /\ apc' = "poll" /\ stop' = "run"
  /\ last' = Len(chain)
  /\ \/ seen' = disk /\ behind' = FALSE /\ UNCHANGED <<ioErrors, unsaved>>
     \/ /\ ioErrors < MaxIoErrors /\ ioErrors' = ioErrors + 1 /\ behind' = TRUE
        /\ seen' = Nothing
        /\ Forget(disk, Nothing)
  /\ UNCHANGED <<chainVars, toBlock, cursor, disk, saveTimer, errors, ends, executed,
                 ahead, late>>

\* processAdminCommands: prune, then fetch the blocks of the range.
BeginRange ==
  /\ apc = "poll" /\ stop = "run"
  /\ Len(chain) > last
  /\ toBlock' = Len(chain) /\ cursor' = last + 1
  /\ seen' = Prune(seen)
  /\ saveTimer' = (saveTimer \/ seen' # seen)
  /\ apc' = "scan"
  /\ UNCHANGED <<chainVars, stop, last, disk, countVars, historyVars>>

\* No command database: the range is not looked at.
IgnoreRange ==
  /\ apc = "poll" /\ stop = "run"
  /\ Len(chain) > last
  /\ last' = Len(chain)
  /\ UNCHANGED <<chainVars, apc, stop, toBlock, cursor, nonceVars, countVars, historyVars>>

\* validateCommand
Valid(n) ==
  /\ now - stamp[n] <= MaxAge
  /\ stamp[n] <= now + Tolerance
  /\ ~Known(seen, n)

\* Mutant: the nonce is remembered, but no save is scheduled.
BurnUnsaved(n) ==
  /\ seen' = [seen EXCEPT ![n] = now]
  /\ UNCHANGED saveTimer

\* markNonceUsed
Burn(n) ==
  /\ seen' = [seen EXCEPT ![n] = now]
  /\ saveTimer' = TRUE

\* processTransaction: the nonce is burnt before the command is dispatched.
Execute ==
  /\ apc = "scan" /\ cursor <= toBlock
  /\ LET n == chain[cursor] IN
       /\ Valid(n)
       /\ Burn(n)
       /\ executed' = [executed EXCEPT ![n] = @ + 1]
       /\ ahead' = IF stamp[n] > now THEN ahead \cup {n} ELSE ahead
       /\ late' = IF stop = "flushed" THEN late \cup {n} ELSE late
  /\ apc' = "dispatch"
  /\ UNCHANGED <<chainVars, stop, rangeVars, disk, countVars, unsaved>>

\* It is not valid, or its block could not be fetched.
Reject ==
  /\ apc = "scan" /\ cursor <= toBlock
  /\ cursor' = cursor + 1
  /\ UNCHANGED <<chainVars, apc, stop, last, toBlock, nonceVars, countVars, historyVars>>

\* Mutant: the next transaction is skipped.
FinishDispatchSkip ==
  /\ apc = "dispatch"
  /\ apc' = "scan"
  /\ cursor' = cursor + 2
  /\ UNCHANGED <<chainVars, stop, last, toBlock, nonceVars, countVars, historyVars>>

FinishDispatch ==
  /\ apc = "dispatch"
  /\ apc' = "scan"
  /\ cursor' = cursor + 1
  /\ UNCHANGED <<chainVars, stop, last, toBlock, nonceVars, countVars, historyVars>>

\* The handler throws: the poll loop will repeat the range.
DispatchThrows ==
  /\ apc = "dispatch"
  /\ errors < MaxErrors
  /\ errors' = errors + 1
  /\ apc' = "poll"
  /\ UNCHANGED <<chainVars, stop, rangeVars, nonceVars, ends, ioVars, historyVars>>

EndRange ==
  /\ apc = "scan" /\ cursor > toBlock
  /\ last' = toBlock
  /\ apc' = "poll"
  /\ UNCHANGED <<chainVars, stop, toBlock, cursor, nonceVars, countVars, historyVars>>

\* Nothing new, or the loop has ended.
Sleep ==
  /\ apc = "poll"
  /\ Len(chain) = last \/ stop # "run"
  /\ UNCHANGED vars

-------------------------------------------------------------------------------
(* The end of the process *)

Down ==
  /\ apc' = "down" /\ stop' = "run"
  /\ last' = 0 /\ toBlock' = 0 /\ cursor' = 0
  /\ seen' = Nothing /\ saveTimer' = FALSE
  /\ Forget(seen, disk)
  /\ late' = {}
  /\ UNCHANGED <<chainVars, disk, errors, ioVars, executed, ahead>>

Crash ==
  /\ apc # "down"
  /\ ends < MaxEnds
  /\ ends' = ends + 1
  /\ Down

\* SIGINT: the poll loop stops when its iteration is over, and the open
\* knocks are closed, which takes a while.
Interrupt ==
  /\ apc # "down" /\ stop = "run"
  /\ ends < MaxEnds
  /\ ends' = ends + 1
  /\ stop' = "closing"
  /\ UNCHANGED <<chainVars, apc, rangeVars, nonceVars, errors, ioVars, historyVars>>

\* Mutant: the timer is cleared, and nothing is saved.
FlushNothing ==
  /\ stop = "closing"
  /\ stop' = "flushed"
  /\ saveTimer' = FALSE
  /\ UNCHANGED <<disk, ioVars>>
  /\ UNCHANGED <<chainVars, apc, rangeVars, seen, errors, ends, historyVars>>

\* flushNonceSaves
Flush ==
  /\ stop = "closing"
  /\ stop' = "flushed"
  /\ saveTimer' = FALSE
  /\ IF saveTimer THEN SaveNonces ELSE UNCHANGED <<disk, ioVars>>
  /\ UNCHANGED <<chainVars, apc, rangeVars, seen, errors, ends, historyVars>>

\* process.exit, one second after the flush.
Exit ==
  /\ stop = "flushed"
  /\ UNCHANGED ends
  /\ Down

Next ==
  \/ Tick \/ \E n \in Nonce : Send(n)
  \/ SaveTimerFires
  \/ Start \/ BeginRange \/ IgnoreRange \/ Execute \/ Reject
  \/ FinishDispatch \/ DispatchThrows \/ EndRange \/ Sleep
  \/ Crash \/ Interrupt \/ Flush \/ Exit

Spec == Init /\ [][Next]_vars

-------------------------------------------------------------------------------
(* A command is executed once, however often it is sent and its range is   *)
(* scanned, and once more for every time a process ended before its nonce  *)
(* was on file.  A command that was seen before the time it is dated can   *)
(* be executed one more time: it is valid for longer than its nonce is     *)
(* remembered.  (validateCommand against markNonceUsed and pruneOldNonces; *)
(* the bound needs a window not smaller than the tolerance.)               *)
NoReplay ==
  Tolerance <= MaxAge =>
    \A n \in Nonce :
      executed[n] <= unsaved[n] + (IF n \in ahead THEN 2 ELSE 1)

(* The nonce file differs from the map only while a save is scheduled, or  *)
(* after a failed read or write until the next one succeeds: every save    *)
(* makes good what an earlier one, or the load, failed to do.  (The        *)
(* debounced save of nonces.ts.)                                           *)
FileCurrent ==
  apc # "down" /\ ~saveTimer /\ ~behind => disk = seen

(* A graceful shutdown whose file is written loses no nonce but those of   *)
(* commands that the unfinished iteration executed after the flush.  (The  *)
(* SIGINT handler, flushNonceSaves, and process.exit a second later.)      *)
ShutdownSaves ==
  stop = "flushed" /\ ~behind => Missing(seen, disk) \subseteq late

-------------------------------------------------------------------------------
(* A claim of the repository that the code does not keep *)

(* nonces.ts, header: seen nonces are stored to prevent replays.  Nothing  *)
(* went wrong and no process ended, yet a command is executed twice.       *)
AtMostOnce == \A n \in Nonce : executed[n] <= 1 + unsaved[n]

===============================================================================
