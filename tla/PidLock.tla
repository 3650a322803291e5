------------------------------- MODULE PidLock ---------------------------------
(***************************************************************************)
(* src/monitor/index.ts: the PID file that is to keep a second monitor     *)
(* from running.  systemd starts one as user blockhost, and again ten      *)
(* seconds after it ended; others are started by hand, by any user.        *)
(***************************************************************************)
EXTENDS Integers, FiniteSets

CONSTANTS
  Monitor,   \* monitors that may be started, each again and again
  User,      \* who starts each of them
  MaxDeaths  \* bound: how often a monitor ends

ASSUME PidAssumption == User \in [Monitor -> STRING] /\ MaxDeaths \in Nat

NoFile == "no file"
Stale == "stale"   \* the PID of a process that has ended
Reused == "reused" \* the same, and another program runs under that PID

ASSUME PidDistinct == {NoFile, Stale, Reused} \cap Monitor = {}

VARIABLES
  pidFile,  \* monitor.pid
  phase,    \* of each monitor; checked: between the check and the write
  deaths,   \* how often it happened (bounded)
  excused   \* history: since all were off, one passed the check that should not have

pidVars == <<pidFile, phase, deaths, excused>>

PidTypeOK ==
  /\ pidFile \in {NoFile, Stale, Reused} \cup Monitor
  /\ phase \in [Monitor -> {"off", "checked", "on", "closing"}]
  /\ deaths \in 0 .. MaxDeaths /\ excused \in BOOLEAN

PidInit ==
  /\ pidFile = NoFile
  /\ phase = [m \in Monitor |-> "off"]
  /\ deaths = 0 /\ excused = FALSE

\* Mutant: whatever is in the file is taken for stale.
SeesNothing(m, pid) == FALSE /\ m = pid

\* process.kill(oldPid, 0) throws for a process that ended, and for another user's:
\* only root sees them all.
Sees(m, pid) ==
  \/ pid = Reused
  \/ pid \in Monitor /\ phase[pid] # "off" /\ User[m] \in {"root", User[pid]}

\* acquirePidLock: the file is read, and its process looked for ...
Check(m) ==
  /\ phase[m] = "off"
  /\ ~Sees(m, pidFile)
  /\ phase' = [phase EXCEPT ![m] = "checked"]
  /\ LET others == {n \in Monitor \ {m} : phase[n] # "off"}
     IN excused' = (/\ others # {}
                    /\ \/ excused
                       \/ \E n \in others : phase[n] \in {"checked", "closing"}
                       \/ pidFile \in others /\ User[m] \notin {"root", User[pidFile]})
  /\ UNCHANGED <<pidFile, deaths>>

\* ... and then written.
WritePid(m) ==
  /\ phase[m] = "checked"
  /\ phase' = [phase EXCEPT ![m] = "on"]
  /\ pidFile' = m
  /\ UNCHANGED <<deaths, excused>>

\* The loop, and the iteration a SIGINT interrupts: it goes on for another second, with
\* the file gone.
Polling == {m \in Monitor : phase[m] \in {"on", "closing"}}

\* SIGINT, as often as it comes: the file is removed, whoever wrote it; the process ends
\* a second later.
ReleasePid(m) ==
  /\ m \in Polling
  /\ phase' = [phase EXCEPT ![m] = "closing"]
  /\ pidFile' = NoFile
  /\ UNCHANGED <<deaths, excused>>

\* The process ends: after a SIGINT, or by SIGTERM, a crash or an exception in main,
\* which leave the file.
End(m) ==
  /\ phase[m] # "off" /\ deaths < MaxDeaths
  /\ phase' = [phase EXCEPT ![m] = "off"]
  /\ deaths' = deaths + 1
  /\ pidFile' = IF pidFile = m THEN Stale ELSE pidFile
  /\ UNCHANGED excused

\* The kernel gives the PID to another program, or that program ends.
Recycle ==
  /\ pidFile \in {Stale, Reused}
  /\ pidFile' = IF pidFile = Stale THEN Reused ELSE Stale
  /\ UNCHANGED <<phase, deaths, excused>>

\* Two monitors handle events at once only if one of them was started while another
\* was between its check and its write, or in the second after its SIGINT, or by a user
\* who cannot see the other's process.
OneMonitor == ~excused => Cardinality(Polling) <= 1

===============================================================================
