-------------------------------- MODULE Knock ----------------------------------
(***************************************************************************)
(* src/admin/handlers/knock.ts: ports opened for a while by a command of   *)
(* the administrator.  A session first has rules for its source, if any    *)
(* (phase 1), then, after a login, for the login's address (phase 2).      *)
(*                                                                         *)
(* Node runs one callback at a time, but each rule takes a call to the     *)
(* root agent that is awaited, and other callbacks run meanwhile.  calls   *)
(* holds the functions that are waiting; a step is the agent's answer and  *)
(* the code up to the next await.  The ports of a command are a set, taken *)
(* in one order always.                                                    *)
(***************************************************************************)
EXTENDS Integers

CONSTANTS
  Session,     \* transaction hashes of knock commands
  Port, Ssh,   \* allowed_ports, and port 22
  Addr, AnyAddr,   \* addresses, and no address at all
  PortSets, Sources, \* inputs: params.ports and params.source
  MaxCalls,    \* bound: functions waiting, per session, besides closeAllKnocks
  MaxFailures, \* bound: calls that fail
  MaxBeats,    \* bound: logins and heartbeats
  MaxEnds      \* bound: crashes and shutdowns

ASSUME KnockAssumption ==
  /\ Ssh \in Port /\ PortSets \subseteq (SUBSET Port) \ {{}}
  /\ AnyAddr \notin Addr /\ Sources \subseteq Addr \cup {AnyAddr}
  /\ MaxCalls \in Nat \ {0} /\ MaxFailures \in Nat /\ MaxBeats \in Nat /\ MaxEnds \in Nat

Source == Addr \cup {AnyAddr}
Lane == 0 .. MaxCalls \* 0 is closeAllKnocks's
Outcome == {"ok", "fail", "lost"} \* done; not done; done, but reported as failed
NoFile == [ip |-> AnyAddr, fresh |-> FALSE]

Knock == [status : {"new", "opening", "open", "closed", "gone"}, ports : SUBSET Port,
          source : Source, login : Source, timer : BOOLEAN, beat : BOOLEAN, tail : BOOLEAN]
Call == [step : {"none", "open", "undo", "narrow", "rollback", "drop", "close"},
         todo : SUBSET Port, addr : Source]
NoCall == [step |-> "none", todo |-> {}, addr |-> AnyAddr]
NewKnock == [status |-> "new", ports |-> {}, source |-> AnyAddr, login |-> AnyAddr,
             timer |-> FALSE, beat |-> FALSE, tail |-> FALSE]

VARIABLES
  rules,    \* ACCEPT rules in the firewall, by port and source: how many
  knock,    \* activeKnocks, and the sessions that are not, or no longer, in it
  calls,
  file,     \* knock.active
  phase,    \* of the process: up, closing (SIGINT), closed, down
  visited,  \* sessions closeAllKnocks has come to
  failures, beats, ends, \* how often it happened (bounded)
  raced     \* history: sessions two of whose functions were waiting at once

countVars == <<failures, beats, ends>>
vars == <<rules, knock, calls, file, phase, visited, countVars, raced>>

TypeOK ==
  /\ rules \in [Port \X Source -> Nat]
  /\ knock \in [Session -> Knock]
  /\ calls \in [Session -> [Lane -> Call]]
  /\ file \in [ip : Addr, fresh : BOOLEAN] \cup {NoFile}
  /\ phase \in {"up", "closing", "closed", "down"}
  /\ visited \in SUBSET Session
  /\ failures \in Nat /\ beats \in Nat /\ ends \in Nat
  /\ raced \in SUBSET Session
  /\ \A s \in Session :
       /\ knock[s].timer \/ knock[s].beat \/ knock[s].tail => knock[s].status = "open"
       /\ knock[s].status = "open" /\ knock[s].login # AnyAddr => ~knock[s].timer /\ ~knock[s].tail
       /\ \A k \in Lane : calls[s][k].step # "none" =>
            calls[s][k].todo # {} /\ calls[s][k].todo \subseteq knock[s].ports

Init ==
  /\ rules = [r \in Port \X Source |-> 0]
  /\ knock = [s \in Session |-> NewKnock]
  /\ calls = [s \in Session |-> [k \in Lane |-> NoCall]]
  /\ file = NoFile
  /\ phase = "up" /\ visited = {}
  /\ failures = 0 /\ beats = 0 /\ ends = 0
  /\ raced = {}

-------------------------------------------------------------------------------
(* Calls to the root agent *)

Answer(o) ==
  IF o = "ok" THEN UNCHANGED failures
              ELSE failures < MaxFailures /\ failures' = failures + 1

\* iptables-open: a rule made twice is there twice.
OpenPort(p, a, o) ==
  /\ Answer(o)
  /\ rules' = IF o = "fail" THEN rules ELSE [rules EXCEPT ![<<p, a>>] = @ + 1]

\* iptables-close removes one such rule, if there is one.  closePort only
\* logs a failure, so that one after the effect makes no difference.
ClosePort(p, a, o) ==
  /\ o # "lost"
  /\ Answer(o)
  /\ rules' = IF o = "fail" \/ rules[<<p, a>>] = 0 THEN rules
                                                ELSE [rules EXCEPT ![<<p, a>>] = @ - 1]

Waiting(s, k, step) == calls[s][k].step = step

\* The function goes on as c.
Await(s, k, c) == calls' = [calls EXCEPT ![s][k] = c]

\* A function is called, and waits for its first answer.
Begin(s, k, c) ==
  /\ Waiting(s, k, "none") /\ \A j \in 1 .. k - 1 : ~Waiting(s, j, "none")
  /\ Await(s, k, c)
  /\ raced' = IF \A j \in Lane : Waiting(s, j, "none") THEN raced ELSE raced \cup {s}

\* The port the agent is working on.
PortOf(s, k) == CHOOSE p \in calls[s][k].todo : TRUE
IsLast(s, k) == calls[s][k].todo = {PortOf(s, k)}

\* That port is done; after the last, the function goes on as last.
NextPort(s, k, last) ==
  Await(s, k, IF IsLast(s, k) THEN last
              ELSE [calls[s][k] EXCEPT !.todo = @ \ {PortOf(s, k)}])

-------------------------------------------------------------------------------
(* executeKnock, which the poll loop awaits *)

Execute(s, P, a) ==
  /\ phase # "down"
  /\ knock[s].status = "new" /\ \A t \in Session : knock[t].status # "opening"
  /\ knock' = [knock EXCEPT ![s] = [NewKnock EXCEPT !.status = "opening", !.ports = P,
                                                    !.source = a]]
  /\ Begin(s, 1, [step |-> "open", todo |-> P, addr |-> a])
  /\ UNCHANGED <<rules, file, phase, visited, countVars>>

\* The last port is open: the session, its timer, its heartbeat poller, which
\* first removes knock.active, and the monitor of auth.log.
OpenStep(s, o) ==
  /\ Waiting(s, 1, "open")
  /\ OpenPort(PortOf(s, 1), knock[s].source, o)
  /\ IF o # "ok"
       THEN /\ Await(s, 1, [calls[s][1] EXCEPT !.step = "undo", !.todo = knock[s].ports])
            /\ UNCHANGED <<knock, file>>
       ELSE /\ NextPort(s, 1, NoCall)
            /\ IF IsLast(s, 1)
                 THEN /\ knock' = [knock EXCEPT ![s].status = "open", ![s].timer = TRUE,
                                     ![s].beat = TRUE, ![s].tail = Ssh \in knock[s].ports]
                      /\ file' = NoFile
                 ELSE UNCHANGED <<knock, file>>
  /\ UNCHANGED <<phase, visited, beats, ends, raced>>

\* Every port is closed, those that were not opened included.
UndoStep(s, o) ==
  /\ Waiting(s, 1, "undo")
  /\ ClosePort(PortOf(s, 1), knock[s].source, o)
  /\ NextPort(s, 1, NoCall)
  /\ knock' = IF IsLast(s, 1) THEN [knock EXCEPT ![s].status = "closed"] ELSE knock
  /\ UNCHANGED <<file, phase, visited, beats, ends, raced>>

-------------------------------------------------------------------------------
(* transitionToPostLogin *)

\* Mutant: phase 1 is closed before the rules for the address are there.
BeginNarrowDropFirst(s, k, ip) ==
  /\ knock[s].status = "open" /\ knock[s].login = AnyAddr
  /\ Begin(s, k, [step |-> "drop", todo |-> knock[s].ports, addr |-> ip])

BeginNarrow(s, k, ip) ==
  /\ knock[s].status = "open" /\ knock[s].login = AnyAddr
  /\ Begin(s, k, [step |-> "narrow", todo |-> knock[s].ports, addr |-> ip])

\* First the rules for the address; a failure takes back those opened so far.
NarrowStep(s, k, o) ==
  LET c == calls[s][k] IN
  /\ Waiting(s, k, "narrow")
  /\ OpenPort(PortOf(s, k), c.addr, o)
  /\ IF o = "ok" THEN NextPort(s, k, [c EXCEPT !.step = "drop", !.todo = knock[s].ports])
     ELSE LET opened == knock[s].ports \ c.todo IN
            Await(s, k, IF opened = {} THEN NoCall
                        ELSE [c EXCEPT !.step = "rollback", !.todo = opened])
  /\ UNCHANGED <<knock, file, phase, visited, beats, ends, raced>>

RollbackStep(s, k, o) ==
  /\ Waiting(s, k, "rollback")
  /\ ClosePort(PortOf(s, k), calls[s][k].addr, o)
  /\ NextPort(s, k, NoCall)
  /\ UNCHANGED <<knock, file, phase, visited, beats, ends, raced>>

\* Mutant: the timer is cleared with the first rule of phase 1.
DropStepEarly(s, k, o) ==
  LET c == calls[s][k] IN
  /\ Waiting(s, k, "drop")
  /\ ClosePort(PortOf(s, k), knock[s].source, o)
  /\ NextPort(s, k, NoCall)
  /\ knock' = IF IsLast(s, k)
                THEN [knock EXCEPT ![s].timer = FALSE, ![s].login = c.addr, ![s].tail = FALSE]
                ELSE [knock EXCEPT ![s].timer = FALSE]
  /\ UNCHANGED <<file, phase, visited, beats, ends, raced>>

\* Mutant: the timer of phase 1 keeps running.
DropStepKeepTimer(s, k, o) ==
  LET c == calls[s][k] IN
  /\ Waiting(s, k, "drop")
  /\ ClosePort(PortOf(s, k), knock[s].source, o)
  /\ NextPort(s, k, NoCall)
  /\ knock' = IF IsLast(s, k)
                THEN [knock EXCEPT ![s].login = c.addr, ![s].tail = FALSE] ELSE knock
  /\ UNCHANGED <<file, phase, visited, beats, ends, raced>>

\* Then phase 1 is closed; the heartbeat takes over from timer and auth.log.
DropStep(s, k, o) ==
  LET c == calls[s][k] IN
  /\ Waiting(s, k, "drop")
  /\ ClosePort(PortOf(s, k), knock[s].source, o)
  /\ NextPort(s, k, NoCall)
  /\ knock' = IF IsLast(s, k)
                THEN [knock EXCEPT ![s].timer = FALSE, ![s].login = c.addr, ![s].tail = FALSE]
                ELSE knock
  /\ UNCHANGED <<file, phase, visited, beats, ends, raced>>

-------------------------------------------------------------------------------
(* closeKnock *)

\* Mutant: always the rules of phase 1.
CloseSourceFirst(s) == knock[s].source

CloseSource(s) == IF knock[s].login # AnyAddr THEN knock[s].login ELSE knock[s].source

BeginClose(s, k) ==
  /\ knock[s].status = "open"
  /\ knock' = [knock EXCEPT ![s].timer = FALSE, ![s].beat = FALSE, ![s].tail = FALSE]
  /\ Begin(s, k, [step |-> "close", todo |-> knock[s].ports, addr |-> CloseSource(s)])

\* After the last port: knock.active is removed, and the session.
CloseStep(s, k, o) ==
  /\ Waiting(s, k, "close")
  /\ ClosePort(PortOf(s, k), calls[s][k].addr, o)
  /\ NextPort(s, k, NoCall)
  /\ IF IsLast(s, k)
       THEN knock' = [knock EXCEPT ![s].status = "closed"] /\ file' = NoFile
       ELSE UNCHANGED <<knock, file>>
  /\ UNCHANGED <<phase, visited, beats, ends, raced>>

Step(s) ==
  \E o \in Outcome :
    \/ OpenStep(s, o) \/ UndoStep(s, o)
    \/ \E k \in Lane : \/ NarrowStep(s, k, o) \/ RollbackStep(s, k, o)
                       \/ DropStep(s, k, o) \/ CloseStep(s, k, o)

-------------------------------------------------------------------------------
(* Callbacks *)

TimerFires(s) ==
  /\ knock[s].timer
  /\ \E k \in Lane \ {0} : BeginClose(s, k)
  /\ UNCHANGED <<rules, file, phase, visited, countVars>>

\* The poller: in phase 1 it waits for knock.active, in phase 2 for its end.
Heartbeat(s) ==
  /\ knock[s].beat
  /\ \E k \in Lane \ {0} :
       \/ file # NoFile /\ BeginNarrow(s, k, file.ip) /\ UNCHANGED knock
       \/ file = NoFile /\ knock[s].login # AnyAddr /\ BeginClose(s, k)
       \/ file # NoFile /\ ~file.fresh /\ knock[s].login # AnyAddr /\ BeginClose(s, k)
  /\ UNCHANGED <<rules, file, phase, visited, countVars>>

\* tail reports a login; the write of knock.active may fail.
AuthLogLine(s, ip) ==
  /\ knock[s].tail
  /\ beats < MaxBeats /\ beats' = beats + 1
  /\ \/ file' = [ip |-> ip, fresh |-> TRUE] /\ Answer("ok")
     \/ UNCHANGED file /\ Answer("fail")
  /\ \E k \in Lane \ {0} : BeginNarrow(s, k, ip)
  /\ UNCHANGED <<rules, knock, phase, visited, ends>>

-------------------------------------------------------------------------------
(* The world: whoever is logged in keeps knock.active fresh, or removes it *)

TouchFile(ip) ==
  /\ beats < MaxBeats /\ beats' = beats + 1
  /\ file' = [ip |-> ip, fresh |-> TRUE]
  /\ UNCHANGED <<rules, knock, calls, phase, visited, failures, ends, raced>>

FileGoesStale ==
  /\ file.fresh
  /\ file' = [file EXCEPT !.fresh = FALSE]
  /\ UNCHANGED <<rules, knock, calls, phase, visited, countVars, raced>>

FileRemoved ==
  /\ file # NoFile
  /\ file' = NoFile
  /\ UNCHANGED <<rules, knock, calls, phase, visited, countVars, raced>>

-------------------------------------------------------------------------------
(* The end of the process *)

Interrupt ==
  /\ phase = "up"
  /\ ends < MaxEnds /\ ends' = ends + 1
  /\ phase' = "closing"
  /\ UNCHANGED <<rules, knock, calls, file, visited, failures, beats, raced>>

\* closeAllKnocks: one session after the other, new ones included.
CloseNext(s) ==
  /\ phase = "closing"
  /\ \A t \in Session : Waiting(t, 0, "none")
  /\ s \notin visited
  /\ visited' = visited \cup {s}
  /\ BeginClose(s, 0)
  /\ UNCHANGED <<rules, file, phase, countVars>>

AllClosed ==
  /\ phase = "closing"
  /\ \A t \in Session : Waiting(t, 0, "none")
  /\ \A t \in Session \ visited : knock[t].status # "open"
  /\ phase' = "closed"
  /\ UNCHANGED <<rules, knock, calls, file, visited, countVars, raced>>

Down ==
  /\ phase' = "down" /\ visited' = {}
  /\ knock' = [s \in Session |->
                 IF knock[s].status \in {"opening", "open"}
                   THEN [knock[s] EXCEPT !.status = "gone", !.timer = FALSE, !.beat = FALSE,
                                         !.tail = FALSE]
                   ELSE knock[s]]
  /\ calls' = [s \in Session |-> [k \in Lane |-> NoCall]]
  /\ UNCHANGED <<rules, file, failures, beats, raced>>

Exit == phase = "closed" /\ Down /\ UNCHANGED ends

Crash ==
  /\ phase # "down"
  /\ ends < MaxEnds /\ ends' = ends + 1
  /\ Down

Restart ==
  /\ phase = "down"
  /\ phase' = "up"
  /\ UNCHANGED <<rules, knock, calls, file, visited, countVars, raced>>

Next ==
  \/ \E s \in Session :
       \/ Step(s) \/ TimerFires(s) \/ Heartbeat(s) \/ CloseNext(s)
       \/ \E ip \in Addr : AuthLogLine(s, ip)
       \/ \E P \in PortSets, a \in Sources : Execute(s, P, a)
  \/ \E ip \in Addr : TouchFile(ip)
  \/ FileGoesStale \/ FileRemoved
  \/ Interrupt \/ AllClosed \/ Exit \/ Crash \/ Restart

Spec == Init /\ [][Next]_vars

-------------------------------------------------------------------------------
(* Once the sessions of a port are closed, every rule that was made for it *)
(* is gone again, unless a call failed, two functions of one of these      *)
(* sessions ran at once, or the process ended with one of them open: what  *)
(* goes wrong in a session stays on its own ports.  (Each way to end a     *)
(* session closes the rules of the phase it is in.)                        *)
NoRuleLeft ==
  \A p \in Port :
    /\ failures = 0
    /\ \A s \in Session : p \in knock[s].ports =>
         knock[s].status = "closed" /\ s \notin raced /\ \A k \in Lane : Waiting(s, k, "none")
    => \A a \in Source : rules[<<p, a>>] = 0

\* One transition of s at a time, and no failure of a session that shares its ports.
Undisturbed(s) ==
  /\ s \notin raced
  /\ \A t \in Session \ {s} :
       knock[t].ports \cap knock[s].ports = {} \/ (failures = 0 /\ t \notin raced)

(* An open session that is not being closed never loses access, whatever   *)
(* fails: each of its ports has a rule for the login, or still the one for *)
(* its source, also when another session with the same ports and the same  *)
(* address ends.  (transitionToPostLogin opens the new rules first.)       *)
KeepsAccess ==
  \A s \in Session :
    /\ knock[s].status = "open" /\ Undisturbed(s)
    /\ \A k \in Lane : ~Waiting(s, k, "close")
    => \A p \in knock[s].ports : \E a \in Source :
         /\ rules[<<p, a>>] > 0
         /\ \/ a = CloseSource(s)
            \/ \E k \in Lane : Waiting(s, k, "drop") /\ a = calls[s][k].addr

(* A session cannot stay open by itself: at any moment its timer runs, or  *)
(* the heartbeat of its login is watched, or it is being closed, whatever  *)
(* fails or overlaps.  (timeoutId hands over to heartbeatInterval, in a    *)
(* transition that may be given up half way.)                              *)
SessionHasEnd ==
  \A s \in Session : knock[s].status = "open" =>
    \/ knock[s].timer
    \/ knock[s].beat /\ knock[s].login # AnyAddr
    \/ \E k \in Lane : Waiting(s, k, "close")

===============================================================================
