----------------------------- MODULE Addressbook -------------------------------
(***************************************************************************)
(* addressbook.json and its writers: the ab commands, the fund cycle's     *)
(* ensureHotWallet in every monitor that runs, and the root agent's        *)
(* generate-wallet.  Each loads the file, changes its copy and has all of  *)
(* it written back; nothing locks the file.                                *)
(***************************************************************************)
EXTENDS PidLock

CONSTANTS
  Shell,     \* ab commands that may run at a time
  Name,      \* "server", "hot" and what operators add
  Address,   \* addresses given on the command line
  MaxFaults  \* bound: failed reads and writes, killed agents

Immutable == {"server", "admin", "hot", "dev", "broker"}

ASSUME BookAssumption ==
  /\ {"server", "hot"} \subseteq Name /\ Name \cap {"admin", "dev", "broker"} = {}
  /\ Shell \cap Monitor = {} /\ MaxFaults \in Nat
  /\ "own" \notin Address

\* An entry: an address given, or that of the wallet's own key file; and whether it names the file.
Entry == [address : Address \cup {"own"}, keyfile : BOOLEAN]
Absent == [address |-> "own", keyfile |-> FALSE] \* no entry (one with the own address names its file)
OwnWallet == [address |-> "own", keyfile |-> TRUE]
Book == [Name -> Entry]
Empty == [n \in Name |-> Absent]
Process == Monitor \cup Shell

VARIABLES
  book,       \* addressbook.json
  keys,       \* names with a key file
  step,       \* of each process: what it waits for
  view,       \* its copy of the book
  name,       \* what generate-wallet was asked to make for it
  faults,     \* how often it happened (bounded)
  stale,      \* history: processes whose copy is older than another's change
  misread     \* history: processes that took a failed read for an empty book

progVars == <<step, view, name>>
histVars == <<stale, misread>>
vars == <<pidVars, book, keys, progVars, faults, histVars>>

TypeOK ==
  /\ PidTypeOK
  /\ book \in Book /\ keys \in SUBSET Name
  /\ step \in [Process -> {"none", "save", "generate", "enter"}]
  /\ view \in [Process -> Book] /\ name \in [Process -> Name]
  /\ faults \in 0 .. MaxFaults
  /\ stale \subseteq Process /\ misread \subseteq Process

Init ==
  /\ PidInit
  /\ book = Empty /\ keys = {"server"}
  /\ step = [p \in Process |-> "none"]
  /\ view = [p \in Process |-> Empty] /\ name = [p \in Process |-> "hot"]
  /\ faults = 0
  /\ stale = {} /\ misread = {}

Fault == faults < MaxFaults /\ faults' = faults + 1
NoFault == UNCHANGED faults

-----------------------------------------------------------------------------
(* Loading the book *)

\* loadAddressbook: a file that is missing or cannot be read is an empty book.
Load(p, seen) ==
  /\ step[p] = "none"
  /\ \/ seen = book /\ NoFault /\ UNCHANGED misread
     \/ seen = Empty /\ book # Empty /\ Fault /\ misread' = misread \cup {p}
  /\ UNCHANGED stale

Loads == {book, Empty}

\* Whose copies are old once p has made the book b.
Outdated(p, b) == IF b = book THEN {} ELSE {q \in Process \ {p} : step[q] # "none"}

\* p is done, and leaves the book b: its copy is gone.
Done(p, b) ==
  /\ book' = b
  /\ stale' = (stale \cup Outdated(p, b)) \ {p}
  /\ misread' = misread \ {p}
  /\ step' = [step EXCEPT ![p] = "none"]
  /\ view' = [view EXCEPT ![p] = Empty]
  /\ name' = [name EXCEPT ![p] = "hot"]

\* What p does next, with which copy of the book.
Goes(p, s, seen, n) ==
  /\ step' = [step EXCEPT ![p] = s]
  /\ view' = [view EXCEPT ![p] = seen]
  /\ name' = [name EXCEPT ![p] = n]
  /\ UNCHANGED <<pidVars, book, keys>>

\* Mutant: reserved names can be changed.
MutableAll(n) == n \in Name

\* assertMutable
Mutable(n) == n \notin Immutable

AbAdd(p, n, a) ==
  \E seen \in Loads :
    /\ Mutable(n) /\ Load(p, seen)
    /\ seen[n] = Absent
    /\ Goes(p, "save", [seen EXCEPT ![n] = [address |-> a, keyfile |-> FALSE]], n)

\* Only the address changes: an entry with a key file keeps it.
AbUp(p, n, a) ==
  \E seen \in Loads :
    /\ Mutable(n) /\ Load(p, seen)
    /\ seen[n] # Absent
    /\ Goes(p, "save", [seen EXCEPT ![n].address = a], n)

\* Mutant: the entry is emptied, not deleted.
AbDelNull(p, n) ==
  \E seen \in Loads :
    /\ Mutable(n) /\ Load(p, seen)
    /\ seen[n] # Absent
    /\ Goes(p, "save", [seen EXCEPT ![n].address = ""], n)

AbDel(p, n) ==
  \E seen \in Loads :
    /\ Mutable(n) /\ Load(p, seen)
    /\ seen[n] # Absent
    /\ Goes(p, "save", [seen EXCEPT ![n] = Absent], n)

AbNew(p, n) ==
  \E seen \in Loads :
    /\ Mutable(n) /\ Load(p, seen)
    /\ seen[n] = Absent
    /\ Goes(p, "generate", seen, n)

\* --init refuses a book that has entries.
AbInit(p) ==
  \E seen \in Loads :
    /\ Load(p, seen) /\ seen = Empty
    /\ Goes(p, "save", [Empty EXCEPT !["server"] = OwnWallet], "server")

\* Mutant: an empty book does not end the fund cycle.
EnsureHotWalletAnyway(p) ==
  \E seen \in Loads :
    /\ p \in Polling /\ Load(p, seen)
    /\ seen["hot"] = Absent
    /\ Goes(p, "generate", seen, "hot")

\* runFundCycle: an empty book ends it; ensureHotWallet asks for the wallet if it has none.
EnsureHotWallet(p) ==
  \E seen \in Loads :
    /\ p \in Polling /\ Load(p, seen)
    /\ seen # Empty /\ seen["hot"] = Absent
    /\ Goes(p, "generate", seen, "hot")

-----------------------------------------------------------------------------
(* The root agent *)

\* generate-wallet refuses a name that has a key file, else it writes the file ...
WriteKey(p) ==
  /\ step[p] = "generate"
  /\ IF name[p] \in keys
     THEN Done(p, book) /\ UNCHANGED keys
     ELSE /\ step' = [step EXCEPT ![p] = "enter"]
          /\ keys' = keys \cup {name[p]}
          /\ UNCHANGED <<book, view, name, histVars>>
  /\ UNCHANGED <<pidVars, faults>>

\* Mutant: generate-wallet leaves the book to its caller.
EnterNothing(p) ==
  /\ step[p] = "enter"
  /\ IF p \in Monitor
     THEN Goes(p, "save", [view[p] EXCEPT ![name[p]] = OwnWallet], name[p]) /\ UNCHANGED histVars
     ELSE Done(p, book) /\ UNCHANGED <<pidVars, keys>>
  /\ UNCHANGED faults

\* ... and then enters it in the book.  A monitor that gets the answer saves its own copy as well.
EnterWallet(p) ==
  LET entered == [book EXCEPT ![name[p]] = OwnWallet]
  IN /\ step[p] = "enter"
     /\ \/ /\ p \in Monitor /\ NoFault
           /\ book' = entered /\ stale' = stale \cup Outdated(p, entered)
           /\ step' = [step EXCEPT ![p] = "save"]
           /\ view' = [view EXCEPT ![p][name[p]] = OwnWallet]
           /\ UNCHANGED <<name, misread>>
        \/ p \in Shell /\ NoFault /\ Done(p, entered)
        \/ p \in Monitor /\ Fault /\ Done(p, entered) \* the answer is lost
     /\ UNCHANGED <<pidVars, keys>>

AgentKilled(p) ==
  /\ step[p] = "enter" /\ Fault
  /\ Done(p, book)
  /\ UNCHANGED <<pidVars, keys>>

\* addressbook-save: the whole file is replaced, or nothing.
SaveBook(p) ==
  /\ step[p] = "save"
  /\ \/ Done(p, view[p]) /\ NoFault
     \/ Done(p, book) /\ Fault
  /\ UNCHANGED <<pidVars, keys>>

-----------------------------------------------------------------------------
(* Programs that end *)

\* The agent goes on with what it was asked (EnterWallet, its answer lost).
EndProgram(m) ==
  /\ step[m] # "enter"
  /\ End(m)
  /\ Done(m, book)
  /\ UNCHANGED <<keys, faults>>

PidStep ==
  /\ Recycle \/ \E m \in Monitor : Check(m) \/ WritePid(m) \/ ReleasePid(m)
  /\ UNCHANGED <<book, keys, progVars, faults, histVars>>

Next ==
  \/ PidStep
  \/ \E m \in Monitor : EndProgram(m) \/ EnsureHotWallet(m)
  \/ \E p \in Process : WriteKey(p) \/ EnterWallet(p) \/ AgentKilled(p) \/ SaveBook(p)
  \/ \E p \in Shell : \/ AbInit(p)
                      \/ \E n \in Name : AbDel(p, n) \/ AbNew(p, n)
                      \/ \E n \in Name, a \in Address : AbAdd(p, n, a) \/ AbUp(p, n, a)

Spec == Init /\ [][Next]_vars

-----------------------------------------------------------------------------
(* Properties *)

\* A hot wallet has a key file and no entry: it is used by nobody, and cannot be
\* generated again.
HotWalletLost ==
  /\ "hot" \in keys /\ book["hot"] = Absent
  /\ ~\E p \in Process : step[p] = "enter" /\ name[p] = "hot"

\* The hot wallet gets lost in two ways only: the agent ends between the key file and the
\* entry, or a copy of the book is saved that another process has made old, or that
\* a command took from a failed read.
HotWalletKept ==
  [][HotWalletLost' =>
       \/ HotWalletLost
       \/ \E p \in Process : AgentKilled(p) \/ (SaveBook(p) /\ p \in stale \cup misread)]_vars

\* An entry that names a key file has one, whatever was interrupted; and for the reserved
\* roles the address is that key's, so that what they sign moves the money they hold.
WalletsMatch ==
  \A n \in Name : book[n].keyfile =>
    n \in keys /\ (n \in Immutable => book[n].address = "own")

\* The server's entry is lost only by saving a copy that another process has made old, or
\* that an ab command took from a failed read: a monitor that cannot read the book saves
\* nothing, and a save that failed leaves what was there.
ServerKept ==
  [][book["server"] # Absent /\ book'["server"] = Absent =>
       \E p \in Process : SaveBook(p) /\ p \in stale \cup (misread \cap Shell)]_vars

===============================================================================
