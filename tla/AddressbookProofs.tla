-------------------------- MODULE AddressbookProofs ----------------------------
(***************************************************************************)
(* What the PID lock and the writers of the address book keep, for any     *)
(* monitors, users, commands, names and failures.                          *)
(***************************************************************************)
EXTENDS Addressbook, FiniteSetTheorems, TLAPS

\* While nothing is excused, at most one monitor has passed the check and not ended, and
\* one that polls is the one in the file.
Locked ==
  ~excused => /\ \A m, n \in Monitor : phase[m] # "off" /\ phase[n] # "off" => m = n
              /\ \A m \in Monitor : phase[m] = "on" => pidFile = m

\* What a book b says of key files is true when k are the names that have one.
KeyOK(b, k) ==
  \A n \in Name : b[n].keyfile => n \in k /\ (n \in Immutable => b[n].address = "own")

Wallets ==
  /\ "server" \in keys /\ KeyOK(book, keys)
  /\ \A p \in Process : KeyOK(view[p], keys) /\ (step[p] = "enter" => name[p] \in keys)

\* The copy w lost none of the wallets of b.
Keeps(w, b) == \A n \in {"hot", "server"} : w[n] = Absent => b[n] = Absent

\* A copy that is neither old nor misread lost nothing; a monitor misreads nothing.
Copies ==
  /\ \A p \in Process : step[p] # "none" /\ p \notin stale \cup misread => Keeps(view[p], book)
  /\ misread \subseteq Shell

IInv == TypeOK /\ Locked /\ Wallets /\ Copies

-----------------------------------------------------------------------------
(* Books *)

\* The entries that appear in the code are entries.
LEMMA Entries ==
  /\ Absent \in Entry /\ OwnWallet \in Entry /\ OwnWallet # Absent
  /\ ~Absent.keyfile /\ OwnWallet.keyfile /\ OwnWallet.address = "own"
  /\ \A a \in Address : [address |-> a, keyfile |-> FALSE] \in Entry
  /\ Empty \in Book /\ \A n \in Name : Empty[n] = Absent
  BY DEF Entry, Absent, OwnWallet, Book, Empty

\* Changing one entry of a book gives a book with that entry.
LEMMA Change ==
  ASSUME NEW b \in Book, NEW n \in Name, NEW e \in Entry
  PROVE  /\ [b EXCEPT ![n] = e] \in Book
         /\ \A k \in Name : [b EXCEPT ![n] = e][k] = IF k = n THEN e ELSE b[k]
  BY DEF Book

\* An entry whose address is changed is another entry.
LEMMA NewAddress ==
  ASSUME NEW e \in Entry, NEW a \in Address
  PROVE  /\ [e EXCEPT !.address = a] \in Entry
         /\ [e EXCEPT !.address = a].keyfile = e.keyfile /\ [e EXCEPT !.address = a] # Absent
  BY BookAssumption DEF Entry, Absent

\* The reserved names that are wallets.
LEMMA Reserved ==
  /\ "server" \in Name /\ "hot" \in Name /\ "server" \in Immutable /\ "hot" \in Immutable
  /\ \A n \in Name : Mutable(n) => n \notin Immutable /\ n # "server" /\ n # "hot"
  BY BookAssumption DEF Immutable, Mutable

\* A mutable entry may become any that does not claim a key file it has not.
LEMMA MutableChange ==
  ASSUME NEW b \in Book, NEW n \in Name, Mutable(n), NEW e \in Entry, NEW k,
         KeyOK(b, k), e.keyfile => b[n].keyfile
  PROVE  LET w == [b EXCEPT ![n] = e] IN w \in Book /\ Keeps(w, b) /\ KeyOK(w, k)
<1> DEFINE w == [b EXCEPT ![n] = e]
<1>1. w \in Book /\ \A m \in Name : w[m] = IF m = n THEN e ELSE b[m]
  BY Change
<1> HIDE DEF w
<1>2. Keeps(w, b)
  BY <1>1, Reserved DEF Keeps
<1>3. KeyOK(w, k)
  BY <1>1, Reserved DEF KeyOK
<1> QED
  BY <1>1, <1>2, <1>3 DEF w

-----------------------------------------------------------------------------
(* The initial state, and steps of the lock *)

\* The initial state satisfies the invariant.
LEMMA InitInv == Init => IInv
<1> SUFFICES ASSUME Init PROVE IInv
  OBVIOUS
<1>1. TypeOK
  <2>1. PidTypeOK
    <3>1. phase \in [Monitor -> {"off", "checked", "on", "closing"}]
      BY DEF Init, PidInit
    <3>2. deaths \in 0 .. MaxDeaths /\ pidFile = NoFile
      BY PidAssumption DEF Init, PidInit
    <3>3. excused \in BOOLEAN
      BY DEF Init, PidInit
    <3> QED
      BY <3>1, <3>2, <3>3 DEF PidTypeOK
  <2>2. book \in Book /\ keys \subseteq Name /\ faults \in 0 .. MaxFaults
    BY Entries, Reserved, BookAssumption DEF Init
  <2> QED
    BY <2>1, <2>2, Entries, Reserved DEF Init, TypeOK
<1>2. Locked
  BY DEF Init, PidInit, Locked
<1>3. Wallets
  BY Entries DEF Init, Wallets, KeyOK
<1>4. Copies
  BY DEF Init, Copies
<1> QED
  BY <1>1, <1>2, <1>3, <1>4 DEF IInv

\* The lock's own steps.
LEMMA LockStep ==
  ASSUME PidTypeOK, Locked, NEW m \in Monitor, Check(m) \/ WritePid(m) \/ ReleasePid(m) \/ End(m)
  PROVE  PidTypeOK' /\ Locked'
<1>0. pidFile \in Monitor => pidFile \notin {NoFile, Stale, Reused}
  BY PidDistinct
<1>1. CASE Check(m)
  <2>1. PidTypeOK'
    BY <1>1 DEF Check, PidTypeOK
  <2>2. \A k \in Monitor : phase'[k] = IF k = m THEN "checked" ELSE phase[k]
    BY <1>1 DEF Check, PidTypeOK
  <2>3. ~excused' => \A k \in Monitor : phase[k] = "off"
    <3> DEFINE others == {n \in Monitor \ {m} : phase[n] # "off"}
    <3> SUFFICES ASSUME ~excused', NEW k \in Monitor, phase[k] # "off" PROVE FALSE
      OBVIOUS
    <3>1. phase[m] = "off" /\ ~Sees(m, pidFile) /\ k \in others
      BY <1>1 DEF Check
    <3>2. /\ ~excused /\ \A n \in others : phase[n] \notin {"checked", "closing"}
          /\ pidFile \in others => User[m] \in {"root", User[pidFile]}
      <4>1. excused' = (/\ others # {}
                        /\ \/ excused
                           \/ \E n \in others : phase[n] \in {"checked", "closing"}
                           \/ pidFile \in others /\ User[m] \notin {"root", User[pidFile]})
        BY <1>1, Zenon DEF Check
      <4> QED
        BY <3>1, <4>1, Zenon
    <3>3. phase[k] = "on" /\ pidFile = k
      BY <3>1, <3>2 DEF PidTypeOK, Locked
    <3> QED
      BY <3>1, <3>2, <3>3 DEF Sees
  <2> QED
    BY <1>1, <2>1, <2>2, <2>3 DEF Locked, Check
<1>2. CASE WritePid(m)
  <2>1. PidTypeOK'
    BY <1>2 DEF WritePid, PidTypeOK
  <2>2. \A k \in Monitor : phase'[k] = IF k = m THEN "on" ELSE phase[k]
    BY <1>2 DEF WritePid, PidTypeOK
  <2> QED
    BY <1>2, <2>1, <2>2 DEF WritePid, Locked
<1>3. CASE ReleasePid(m)
  <2>1. PidTypeOK'
    BY <1>3 DEF ReleasePid, PidTypeOK, Polling
  <2>2. \A k \in Monitor : phase'[k] = IF k = m THEN "closing" ELSE phase[k]
    BY <1>3 DEF ReleasePid, PidTypeOK, Polling
  <2>3. phase[m] # "off"
    BY <1>3 DEF ReleasePid, Polling
  <2> QED
    BY <1>3, <2>1, <2>2, <2>3 DEF ReleasePid, Locked
<1>4. CASE End(m)
  <2>1. PidTypeOK'
    BY <1>4, PidAssumption DEF End, PidTypeOK
  <2>2. \A k \in Monitor : phase'[k] = IF k = m THEN "off" ELSE phase[k]
    BY <1>4 DEF End, PidTypeOK
  <2> QED
    BY <1>0, <1>4, <2>1, <2>2 DEF End, Locked
<1> QED
  BY <1>1, <1>2, <1>3, <1>4

\* The kernel reuses a PID.
LEMMA RecycleStep ==
  ASSUME PidTypeOK, Locked, Recycle
  PROVE  PidTypeOK' /\ Locked'
  BY PidDistinct DEF Recycle, PidTypeOK, Locked

-----------------------------------------------------------------------------
(* Steps of the writers *)

\* A failure is counted within its bound.
LEMMA Counted ==
  ASSUME TypeOK, Fault \/ NoFault
  PROVE  faults' \in 0 .. MaxFaults
  BY BookAssumption DEF TypeOK, Fault, NoFault

\* A process whose step ends.
LEMMA DoneType ==
  ASSUME TypeOK, NEW p \in Process, NEW b, Done(p, b)
  PROVE  /\ step' \in [Process -> {"none", "save", "generate", "enter"}]
         /\ view' \in [Process -> Book] /\ name' \in [Process -> Name]
         /\ stale' \subseteq Process /\ misread' \subseteq misread
         /\ \A q \in Process : /\ step'[q] = IF q = p THEN "none" ELSE step[q]
                               /\ view'[q] = IF q = p THEN Empty ELSE view[q]
                               /\ name'[q] = IF q = p THEN "hot" ELSE name[q]
<1>1. step' = [step EXCEPT ![p] = "none"] /\ view' = [view EXCEPT ![p] = Empty] /\ name' = [name EXCEPT ![p] = "hot"]
  BY DEF Done
<1>2. "hot" \in Name /\ Empty \in Book
  BY Reserved, Entries
<1>3. /\ step \in [Process -> {"none", "save", "generate", "enter"}]
      /\ view \in [Process -> Book] /\ name \in [Process -> Name]
  BY DEF TypeOK
<1>4. step' \in [Process -> {"none", "save", "generate", "enter"}] /\ \A q \in Process : step'[q] = IF q = p THEN "none" ELSE step[q]
  BY <1>1, <1>3
<1>5. view' \in [Process -> Book] /\ \A q \in Process : view'[q] = IF q = p THEN Empty ELSE view[q]
  BY <1>1, <1>2, <1>3
<1>6. name' \in [Process -> Name] /\ \A q \in Process : name'[q] = IF q = p THEN "hot" ELSE name[q]
  BY <1>1, <1>2, <1>3
<1>7. stale' \subseteq Process /\ misread' \subseteq misread
  BY DEF Done, Outdated, TypeOK
<1> QED
  BY <1>4, <1>5, <1>6, <1>7

\* Whoever still works and is not marked has its copy of a book that did not change.
LEMMA Marked ==
  ASSUME NEW p \in Process, NEW b, Done(p, b), NEW q \in Process \ {p}, step[q] # "none",
         q \notin stale' \cup misread'
  PROVE  book' = book /\ q \notin stale \cup misread
  BY DEF Done, Outdated

\* The empty book claims nothing.
LEMMA EmptyOK == ASSUME NEW k PROVE KeyOK(Empty, k)
  BY Entries DEF KeyOK

\* A process is done, with a book that claims no more than its key files.
LEMMA DoneStep ==
  ASSUME IInv, NEW p \in Process, NEW b \in Book, Done(p, b), PidTypeOK', Locked',
         Fault \/ NoFault, keys' = keys, KeyOK(b, keys)
  PROVE  IInv'
<1>0. TypeOK /\ Wallets /\ Copies /\ book' = b
  BY DEF IInv, Done
<1>1. TypeOK'
  BY <1>0, Counted, DoneType DEF TypeOK
<1>2. Wallets'
  BY <1>0, DoneType, EmptyOK DEF Wallets
<1>3. Copies'
  <2>1. ASSUME NEW q \in Process, step'[q] # "none", q \notin stale' \cup misread'
        PROVE  Keeps(view'[q], book')
    <3>1. q # p /\ step[q] # "none" /\ view'[q] = view[q]
      BY <1>0, <2>1, DoneType
    <3>2. book' = book /\ q \notin stale \cup misread
      BY <2>1, <3>1, Marked
    <3> QED
      BY <1>0, <3>1, <3>2 DEF Copies
  <2>2. misread' \subseteq Shell
    BY <1>0, DoneType DEF Copies
  <2> QED
    BY <2>1, <2>2 DEF Copies
<1> QED
  BY <1>1, <1>2, <1>3 DEF IInv

\* A process loads the book and goes on with a copy w that lost no wallet.
LEMMA LoadStep ==
  ASSUME IInv, NEW p \in Process, NEW seen \in Loads, Load(p, seen),
         NEW w \in Book, NEW s \in {"save", "generate"}, NEW n \in Name, Goes(p, s, w, n),
         Keeps(w, seen), KeyOK(w, keys), seen = book \/ p \in Shell
  PROVE  IInv'
<1>0. TypeOK /\ Locked /\ Wallets /\ Copies
  BY DEF IInv
<1>1. step[p] = "none" /\ (Fault \/ NoFault)
  BY DEF Load
<1>a. /\ stale' = stale /\ misread \subseteq misread' /\ misread' \subseteq misread \cup {p}
      /\ seen = book => misread' = misread
      /\ p \notin misread' => seen = book
  <2>1. stale' = stale /\ \/ seen = book /\ UNCHANGED misread
                          \/ seen = Empty /\ book # Empty /\ misread' = misread \cup {p}
    BY DEF Load
  <2> QED
    BY <2>1
<1>2. /\ step' = [step EXCEPT ![p] = s] /\ view' = [view EXCEPT ![p] = w] /\ name' = [name EXCEPT ![p] = n]
      /\ UNCHANGED <<pidFile, phase, deaths, excused, book, keys>>
  BY DEF Goes, pidVars
<1>3. /\ step' \in [Process -> {"none", "save", "generate", "enter"}]
      /\ view' \in [Process -> Book] /\ name' \in [Process -> Name]
      /\ \A q \in Process : /\ step'[q] = IF q = p THEN s ELSE step[q]
                            /\ view'[q] = IF q = p THEN w ELSE view[q]
                            /\ name'[q] = IF q = p THEN n ELSE name[q]
  <2>1. /\ step \in [Process -> {"none", "save", "generate", "enter"}]
        /\ view \in [Process -> Book] /\ name \in [Process -> Name]
    BY <1>0 DEF TypeOK
  <2>2. step' \in [Process -> {"none", "save", "generate", "enter"}] /\ \A q \in Process : step'[q] = IF q = p THEN s ELSE step[q]
    BY <1>2, <2>1
  <2>3. view' \in [Process -> Book] /\ \A q \in Process : view'[q] = IF q = p THEN w ELSE view[q]
    BY <1>2, <2>1
  <2>4. name' \in [Process -> Name] /\ \A q \in Process : name'[q] = IF q = p THEN n ELSE name[q]
    BY <1>2, <2>1
  <2> QED
    BY <2>2, <2>3, <2>4
<1>5. TypeOK'
  BY <1>0, <1>1, <1>2, <1>3, <1>a, Counted DEF TypeOK, PidTypeOK
<1>6. Locked'
  BY <1>0, <1>2 DEF Locked
<1>7. Wallets'
  BY <1>0, <1>2, <1>3 DEF Wallets
<1>8. Copies'
  <2>1. ASSUME NEW q \in Process, step'[q] # "none", q \notin stale' \cup misread'
        PROVE  Keeps(view'[q], book')
    <3>1. CASE q = p
      BY <1>2, <1>3, <1>a, <2>1, <3>1
    <3>2. CASE q # p
      <4>1. step[q] # "none" /\ view'[q] = view[q] /\ q \notin stale \cup misread
        BY <1>3, <1>a, <2>1, <3>2
      <4> QED
        BY <1>0, <1>2, <4>1 DEF Copies
    <3> QED
      BY <3>1, <3>2
  <2>2. misread' \subseteq Shell
    BY <1>0, <1>a DEF Copies
  <2> QED
    BY <2>1, <2>2 DEF Copies
<1> QED
  BY <1>5, <1>6, <1>7, <1>8 DEF IInv

\* A loaded book is a book that claims no more than there is.
LEMMA Loaded ==
  ASSUME IInv, NEW seen \in Loads
  PROVE  seen \in Book /\ KeyOK(seen, keys) /\ Keeps(seen, seen)
  BY Entries, EmptyOK DEF IInv, TypeOK, Wallets, Loads, Keeps

\* ab --init writes the book of a new installation.
LEMMA AbInitStep == ASSUME IInv, NEW p \in Shell, AbInit(p) PROVE IInv'
<1>1. PICK seen \in Loads : /\ Load(p, seen) /\ seen = Empty
                            /\ Goes(p, "save", [Empty EXCEPT !["server"] = OwnWallet], "server")
  BY DEF AbInit
<1> DEFINE w == [Empty EXCEPT !["server"] = OwnWallet]
<1>2. w \in Book /\ \A m \in Name : w[m] = IF m = "server" THEN OwnWallet ELSE Absent
  BY Entries, Reserved, Change
<1>3. Goes(p, "save", w, "server")
  BY <1>1
<1> HIDE DEF w
<1>4. Keeps(w, seen)
  BY <1>1, <1>2, Entries, Reserved DEF Keeps
<1>5. KeyOK(w, keys)
  BY <1>2, Entries DEF KeyOK, IInv, Wallets
<1>6. p \in Process
  BY DEF Process
<1> QED
  BY <1>1, <1>2, <1>3, <1>4, <1>5, <1>6, Reserved, LoadStep

\* A command saves a book with one mutable entry changed.
LEMMA ChangeStep ==
  ASSUME IInv, NEW p \in Shell, NEW n \in Name, NEW seen \in Loads, Mutable(n), Load(p, seen),
         NEW e \in Entry, e.keyfile => seen[n].keyfile, Goes(p, "save", [seen EXCEPT ![n] = e], n)
  PROVE  IInv'
<1> DEFINE w == [seen EXCEPT ![n] = e]
<1>1. w \in Book /\ Keeps(w, seen) /\ KeyOK(w, keys)
  BY Loaded, MutableChange
<1>2. p \in Process
  BY DEF Process
<1> HIDE DEF w
<1> QED
  BY <1>1, <1>2, LoadStep DEF w

\* ab del and ab new.
LEMMA AbDelStep == ASSUME IInv, NEW p \in Shell, NEW n \in Name, AbDel(p, n) \/ AbNew(p, n) PROVE IInv'
<1>1. CASE AbDel(p, n)
  BY <1>1, Entries, ChangeStep DEF AbDel
<1>2. CASE AbNew(p, n)
  <2>1. p \in Process
    BY DEF Process
  <2> QED
    BY <1>2, <2>1, Loaded, LoadStep DEF AbNew
<1> QED
  BY <1>1, <1>2

\* ab add and ab up.
LEMMA AbAddStep ==
  ASSUME IInv, NEW p \in Shell, NEW n \in Name, NEW a \in Address, AbAdd(p, n, a) \/ AbUp(p, n, a)
  PROVE  IInv'
<1>1. CASE AbAdd(p, n, a)
  <2>1. [address |-> a, keyfile |-> FALSE] \in Entry /\ ~[address |-> a, keyfile |-> FALSE].keyfile
    BY Entries
  <2> QED
    BY <1>1, <2>1, ChangeStep DEF AbAdd
<1>2. CASE AbUp(p, n, a)
  <2>1. PICK seen \in Loads : /\ Mutable(n) /\ Load(p, seen)
                              /\ Goes(p, "save", [seen EXCEPT ![n].address = a], n)
    BY <1>2 DEF AbUp
  <2>2. seen[n] \in Entry
    BY Loaded DEF Book
  <2> DEFINE e == [seen[n] EXCEPT !.address = a]
  <2>3. e \in Entry /\ e.keyfile = seen[n].keyfile
    BY <2>2, NewAddress
  <2>4. Goes(p, "save", [seen EXCEPT ![n] = e], n)
    BY <2>1
  <2> HIDE DEF e
  <2> QED
    BY <2>1, <2>3, <2>4, ChangeStep
<1> QED
  BY <1>1, <1>2

\* ensureHotWallet has a book with entries, which is the book itself.
LEMMA EnsureStep == ASSUME IInv, NEW p \in Monitor, EnsureHotWallet(p) PROVE IInv'
<1>1. PICK seen \in Loads : Load(p, seen) /\ seen # Empty /\ Goes(p, "generate", seen, "hot")
  BY DEF EnsureHotWallet
<1>2. seen = book
  BY <1>1 DEF Loads
<1>3. p \in Process /\ "hot" \in Name
  BY Reserved DEF Process
<1> QED
  BY <1>1, <1>2, <1>3, Loaded, LoadStep

\* generate-wallet's first half.
LEMMA WriteKeyStep == ASSUME IInv, NEW p \in Process, WriteKey(p) PROVE IInv'
<1>0. TypeOK /\ Locked /\ Wallets /\ Copies
  BY DEF IInv
<1>1. step[p] = "generate" /\ UNCHANGED <<pidFile, phase, deaths, excused, faults>>
  BY DEF WriteKey, pidVars
<1>2. PidTypeOK' /\ Locked'
  BY <1>0, <1>1 DEF Locked, PidTypeOK, TypeOK
<1>3. CASE name[p] \in keys
  <2>1. Done(p, book) /\ keys' = keys
    BY <1>3 DEF WriteKey
  <2>2. book \in Book /\ KeyOK(book, keys) /\ NoFault
    BY <1>0, <1>1 DEF TypeOK, Wallets, NoFault
  <2> QED
    BY <1>2, <2>1, <2>2, DoneStep
<1>4. CASE name[p] \notin keys
  <2>1. /\ step' = [step EXCEPT ![p] = "enter"] /\ keys' = keys \cup {name[p]}
        /\ UNCHANGED <<book, view, name, stale, misread>>
    BY <1>4 DEF WriteKey, histVars
  <2>2. /\ step' \in [Process -> {"none", "save", "generate", "enter"}]
        /\ \A q \in Process : step'[q] = IF q = p THEN "enter" ELSE step[q]
    BY <1>0, <2>1 DEF TypeOK
  <2>3. name[p] \in Name /\ keys' \subseteq Name
    BY <1>0, <2>1 DEF TypeOK
  <2>4. TypeOK'
    BY <1>0, <1>1, <1>2, <2>1, <2>2, <2>3 DEF TypeOK
  <2>5. Wallets'
    BY <1>0, <2>1, <2>2 DEF Wallets, KeyOK
  <2>6. Copies'
    BY <1>0, <1>1, <2>1, <2>2 DEF Copies
  <2> QED
    BY <1>2, <2>4, <2>5, <2>6 DEF IInv
<1> QED
  BY <1>3, <1>4

\* The book with the wallet of p entered.
LEMMA Entered ==
  ASSUME IInv, NEW p \in Process, step[p] = "enter"
  PROVE  LET b == [book EXCEPT ![name[p]] = OwnWallet]
         IN /\ b \in Book /\ KeyOK(b, keys) /\ name[p] \in Name
            /\ \A n \in Name : b[n] = IF n = name[p] THEN OwnWallet ELSE book[n]
<1>1. name[p] \in Name /\ book \in Book /\ name[p] \in keys /\ KeyOK(book, keys)
  BY DEF IInv, TypeOK, Wallets
<1> DEFINE b == [book EXCEPT ![name[p]] = OwnWallet]
<1>2. b \in Book /\ \A n \in Name : b[n] = IF n = name[p] THEN OwnWallet ELSE book[n]
  BY <1>1, Entries, Change
<1> HIDE DEF b
<1>3. KeyOK(b, keys)
  BY <1>1, <1>2, Entries DEF KeyOK
<1> QED
  BY <1>1, <1>2, <1>3 DEF b

\* generate-wallet's second half, and what its caller then has.
LEMMA EnterStep == ASSUME IInv, NEW p \in Process, EnterWallet(p) PROVE IInv'
<1> DEFINE b == [book EXCEPT ![name[p]] = OwnWallet]
<1>0. TypeOK /\ Locked /\ Wallets /\ Copies
  BY DEF IInv
<1>1. step[p] = "enter" /\ UNCHANGED <<pidFile, phase, deaths, excused, keys>>
  BY DEF EnterWallet, pidVars
<1>2. PidTypeOK' /\ Locked'
  BY <1>0, <1>1 DEF Locked, PidTypeOK, TypeOK
<1>3. /\ b \in Book /\ KeyOK(b, keys) /\ name[p] \in Name
      /\ \A n \in Name : b[n] = IF n = name[p] THEN OwnWallet ELSE book[n]
  BY <1>1, Entered
<1>4. \/ Done(p, b) /\ (Fault \/ NoFault)
      \/ /\ p \in Monitor /\ NoFault /\ book' = b /\ stale' = stale \cup Outdated(p, b)
         /\ step' = [step EXCEPT ![p] = "save"]
         /\ view' = [view EXCEPT ![p][name[p]] = OwnWallet]
         /\ UNCHANGED <<name, misread>>
  BY Zenon DEF EnterWallet
<1> HIDE DEF b
<1>7. CASE Done(p, b) /\ (Fault \/ NoFault)
  BY <1>1, <1>2, <1>3, <1>7, DoneStep
<1>8. CASE /\ p \in Monitor /\ NoFault /\ book' = b /\ stale' = stale \cup Outdated(p, b)
           /\ step' = [step EXCEPT ![p] = "save"]
           /\ view' = [view EXCEPT ![p][name[p]] = OwnWallet]
           /\ UNCHANGED <<name, misread>>
  <2>1. view[p] \in Book /\ view \in [Process -> Book]
    BY <1>0 DEF TypeOK
  <2> DEFINE w == [view[p] EXCEPT ![name[p]] = OwnWallet]
  <2>2. w \in Book /\ \A n \in Name : w[n] = IF n = name[p] THEN OwnWallet ELSE view[p][n]
    BY <1>3, <2>1, Entries, Change
  <2>3. view' = [view EXCEPT ![p] = w]
    BY <1>8
  <2> HIDE DEF w
  <2>4. view' \in [Process -> Book] /\ \A q \in Process : view'[q] = IF q = p THEN w ELSE view[q]
    BY <2>1, <2>2, <2>3
  <2>5. /\ step' \in [Process -> {"none", "save", "generate", "enter"}]
        /\ \A q \in Process : step'[q] = IF q = p THEN "save" ELSE step[q]
    BY <1>0, <1>8 DEF TypeOK
  <2>6. TypeOK'
    <3>1. stale' \subseteq Process /\ misread' \subseteq Process
      BY <1>0, <1>8 DEF TypeOK, Outdated
    <3> QED
      BY <1>0, <1>1, <1>2, <1>3, <1>8, <2>4, <2>5, <3>1 DEF TypeOK, NoFault
  <2>7. KeyOK(w, keys)
    <3>1. name[p] \in keys /\ KeyOK(view[p], keys)
      BY <1>0, <1>1 DEF Wallets
    <3> QED
      BY <2>2, <3>1, Entries DEF KeyOK
  <2>8. Wallets'
    BY <1>0, <1>1, <1>3, <1>8, <2>4, <2>5, <2>7 DEF Wallets
  <2>9. Copies'
    <3>1. ASSUME NEW q \in Process, step'[q] # "none", q \notin stale' \cup misread'
          PROVE  Keeps(view'[q], book')
      <4>1. q \notin stale \cup misread /\ step[q] # "none"
        BY <1>1, <1>8, <2>5, <3>1
      <4>2. Keeps(view[q], book)
        BY <1>0, <4>1 DEF Copies
      <4>3. CASE q = p
        <5>1. Keeps(w, b)
          BY <1>3, <2>2, <4>2, <4>3, Entries, Reserved DEF Keeps
        <5> QED
          BY <1>8, <2>4, <4>3, <5>1
      <4>4. CASE q # p
        <5>1. b = book
          BY <1>8, <3>1, <4>1, <4>4 DEF Outdated
        <5> QED
          BY <1>8, <2>4, <4>2, <4>4, <5>1
      <4> QED
        BY <4>3, <4>4
    <3> QED
      BY <1>0, <1>8, <3>1 DEF Copies
  <2> QED
    BY <1>2, <2>6, <2>8, <2>9 DEF IInv
<1> QED
  BY <1>4, <1>7, <1>8

\* The agent ends in between.
LEMMA KilledStep == ASSUME IInv, NEW p \in Process, AgentKilled(p) PROVE IInv'
<1>0. TypeOK /\ Locked /\ Wallets
  BY DEF IInv
<1>1. Fault /\ Done(p, book) /\ UNCHANGED <<pidFile, phase, deaths, excused, keys>>
  BY DEF AgentKilled, pidVars
<1>2. PidTypeOK' /\ Locked'
  BY <1>0, <1>1 DEF Locked, PidTypeOK, TypeOK
<1>3. book \in Book /\ KeyOK(book, keys)
  BY <1>0 DEF TypeOK, Wallets
<1> QED
  BY <1>1, <1>2, <1>3, DoneStep

\* The whole book is replaced by a copy, or nothing is.
LEMMA SaveStep == ASSUME IInv, NEW p \in Process, SaveBook(p) PROVE IInv'
<1>0. TypeOK /\ Locked /\ Wallets /\ Copies
  BY DEF IInv
<1>1. UNCHANGED <<pidFile, phase, deaths, excused, keys>>
  BY DEF SaveBook, pidVars
<1>2. PidTypeOK' /\ Locked'
  BY <1>0, <1>1 DEF Locked, PidTypeOK, TypeOK
<1>3. PICK b \in {book, view[p]} : Done(p, b) /\ (Fault \/ NoFault)
  BY DEF SaveBook
<1>4. b \in Book /\ KeyOK(b, keys)
  BY <1>0 DEF TypeOK, Wallets
<1> QED
  BY <1>1, <1>2, <1>3, <1>4, DoneStep

\* A monitor ends.
LEMMA EndStep == ASSUME IInv, NEW m \in Monitor, EndProgram(m) PROVE IInv'
<1>0. TypeOK /\ Locked /\ Wallets
  BY DEF IInv
<1>1. End(m) /\ Done(m, book) /\ NoFault /\ UNCHANGED keys /\ m \in Process
  BY DEF EndProgram, NoFault, Process
<1>2. PidTypeOK' /\ Locked'
  BY <1>0, <1>1, LockStep DEF TypeOK
<1>3. book \in Book /\ KeyOK(book, keys)
  BY <1>0 DEF TypeOK, Wallets
<1> QED
  BY <1>1, <1>2, <1>3, DoneStep

\* The lock alone, or nothing at all.
LEMMA QuietStep ==
  ASSUME IInv, PidTypeOK', Locked', UNCHANGED <<book, keys, progVars, faults, histVars>>
  PROVE  IInv'
  BY DEF IInv, TypeOK, Wallets, Copies, progVars, histVars

-----------------------------------------------------------------------------
\* Every step keeps the invariant.
LEMMA StepInv == IInv /\ [Next]_vars => IInv'
<1> SUFFICES ASSUME IInv, [Next]_vars PROVE IInv'
  OBVIOUS
<1>0. PidTypeOK /\ Locked
  BY DEF IInv, TypeOK
<1>1. CASE PidStep
  <2>1. PidTypeOK' /\ Locked'
    BY <1>0, <1>1, LockStep, RecycleStep DEF PidStep
  <2> QED
    BY <1>1, <2>1, QuietStep DEF PidStep
<1>2. CASE UNCHANGED vars
  <2>1. PidTypeOK' /\ Locked'
    BY <1>0, <1>2 DEF vars, pidVars, PidTypeOK, Locked
  <2> QED
    BY <1>2, <2>1, QuietStep DEF vars
<1>3. ASSUME NEW p \in Shell,
             AbInit(p) \/ (\E n \in Name : AbDel(p, n) \/ AbNew(p, n))
               \/ (\E n \in Name, a \in Address : AbAdd(p, n, a) \/ AbUp(p, n, a))
      PROVE  IInv'
  BY <1>3, AbInitStep, AbDelStep, AbAddStep
<1> QED
  BY <1>1, <1>2, <1>3, EndStep, EnsureStep, WriteKeyStep, EnterStep, KilledStep, SaveStep DEF Next

-----------------------------------------------------------------------------
\* The invariant holds in every reachable state.
THEOREM Invariant == Spec => []IInv
  BY InitInv, StepInv, PTL DEF Spec

\* Every variable keeps its type: whatever the commands do, the file is a book.
THEOREM TypeCorrect == Spec => []TypeOK
<1>1. IInv => TypeOK
  BY DEF IInv
<1> QED
  BY <1>1, Invariant, PTL

\* acquirePidLock (monitor/index.ts:44) fails only where a monitor is started during
\* another's start or the second after its SIGINT, or where one user's process is out of
\* another's sight, for any number of monitors and users.
THEOREM LockCorrect == Spec => []OneMonitor
<1>1. IInv => OneMonitor
  <2> SUFFICES ASSUME IInv, ~excused PROVE Cardinality(Polling) <= 1
    BY DEF OneMonitor
  <2>1. \A m, n \in Polling : m = n
    BY DEF IInv, Locked, Polling
  <2>2. CASE Polling = {}
    BY <2>2, FS_EmptySet
  <2>3. CASE Polling # {}
    <3>1. PICK m \in Polling : TRUE
      BY <2>3
    <3>2. Polling = {m}
      BY <2>1, <3>1
    <3> QED
      BY <3>2, FS_Singleton
  <2> QED
    BY <2>2, <2>3
<1> QED
  BY <1>1, Invariant, PTL

\* Entry and key file match, for any names, commands and interruptions.
THEOREM WalletsCorrect == Spec => []WalletsMatch
<1>1. IInv => WalletsMatch
  BY DEF IInv, Wallets, KeyOK, WalletsMatch
<1> QED
  BY <1>1, Invariant, PTL

\* A copy that is saved takes a wallet away only if it is old or misread.
LEMMA SaveKeeps ==
  ASSUME IInv, NEW p \in Process, SaveBook(p), NEW n \in {"hot", "server"},
         book'[n] = Absent, book[n] # Absent
  PROVE  p \in stale \cup (misread \cap Shell)
<1>1. step[p] = "save" /\ book' = view[p]
  BY DEF SaveBook, Done
<1> QED
  BY <1>1 DEF IInv, Copies, Keeps

\* Every other step leaves the book as it is, or enters a wallet.
LEMMA BookChanges ==
  ASSUME IInv, [Next]_vars, NEW n \in Name, book'[n] = Absent, book[n] # Absent
  PROVE  \E p \in Process : SaveBook(p)
<1>0. TypeOK /\ book' # book
  BY DEF IInv
<1>1. ASSUME NEW p \in Process, EnterWallet(p) PROVE FALSE
  <2>1. book' = [book EXCEPT ![name[p]] = OwnWallet] /\ step[p] = "enter"
    BY <1>1 DEF EnterWallet, Done
  <2>2. book'[n] \in {OwnWallet, book[n]}
    BY <2>1, Entered
  <2> QED
    BY <2>2, Entries
<1>2. ASSUME NEW p \in Process, WriteKey(p) \/ AgentKilled(p) PROVE FALSE
  BY <1>0, <1>2 DEF WriteKey, AgentKilled, Done
<1>3. ASSUME NEW m \in Monitor, EndProgram(m) \/ EnsureHotWallet(m) PROVE FALSE
  BY <1>0, <1>3 DEF EndProgram, EnsureHotWallet, Goes, Done
<1>4. ASSUME NEW p \in Shell,
             AbInit(p) \/ (\E k \in Name : AbDel(p, k) \/ AbNew(p, k))
               \/ (\E k \in Name, a \in Address : AbAdd(p, k, a) \/ AbUp(p, k, a))
      PROVE  FALSE
  BY <1>0, <1>4 DEF AbInit, AbDel, AbNew, AbAdd, AbUp, Goes
<1>5. ~PidStep /\ ~UNCHANGED vars
  BY <1>0 DEF PidStep, vars
<1> QED
  BY <1>1, <1>2, <1>3, <1>4, <1>5 DEF Next

\* The entry of the server outlives every step but those.
THEOREM ServerCorrect == Spec => ServerKept
<1>1. IInv /\ [Next]_vars =>
        [book["server"] # Absent /\ book'["server"] = Absent =>
           \E p \in Process : SaveBook(p) /\ p \in stale \cup (misread \cap Shell)]_vars
  BY BookChanges, SaveKeeps, Reserved
<1> QED
  BY <1>1, Invariant, PTL DEF Spec, ServerKept

\* A hot wallet that is being entered goes on being so, unless it is entered or the
\* agent ends.
LEMMA EnteringStays ==
  ASSUME IInv, [Next]_vars, NEW q \in Process, step[q] = "enter", name[q] = "hot",
         \A p \in Process : ~AgentKilled(p), book'["hot"] = Absent
  PROVE  step'[q] = "enter" /\ name'[q] = "hot"
<1>0. TypeOK
  BY DEF IInv
<1>1. ASSUME NEW p \in Process, step[p] # "enter", NEW b, Done(p, b) PROVE step'[q] = "enter" /\ name'[q] = "hot"
  BY <1>0, <1>1, DoneType
<1>2. ASSUME NEW p \in Process, step[p] = "none", NEW t, NEW w, NEW n, Goes(p, t, w, n)
      PROVE  step'[q] = "enter" /\ name'[q] = "hot"
  BY <1>0, <1>2 DEF Goes, TypeOK
<1>3. ASSUME NEW p \in Process, EnterWallet(p) PROVE step'[q] = "enter" /\ name'[q] = "hot"
  <2>1. book' = [book EXCEPT ![name[p]] = OwnWallet] /\ step[p] = "enter"
    BY <1>3 DEF EnterWallet, Done
  <2>2. q # p
    BY <2>1, Entered, Entries, Reserved
  <2>3. CASE \E b : Done(p, b)
    BY <1>0, <2>2, <2>3, DoneType
  <2>4. CASE step' = [step EXCEPT ![p] = "save"] /\ name' = name
    BY <1>0, <2>2, <2>4 DEF TypeOK
  <2> QED
    BY <1>3, <2>3, <2>4 DEF EnterWallet
<1>4. ASSUME NEW p \in Process, WriteKey(p) \/ SaveBook(p) PROVE step'[q] = "enter" /\ name'[q] = "hot"
  <2>1. CASE \E b : Done(p, b)
    BY <1>1, <1>4, <2>1 DEF WriteKey, SaveBook
  <2>2. CASE step' = [step EXCEPT ![p] = "enter"] /\ name' = name
    BY <1>0, <2>2 DEF TypeOK
  <2> QED
    BY <1>4, <2>1, <2>2 DEF WriteKey, SaveBook
<1>5. ASSUME NEW m \in Monitor, EndProgram(m) \/ EnsureHotWallet(m) PROVE step'[q] = "enter" /\ name'[q] = "hot"
  BY <1>1, <1>2, <1>5 DEF EndProgram, EnsureHotWallet, Load, Process
<1>6. ASSUME NEW p \in Shell,
             AbInit(p) \/ (\E k \in Name : AbDel(p, k) \/ AbNew(p, k))
               \/ (\E k \in Name, a \in Address : AbAdd(p, k, a) \/ AbUp(p, k, a))
      PROVE  step'[q] = "enter" /\ name'[q] = "hot"
  BY <1>2, <1>6 DEF AbInit, AbDel, AbNew, AbAdd, AbUp, Load, Process
<1>7. CASE PidStep \/ UNCHANGED vars
  BY <1>7 DEF PidStep, vars, progVars
<1> QED
  BY <1>3, <1>4, <1>5, <1>6, <1>7 DEF Next

\* The key of the hot wallet is made by the process that is then entering it.
LEMMA KeyMade ==
  ASSUME IInv, [Next]_vars, "hot" \in keys', "hot" \notin keys
  PROVE  \E p \in Process : step'[p] = "enter" /\ name'[p] = "hot"
<1>0. TypeOK /\ keys' # keys
  BY DEF IInv
<1>1. ASSUME NEW p \in Process, WriteKey(p) PROVE step'[p] = "enter" /\ name'[p] = "hot"
  BY <1>0, <1>1 DEF WriteKey, TypeOK
<1>2. ASSUME NEW p \in Process, EnterWallet(p) \/ AgentKilled(p) \/ SaveBook(p) PROVE FALSE
  BY <1>0, <1>2 DEF EnterWallet, AgentKilled, SaveBook
<1>3. ASSUME NEW m \in Monitor, EndProgram(m) \/ EnsureHotWallet(m) PROVE FALSE
  BY <1>0, <1>3 DEF EndProgram, EnsureHotWallet, Goes
<1>4. ASSUME NEW p \in Shell,
             AbInit(p) \/ (\E k \in Name : AbDel(p, k) \/ AbNew(p, k))
               \/ (\E k \in Name, a \in Address : AbAdd(p, k, a) \/ AbUp(p, k, a))
      PROVE  FALSE
  BY <1>0, <1>4 DEF AbInit, AbDel, AbNew, AbAdd, AbUp, Goes
<1>5. ~PidStep /\ ~UNCHANGED vars
  BY <1>0 DEF PidStep, vars
<1> QED
  BY <1>1, <1>2, <1>3, <1>4, <1>5 DEF Next

\* A step that loses the hot wallet is one of those HotWalletKept names.
LEMMA HotStep ==
  ASSUME IInv, [Next]_vars, HotWalletLost', ~HotWalletLost
  PROVE  \E p \in Process : AgentKilled(p) \/ (SaveBook(p) /\ p \in stale \cup misread)
<1> SUFFICES ASSUME \A p \in Process : ~AgentKilled(p)
             PROVE  \E p \in Process : SaveBook(p) /\ p \in stale \cup misread
  OBVIOUS
<1>1. /\ "hot" \in keys' /\ book'["hot"] = Absent
      /\ ~\E p \in Process : step'[p] = "enter" /\ name'[p] = "hot"
  BY DEF HotWalletLost
<1>2. "hot" \in keys
  BY <1>1, KeyMade
<1>3. ~\E p \in Process : step[p] = "enter" /\ name[p] = "hot"
  BY <1>1, EnteringStays
<1>4. book["hot"] # Absent
  BY <1>2, <1>3 DEF HotWalletLost
<1> QED
  BY <1>1, <1>4, BookChanges, SaveKeeps, Reserved

\* Nothing but a killed agent, or the save of an old or misread copy, can leave a hot
\* wallet's key without its entry (addressbook/index.ts:108).
THEOREM HotWalletCorrect == Spec => HotWalletKept
<1>1. IInv /\ [Next]_vars =>
        [HotWalletLost' =>
           \/ HotWalletLost
           \/ \E p \in Process : AgentKilled(p) \/ (SaveBook(p) /\ p \in stale \cup misread)]_vars
  BY HotStep
<1> QED
  BY <1>1, Invariant, PTL DEF Spec, HotWalletKept

===============================================================================
