------------------------ MODULE DatabaseManagerProofs ------------------------
(***************************************************************************)
(* What the map of databases and their directories promise, for any number *)
(* of threads and names, any number of I/O errors, panics and crashes.     *)
(***************************************************************************)
EXTENDS DatabaseManager, TLAPS

Holds(c) == client[c].at \in {"building", "removing", "moving", "opening"}

(* The lock is held by the one thread that changes the disk, and nothing   *)
(* but the disk outlives the process.                                      *)
LockInv ==
    /\ \A c \in Client : holder = c <=> Holds(c)
    /\ \A c \in Client : client[c].at \in {"importing", "moving"} => client[c].place = "import"
    /\ \A c \in Client : client[c].at = "opening" => client[c].place = "public"
    /\ server # "up" => holder = Nobody /\ ~poisoned /\ \A c \in Client : client[c].at = "idle"
    /\ server # "up" => databases = {}

(* What the directory of a thread's database holds while the thread works  *)
(* on it.                                                                  *)
Work(c) ==
    LET d == disk[client[c].place][client[c].name] IN
    /\ client[c].at = "building" => d \in {"bare", "logged"}
    /\ client[c].at = "removing" => d # "none"
    /\ client[c].at = "opening" => d = "whole"
    /\ client[c].at \in {"importing", "moving"} => d = "whole"
    /\ holder = c => client[c].name \notin databases
    /\ holder = c /\ client[c].place = "public" => client[c].name \notin kept \cup gone

WorkInv == \A c \in Client : Work(c)

(* An import has its directory to itself.                                  *)
Imports(c, n) ==
    /\ client[c].at \in {"importing", "building", "removing", "moving"}
    /\ client[c].place = "import" /\ client[c].name = n

AloneInv ==
    \A c, e \in Client : client[c].at = "importing" /\ Imports(e, client[c].name) => c = e

Owned(n) == holder # Nobody /\ client[holder].place = "public" /\ client[holder].name = n

(* A listed database is whole; a directory that is not listed is being     *)
(* worked on, or the work on it was cut short.                             *)
DiskInv ==
    /\ \A n \in databases : disk["public"][n] = "whole"
    /\ \A n \in Name : disk["public"][n] \in {"bare", "logged"} => n \in torn \/ Owned(n)
    /\ \A n \in Name : server = "up" /\ faults = 0 /\ disk["public"][n] # "none" =>
          n \in databases \/ Owned(n)

Inv ==
    /\ TypeOK /\ LockInv /\ WorkInv /\ AloneInv /\ DiskInv
    /\ OneDirectory /\ OutcomesLast /\ HandlesLive
    /\ PanicsOnlyAfterError /\ StartsUnlessTorn

ClientState == [at: Doing, name: Name, place: Place, reset: BOOLEAN]

(* A thread that has returned has a state of the type.                     *)
LEMMA IdleTyped == Idle \in ClientState
BY Zenon, ManagerAssumption DEF Idle, Task, Doing, Place, ClientState

(* So has one that goes on to another phase of its operation,              *)
LEMMA GotoTyped ==
    ASSUME TypeOK, NEW c \in Client, NEW n \in Name, NEW at \in Doing, NEW place \in Place,
           NEW reset \in BOOLEAN, Goto(c, n, at, place, reset)
    PROVE  client' \in [Client -> ClientState]
BY Zenon DEF TypeOK, Goto, Task, ClientState

(* one that returns from it,                                               *)
LEMMA ReturnTyped ==
    ASSUME TypeOK, NEW c \in Client, Return(c)
    PROVE  client' \in [Client -> ClientState]
BY Zenon, IdleTyped DEF TypeOK, Return, ClientState

(* a disk on which one directory has changed,                              *)
LEMMA DiskTyped ==
    ASSUME TypeOK, NEW place \in Place, NEW n \in Name, NEW d \in Contents
    PROVE  [disk EXCEPT ![place][n] = d] \in [Place -> [Name -> Contents]]
BY Zenon DEF TypeOK

(* and every name a thread carries is a name.                              *)
LEMMA NameTyped ==
    ASSUME TypeOK, NEW c \in Client
    PROVE  client[c].name \in Name /\ client[c].place \in Place
BY Zenon DEF TypeOK

(* A server that has just started on an empty data directory.              *)
LEMMA Initial == Init => Inv
<1> SUFFICES ASSUME Init PROVE Inv
  BY Zenon
<1>1. TypeOK
  <2>1. client \in [Client -> ClientState]
    BY Zenon, IdleTyped DEF Init
  <2>2. disk \in [Place -> [Name -> Contents]]
    BY Zenon DEF Init, Place, Contents
  <2>3. faults \in 0 .. MaxFaults /\ crashes \in 0 .. MaxCrashes
    BY ManagerAssumption DEF Init
  <2>. QED  BY <2>1, <2>2, <2>3, Zenon DEF Init, TypeOK, ClientState
<1>2. LockInv /\ WorkInv /\ AloneInv /\ HandlesLive
  BY Zenon, ManagerAssumption, IdleTyped
  DEF Init, LockInv, WorkInv, Work, AloneInv, HandlesLive, Is, Holds, Idle, Task
<1>3. DiskInv /\ OneDirectory /\ OutcomesLast /\ PanicsOnlyAfterError /\ StartsUnlessTorn
  BY Zenon
  DEF Init, DiskInv, OneDirectory, Exists, OutcomesLast, PanicsOnlyAfterError, StartsUnlessTorn,
      Place
<1>. QED  BY Zenon, <1>1, <1>2, <1>3 DEF Inv

(* A thread that neither held the lock nor takes it goes from one state to *)
(* another, and leaves the map and the disk alone.                         *)
LEMMA UnlockedStep ==
    ASSUME Inv, NEW c \in Client, server = "up", ~Holds(c),
           NEW s \in ClientState, s.at \in {"idle", "using", "deleting", "putting"},
           s.at = "using" => s.name \in databases,
           client' = [client EXCEPT ![c] = s],
           UNCHANGED <<server, databases, disk, holder, faults, crashes, gone, torn>>,
           kept \subseteq kept', kept' \subseteq kept \cup databases,
           reserved' \subseteq databases, raced' \subseteq Name,
           poisoned' \in BOOLEAN, poisoned' => faults > 0
    PROVE  Inv'
<1>0. TypeOK
  BY Zenon DEF Inv
<1>1. /\ client' \in [Client -> ClientState]
      /\ client'[c] = s
      /\ \A e \in Client \ {c} : client'[e] = client[e]
  BY Zenon, <1>0 DEF TypeOK, ClientState
<1>2. TypeOK'
  BY Zenon, <1>0, <1>1 DEF TypeOK, ClientState
<1>3. LockInv'
  BY Zenon, <1>1 DEF Inv, LockInv, Holds
<1>4. WorkInv'
  <2>1. Work(c)'
    BY ZenonT(40), <1>1 DEF Inv, LockInv, Work
  <2>2. ASSUME NEW e \in Client, e # c PROVE Work(e)'
    BY ZenonT(40), <1>1, <2>2 DEF Inv, WorkInv, Work
  <2>. QED  BY Zenon, <2>1, <2>2 DEF WorkInv
<1>5. AloneInv'
  BY Zenon, <1>1 DEF Inv, AloneInv, Imports
<1>6. DiskInv'
  <2>1. holder # c
    BY Zenon DEF Inv, LockInv
  <2>2. \A m \in Name : Owned(m)' <=> Owned(m)
    BY Zenon, <1>0, <1>1, <2>1 DEF Owned, TypeOK
  <2>3. databases \subseteq Name
    BY Zenon, <1>0 DEF TypeOK
  <2>. QED  BY Zenon, <2>2, <2>3 DEF Inv, DiskInv
<1>7. OneDirectory' /\ OutcomesLast'
  BY Zenon DEF Inv, OneDirectory, OutcomesLast, Exists, DiskInv
<1>8. HandlesLive'
  BY Zenon, <1>1 DEF Inv, HandlesLive, Is, DiskInv
<1>9. PanicsOnlyAfterError' /\ StartsUnlessTorn'
  BY Zenon DEF PanicsOnlyAfterError, StartsUnlessTorn
<1>. QED  BY Zenon, <1>2, <1>3, <1>4, <1>5, <1>6, <1>7, <1>8, <1>9 DEF Inv

(* An operation that returns, its assertion true or false only after an    *)
(* I/O error.                                                              *)
LEMMA LeaveStep ==
    ASSUME Inv, NEW c \in Client, server = "up", ~Holds(c),
           NEW assertion \in BOOLEAN, assertion \/ faults > 0, Leave(c, assertion)
    PROVE  Inv'
<1>1. /\ poisoned \in BOOLEAN /\ (poisoned => faults > 0)
      /\ reserved \subseteq databases /\ raced \subseteq Name
  BY Zenon DEF Inv, TypeOK, PanicsOnlyAfterError
<1>2. Idle.at = "idle"
  BY Zenon DEF Idle, Task
<1>3. poisoned' \in BOOLEAN /\ (poisoned' => faults > 0)
  BY <1>1, Zenon DEF Leave
<1>. QED
  BY <1>1, <1>2, <1>3, IdleTyped, UnlockedStep, Zenon DEF Leave, Return, history

(* A thread takes the lock and makes the directory of a name that has      *)
(* none.                                                                   *)
LEMMA BeginBuildStep ==
    ASSUME Inv, NEW c \in Client, NEW n \in Name, NEW place \in Place,
           server = "up", holder = Nobody, ~Holds(c),
           n \notin databases, \A p \in Place : disk[p][n] = "none",
           BeginBuild(c, n, place)
    PROVE  Inv'
<1>0. TypeOK
  BY Zenon DEF Inv
<1>1. /\ disk' = [disk EXCEPT ![place][n] = "bare"]
      /\ holder' = c
      /\ gone' = IF place = "public" THEN gone \ {n} ELSE gone
      /\ UNCHANGED <<server, databases, poisoned, reserved, faults, crashes, kept, torn, raced>>
  BY Zenon DEF BeginBuild
<1>2. /\ client' \in [Client -> ClientState]
      /\ client'[c].at = "building" /\ client'[c].place = place /\ client'[c].name = n
      /\ \A e \in Client \ {c} : client'[e] = client[e]
  <2>1. Goto(c, n, "building", place, FALSE)
    BY Zenon DEF BeginBuild
  <2>2. client' \in [Client -> ClientState]
    BY <1>0, <2>1, GotoTyped, Zenon DEF Doing
  <2>. QED  BY Zenon, <1>0, <2>1, <2>2 DEF Goto, Task, TypeOK
<1>3. disk' \in [Place -> [Name -> Contents]]
  BY Zenon, <1>0, <1>1, DiskTyped DEF Contents
<1>4. \A p \in Place, m \in Name : disk'[p][m] = IF p = place /\ m = n THEN "bare" ELSE disk[p][m]
  BY Zenon, <1>0, <1>1 DEF TypeOK
<1>5. \A e \in Client : ~Holds(e)
  BY Zenon, ManagerAssumption DEF Inv, LockInv
<1>6. TypeOK'
  BY Zenon, <1>0, <1>1, <1>2, <1>3 DEF TypeOK, ClientState
<1>7. LockInv'
  BY Zenon, <1>1, <1>2, <1>5 DEF Inv, LockInv, Holds
<1>8. n \notin kept
  BY Zenon DEF Inv, OutcomesLast, Place
<1>9. WorkInv'
  <2>1. Work(c)'
    BY ZenonT(40), <1>1, <1>2, <1>4, <1>8 DEF Work
  <2>2. ASSUME NEW e \in Client, e # c PROVE Work(e)'
    <3>1. client'[e] = client[e] /\ ~Holds(e) /\ holder' # e
      BY Zenon, <1>1, <1>2, <1>5, <2>2
    <3>2. client[e].name \in Name /\ client[e].place \in Place
      BY Zenon, <1>0, NameTyped
    <3>3. client[e].at = "importing" => client[e].name # n
      BY Zenon, <3>2 DEF Inv, WorkInv, Work
    <3>. QED  BY <1>4, <3>1, <3>2, <3>3 DEF Inv, WorkInv, Work, Holds
  <2>. QED  BY Zenon, <2>1, <2>2 DEF WorkInv
<1>10. AloneInv'
  <2>1. \A e \in Client : client[e].at = "importing" => client[e].name # n
    BY Zenon, <1>0, NameTyped DEF Inv, WorkInv, Work
  <2>. QED  BY <1>2, <2>1 DEF Inv, AloneInv, Imports
<1>11. DiskInv'
  <2>1. \A m \in Name : (place = "public" /\ m = n => Owned(m)') /\ ~Owned(m)
    BY Zenon, <1>1, <1>2, ManagerAssumption DEF Owned
  <2>2. databases \subseteq Name
    BY Zenon, <1>0 DEF TypeOK
  <2>. QED  BY <1>1, <1>4, <2>1, <2>2 DEF Inv, DiskInv, Place
<1>12. OneDirectory'
  BY Zenon, <1>4 DEF Inv, OneDirectory, Exists, Place
<1>13. OutcomesLast'
  <2>1. kept \subseteq Name /\ gone \subseteq Name
    BY Zenon, <1>0 DEF TypeOK
  <2>. QED  BY <1>1, <1>4, <1>8, <2>1 DEF Inv, OutcomesLast, Exists, Place
<1>14. HandlesLive'
  <2>1. ASSUME NEW e \in Client, client'[e].at = "using"
        PROVE  e # c /\ client'[e] = client[e] /\ client[e].name \in Name
    BY Zenon, <1>0, <1>2, <2>1, NameTyped
  <2>. QED  BY <1>1, <1>4, <2>1 DEF Inv, HandlesLive, Is, Place
<1>15. PanicsOnlyAfterError' /\ StartsUnlessTorn'
  BY Zenon, <1>1 DEF Inv, PanicsOnlyAfterError, StartsUnlessTorn
<1>. QED
  BY Zenon, <1>6, <1>7, <1>9, <1>10, <1>11, <1>12, <1>13, <1>14, <1>15 DEF Inv

(* A whole directory enters the map, and the lock is free.                 *)
LEMMA InsertStep ==
    ASSUME Inv, NEW c \in Client, NEW n \in Name, server = "up", holder' = Nobody,
           \A e \in Client \ {c} : ~Holds(e), \A m \in Name : Owned(m) => m = n,
           disk["import"][n] = "none", disk' = [disk EXCEPT !["public"][n] = "whole"],
           Insert(n), Return(c),
           UNCHANGED <<server, poisoned, reserved, faults, crashes, raced>>
    PROVE  Inv'
<1>0. TypeOK
  BY Zenon DEF Inv
<1>1. client' \in [Client -> ClientState] /\ disk' \in [Place -> [Name -> Contents]]
  BY Zenon, <1>0, ReturnTyped, DiskTyped DEF Place, Contents
<1>2. client'[c].at = "idle" /\ \A e \in Client \ {c} : client'[e] = client[e]
  BY Zenon, <1>0 DEF Return, Idle, Task, TypeOK
<1>3. \A p \in Place, m \in Name :
          disk'[p][m] = IF p = "public" /\ m = n THEN "whole" ELSE disk[p][m]
  BY Zenon, <1>0 DEF TypeOK, Place
<1>4. TypeOK'
  BY Zenon, <1>0, <1>1 DEF TypeOK, ClientState, Insert
<1>5. LockInv'
  BY Zenon, <1>2, ManagerAssumption DEF Inv, LockInv, Holds
<1>6. WorkInv'
  <2>1. Work(c)'
    BY Zenon, <1>2, ManagerAssumption DEF Work
  <2>2. ASSUME NEW e \in Client, e # c PROVE Work(e)'
    <3>1. client'[e] = client[e] /\ ~Holds(e) /\ client[e].name \in Name
      BY Zenon, <1>0, <1>2, <2>2, NameTyped
    <3>2. client[e].at = "importing" =>
             disk'["import"][client[e].name] = "whole" /\ client[e].place = "import"
      BY <1>3, <3>1 DEF Inv, WorkInv, Work, LockInv, Place
    <3>. QED  BY Zenon, <3>1, <3>2, ManagerAssumption DEF Work, Holds
  <2>. QED  BY Zenon, <2>1, <2>2 DEF WorkInv
<1>7. AloneInv'
  BY Zenon, <1>2 DEF Inv, AloneInv, Imports
<1>8. DiskInv'
  <2>1. databases \subseteq Name
    BY Zenon, <1>0 DEF TypeOK
  <2>. QED  BY <1>3, <2>1 DEF Inv, DiskInv, Insert, Place
<1>9. OneDirectory'
  BY Zenon, <1>3 DEF Inv, OneDirectory, Exists, Place
<1>10. OutcomesLast'
  <2>1. kept \subseteq Name /\ gone \subseteq Name
    BY Zenon, <1>0 DEF TypeOK
  <2>. QED  BY Zenon, <1>3, <2>1 DEF Inv, OutcomesLast, Exists, Insert, Place
<1>11. HandlesLive'
  <2>1. ASSUME NEW e \in Client, client'[e].at = "using"
        PROVE  e # c /\ client'[e] = client[e] /\ client[e].name \in Name
    BY Zenon, <1>0, <1>2, <2>1, NameTyped
  <2>. QED  BY <1>3, <2>1 DEF Inv, HandlesLive, Is, Insert, Place
<1>12. PanicsOnlyAfterError' /\ StartsUnlessTorn'
  BY ZenonT(40) DEF Inv, PanicsOnlyAfterError, StartsUnlessTorn
<1>. QED
  BY Zenon, <1>4, <1>5, <1>6, <1>7, <1>8, <1>9, <1>10, <1>11, <1>12 DEF Inv

(* A thread takes the lock to remove or to move a directory that is there. *)
LEMMA BeginRemoveStep ==
    ASSUME Inv, NEW c \in Client, NEW n \in Name, NEW place \in Place, NEW reset \in BOOLEAN,
           NEW at \in {"removing", "moving"}, at = "moving" => place = "import",
           server = "up", holder = Nobody, ~Holds(c), ~poisoned',
           disk[place][n] # "none",
           place = "import" => client[c].at = "importing" /\ client[c].name = n,
           Goto(c, n, at, place, reset), holder' = c,
           databases' = databases \ {n}, kept' = kept \ {n},
           reserved' \subseteq databases', raced' \subseteq Name, poisoned' \in BOOLEAN,
           UNCHANGED <<server, disk, faults, crashes, gone, torn>>,
           \A e \in Client : Is(e, "using") => client[e].name # n
    PROVE  Inv'
<1>0. TypeOK
  BY Zenon DEF Inv
<1>1. /\ client' \in [Client -> ClientState]
      /\ client'[c].at = at /\ client'[c].place = place /\ client'[c].name = n
      /\ \A e \in Client \ {c} : client'[e] = client[e]
  <2>1. client' \in [Client -> ClientState]
    BY Zenon, <1>0, GotoTyped DEF Doing
  <2>. QED  BY Zenon, <1>0, <2>1 DEF Goto, Task, TypeOK
<1>2. \A e \in Client : ~Holds(e)
  BY Zenon, ManagerAssumption DEF Inv, LockInv
<1>3. TypeOK'
  BY ZenonT(40), <1>0, <1>1 DEF TypeOK, ClientState
<1>4. LockInv'
  BY ZenonT(40), <1>1, <1>2 DEF Inv, LockInv, Holds
<1>5. WorkInv'
  <2>1. place = "public" => n \notin gone
    BY Zenon DEF Inv, OutcomesLast, Exists
  <2>m. at = "moving" => disk[place][n] = "whole"
    BY Zenon DEF Inv, WorkInv, Work, LockInv
  <2>2. Work(c)'
    BY ZenonT(40), <1>1, <2>1, <2>m DEF Work
  <2>3. ASSUME NEW e \in Client, e # c PROVE Work(e)'
    BY ZenonT(40), <1>1, <1>2, <2>3 DEF Inv, WorkInv, Work, Holds
  <2>. QED  BY ZenonT(40), <2>2, <2>3 DEF WorkInv
<1>6. AloneInv'
  BY <1>1 DEF Inv, AloneInv, Imports, LockInv, Place
<1>7. DiskInv'
  <2>1. \A m \in Name : (place = "public" /\ m = n => Owned(m)') /\ ~Owned(m)
    BY Zenon, <1>1, ManagerAssumption DEF Owned
  <2>2. databases \subseteq Name
    BY ZenonT(40), <1>0 DEF TypeOK
  <2>3. place = "import" => disk["public"][n] = "none"
    BY ZenonT(40) DEF Inv, OneDirectory, Exists
  <2>. QED  BY Zenon, <2>1, <2>2, <2>3 DEF Inv, DiskInv, Place
<1>8. OneDirectory' /\ OutcomesLast'
  BY Zenon DEF Inv, OneDirectory, OutcomesLast, Exists
<1>9. HandlesLive'
  BY ZenonT(40), <1>1 DEF Inv, HandlesLive, Is
<1>10. PanicsOnlyAfterError' /\ StartsUnlessTorn'
  BY Zenon DEF PanicsOnlyAfterError, StartsUnlessTorn
<1>. QED  BY ZenonT(40), <1>3, <1>4, <1>5, <1>6, <1>7, <1>8, <1>9, <1>10 DEF Inv

(* What is being imported is not in the map.                               *)
LEMMA Agreements ==
    ASSUME Inv, NEW n \in Name
    PROVE  ImportAgrees(n)
BY ZenonT(40) DEF Inv, TypeOK, ImportAgrees, DiskInv, OneDirectory, Exists

(* put_database: a new name, an existing one, one found on disk.           *)
LEMMA PutStep ==
    ASSUME Inv, NEW c \in Client, NEW n \in Name, Put(c, n)
    PROVE  Inv'
<1>0. /\ TypeOK /\ server = "up" /\ holder = Nobody /\ ~Holds(c) /\ ImportAgrees(n)
      /\ client[c].at \in {"idle", "putting"}
  BY Zenon, Agreements DEF Inv, Put, Locks, Is, Holds
<1>1. CASE Leave(c, ImportAgrees(n)) \/ Leave(c, TRUE)
  <2>1. Leave(c, TRUE)
    BY Zenon, <1>0, <1>1 DEF Leave
  <2>. QED  BY <1>0, <2>1, LeaveStep, Zenon
<1>2. CASE /\ ~Exists("import", n) /\ n \notin databases /\ ~Exists("public", n)
           /\ BeginBuild(c, n, "public")
  <2>1. \A p \in Place : disk[p][n] = "none"
    BY Zenon, <1>2 DEF Exists, Place
  <2>. QED  BY Zenon, <1>0, <1>2, <2>1, BeginBuildStep DEF Place
<1>3. CASE /\ ~Exists("import", n) /\ n \notin databases
           /\ disk' = [disk EXCEPT !["public"][n] = "whole"]
           /\ Insert(n) /\ Return(c)
           /\ UNCHANGED <<server, holder, poisoned, reserved, faults, crashes, raced>>
  BY <1>0, <1>3, ManagerAssumption, InsertStep, Zenon DEF Exists, Owned, Inv, LockInv
<1>4. CASE n \in databases /\ Confirm(c, n)
  <2>1. /\ kept' = kept \cup {n} /\ Return(c)
        /\ UNCHANGED <<server, databases, disk, holder, poisoned, reserved,
                       faults, crashes, gone, torn, raced>>
    BY Zenon, <1>4 DEF Confirm
  <2>2. Idle.at = "idle"
    BY Zenon DEF Idle, Task
  <2>3. /\ reserved' \subseteq databases /\ raced' \subseteq Name
        /\ poisoned' \in BOOLEAN /\ (poisoned' => faults > 0)
    BY Zenon, <1>0, <2>1 DEF TypeOK, Inv, PanicsOnlyAfterError
  <2>4. kept \subseteq kept' /\ kept' \subseteq kept \cup databases
    BY Zenon, <1>4, <2>1
  <2>. QED
    BY Zenon, <1>0, <2>1, <2>2, <2>3, <2>4, IdleTyped, UnlockedStep DEF Return
<1>. QED  BY <1>1, <1>2, <1>3, <1>4, Zenon DEF Put

(* delete_database takes the database out of the map.                      *)
LEMMA DeleteStep ==
    ASSUME Inv, NEW c \in Client, NEW n \in Name, Delete(c, n)
    PROVE  Inv'
<1>0. TypeOK /\ server = "up" /\ holder = Nobody /\ ~poisoned /\ ~Holds(c)
  BY Zenon DEF Inv, Delete, Locks, Is, Holds
<1>1. CASE Leave(c, TRUE)
  BY <1>0, <1>1, LeaveStep, Zenon
<1>2. CASE /\ Return(c)
           /\ raced' = raced \cup (reserved \cap {n})
           /\ UNCHANGED <<server, databases, disk, holder, poisoned, reserved,
                          faults, crashes, kept, gone, torn>>
  <2>1. Idle.at = "idle"
    BY Zenon DEF Idle, Task
  <2>2. reserved \subseteq databases /\ raced' \subseteq Name /\ poisoned' \in BOOLEAN
    BY ZenonT(40), <1>0, <1>2 DEF TypeOK
  <2>. QED
    BY <1>0, <1>2, <2>1, <2>2, IdleTyped, UnlockedStep, Zenon DEF Return
<1>3. CASE /\ n \in databases /\ ~InUse(n)
           /\ databases' = databases \ {n}
           /\ reserved' = reserved \ {n} /\ raced' = raced \ {n}
           /\ kept' = kept \ {n}
           /\ holder' = c
           /\ Goto(c, n, "removing", "public", Is(c, "deleting"))
           /\ UNCHANGED <<server, disk, poisoned, faults, crashes, gone, torn>>
  <2>1. disk["public"][n] # "none" /\ \A e \in Client : Is(e, "using") => client[e].name # n
    BY Zenon, <1>3 DEF Inv, DiskInv, InUse
  <2>2. /\ reserved' \subseteq databases' /\ raced' \subseteq Name
        /\ poisoned' \in BOOLEAN /\ ~poisoned'
    BY Zenon, <1>0, <1>3 DEF TypeOK
  <2>3. PICK reset \in BOOLEAN : Goto(c, n, "removing", "public", reset)
    BY <1>3, Zenon DEF Is
  <2>. QED  BY ZenonT(40), <1>0, <1>3, <2>1, <2>2, <2>3, BeginRemoveStep DEF Place
<1>. QED  BY <1>1, <1>2, <1>3, Zenon DEF Delete

(* reset_else_recreate_database resets, or goes on to delete.              *)
LEMMA ResetStep ==
    ASSUME Inv, NEW c \in Client, NEW n \in Name, Reset(c, n)
    PROVE  Inv'
<1>1. PICK at \in {"deleting", "putting"} : Goto(c, n, at, "public", FALSE)
  BY Zenon DEF Reset
<1>2. /\ server = "up" /\ ~Holds(c) /\ poisoned' = poisoned
      /\ UNCHANGED <<server, databases, disk, holder, faults, crashes, kept, gone, torn, raced>>
  BY Zenon DEF Reset, Locks, Is, Holds, history
<1>3. reserved' \subseteq databases /\ raced \subseteq Name /\ poisoned \in BOOLEAN /\ ~poisoned
  BY Zenon DEF Reset, Locks, Inv, TypeOK
<1> DEFINE s == Task(at, n, "public", FALSE)
<1>4. s \in ClientState /\ s.at = at /\ client' = [client EXCEPT ![c] = s]
  BY Zenon, <1>1 DEF ClientState, Doing, Place, Goto, Task
<1> HIDE DEF s
<1>. QED  BY <1>1, <1>2, <1>3, <1>4, UnlockedStep, Zenon

(* prepare_imported_database starts an import.                             *)
LEMMA PrepareStep ==
    ASSUME Inv, NEW c \in Client, NEW n \in Name, Prepare(c, n)
    PROVE  Inv'
<1>0. TypeOK /\ server = "up" /\ holder = Nobody /\ ~Holds(c) /\ ImportAgrees(n)
  BY Zenon, Agreements DEF Inv, Prepare, Locks, Is, Holds
<1>1. CASE Leave(c, PublicAgrees(n))
  <2>1. PublicAgrees(n) \/ faults > 0
    BY <1>0 DEF Inv, PublicAgrees, DiskInv, Owned, Exists, TypeOK
  <2>2. PICK assertion \in BOOLEAN : (assertion \/ faults > 0) /\ Leave(c, assertion)
    BY <1>1, <2>1, Zenon DEF PublicAgrees
  <2>. QED  BY Zenon, <1>0, <2>2, LeaveStep
<1>2. CASE Leave(c, ImportAgrees(n))
  <2>1. Leave(c, TRUE)
    BY ZenonT(40), <1>0, <1>2 DEF Leave
  <2>. QED  BY <1>0, <2>1, LeaveStep, Zenon
<1>3. CASE /\ n \notin databases /\ ~Exists("public", n) /\ ~Exists("import", n)
           /\ BeginBuild(c, n, "import")
  <2>1. \A p \in Place : disk[p][n] = "none"
    BY Zenon, <1>3 DEF Exists, Place
  <2>. QED  BY ZenonT(40), <1>0, <1>3, <2>1, BeginBuildStep DEF Place
<1>. QED  BY <1>1, <1>2, <1>3, Zenon DEF Prepare

(* database: a handle is taken.                                            *)
LEMMA GetStep ==
    ASSUME Inv, NEW c \in Client, NEW n \in Name, Get(c, n)
    PROVE  Inv'
<1>1. /\ server = "up" /\ ~Holds(c) /\ n \in databases
      /\ UNCHANGED <<server, databases, disk, holder, poisoned, reserved,
                     faults, crashes, kept, gone, torn, raced>>
  BY Zenon DEF Get, Locks, Is, Holds, history
<1>2. reserved \subseteq databases /\ raced \subseteq Name /\ poisoned \in BOOLEAN /\ ~poisoned
  BY Zenon DEF Get, Locks, Inv, TypeOK
<1> DEFINE s == Task("using", n, "public", FALSE)
<1>3. /\ s \in ClientState /\ s.at = "using" /\ s.name = n
      /\ client' = [client EXCEPT ![c] = s]
  BY Zenon DEF ClientState, Doing, Place, Get, Goto, Task
<1> HIDE DEF s
<1>. QED  BY ZenonT(40), <1>1, <1>2, <1>3, UnlockedStep, Zenon

(* A handle is dropped.                                                    *)
LEMMA DropStep ==
    ASSUME Inv, NEW c \in Client, Drop(c) \/ Denied(c)
    PROVE  Inv'
<1>1. server = "up" /\ ~Holds(c) /\ Leave(c, TRUE)
  BY Zenon DEF Drop, Denied, Is, Holds
<1>. QED  BY <1>1, LeaveStep, Zenon

(* cancel_database_import goes on to remove the directory.                 *)
LEMMA CancelStep ==
    ASSUME Inv, NEW c \in Client, Cancel(c)
    PROVE  Inv'
<1>0. /\ TypeOK /\ server = "up" /\ holder = Nobody /\ ~Holds(c)
      /\ client[c].at = "importing"
  BY Zenon DEF Inv, Cancel, Locks, Is, Holds
<1>1. PICK n \in Name : client[c].name = n
  BY ZenonT(40), <1>0, NameTyped
<1>2. client[c].place = "import" /\ disk["import"][n] = "whole" /\ disk["public"][n] = "none"
  BY Zenon, <1>0, <1>1 DEF Inv, LockInv, WorkInv, Work, OneDirectory, Exists
<1>3. n \notin databases /\ n \notin kept
  BY Zenon, <1>2 DEF Inv, DiskInv, OutcomesLast
<1>4. Exists("import", n) /\ ImportAgrees(n)
  BY Zenon, <1>2, <1>3 DEF Exists, ImportAgrees
<1>5. /\ Goto(c, n, "removing", "import", FALSE)
      /\ holder' = c /\ poisoned' = FALSE
      /\ UNCHANGED <<server, databases, disk, reserved, faults, crashes, kept, gone, torn, raced>>
  BY <1>1, <1>4, Zenon DEF Cancel, Goto, Task, history
<1>6. \A e \in Client : Is(e, "using") => client[e].name # n
  BY Zenon, <1>3 DEF Inv, HandlesLive
<1>7. databases' = databases \ {n} /\ kept' = kept \ {n}
  BY Zenon, <1>3, <1>5
<1>8. reserved' \subseteq databases' /\ raced' \subseteq Name
  BY Zenon, <1>0, <1>5 DEF TypeOK
<1>. QED
  BY <1>0, <1>1, <1>2, <1>5, <1>6, <1>7, <1>8, BeginRemoveStep, Zenon DEF Place

(* finalise_imported_database goes on to rename the directory.             *)
LEMMA FinaliseStep ==
    ASSUME Inv, NEW c \in Client, Finalise(c)
    PROVE  Inv'
<1>0. /\ TypeOK /\ server = "up" /\ holder = Nobody /\ ~Holds(c)
      /\ client[c].at = "importing"
  BY Zenon DEF Inv, Finalise, Locks, Is, Holds
<1>1. PICK n \in Name : client[c].name = n
  BY ZenonT(40), <1>0, NameTyped
<1>2. client[c].place = "import" /\ disk["import"][n] = "whole" /\ disk["public"][n] = "none"
  BY Zenon, <1>0, <1>1 DEF Inv, LockInv, WorkInv, Work, OneDirectory, Exists
<1>3. n \notin databases /\ n \notin kept
  BY Zenon, <1>2 DEF Inv, DiskInv, OutcomesLast
<1>4. Exists("import", n) /\ ImportAgrees(n) /\ PublicAgrees(n) /\ ~Exists("public", n)
  BY Zenon, <1>2, <1>3 DEF Exists, ImportAgrees, PublicAgrees
<1>5. /\ Goto(c, n, "moving", "import", FALSE)
      /\ holder' = c /\ poisoned' = FALSE
      /\ UNCHANGED <<server, databases, disk, reserved, faults, crashes, kept, gone, torn, raced>>
  BY <1>1, <1>4, Zenon DEF Finalise, Goto, Task, history
<1>6. \A e \in Client : Is(e, "using") => client[e].name # n
  BY Zenon, <1>3 DEF Inv, HandlesLive
<1>7. databases' = databases \ {n} /\ kept' = kept \ {n}
  BY Zenon, <1>3, <1>5
<1>8. reserved' \subseteq databases' /\ raced' \subseteq Name
  BY Zenon, <1>0, <1>5 DEF TypeOK
<1>. QED
  BY <1>0, <1>1, <1>2, <1>5, <1>6, <1>7, <1>8, BeginRemoveStep, Zenon DEF Place

(* The rename of the imported directory.                                   *)
LEMMA MoveStep ==
    ASSUME Inv, NEW c \in Client, Move(c)
    PROVE  Inv'
<1>0. TypeOK /\ server = "up" /\ holder = c /\ client[c].at = "moving"
  BY Zenon, ManagerAssumption DEF Inv, LockInv, Move, Is
<1>1. PICK n \in Name : client[c].name = n
  BY ZenonT(40), <1>0, NameTyped
<1>2. /\ client[c].place = "import" /\ disk["import"][n] = "whole" /\ disk["public"][n] = "none"
      /\ \A e \in Client \ {c} : ~Holds(e)
  BY ZenonT(40), <1>0, <1>1, ManagerAssumption
  DEF Inv, LockInv, WorkInv, Work, OneDirectory, Exists
<1>3. n \notin databases /\ n \notin kept
  BY Zenon, <1>2 DEF Inv, DiskInv, OutcomesLast
<1>5. /\ disk' = [disk EXCEPT !["import"][n] = "none", !["public"][n] = "whole"]
      /\ gone' = gone \ {n}
      /\ UNCHANGED <<server, databases, holder, poisoned, reserved, faults, crashes, kept, torn, raced>>
  BY <1>1, <1>2, Zenon DEF Move
<1>6. /\ client' \in [Client -> ClientState]
      /\ client'[c].at = "opening" /\ client'[c].place = "public" /\ client'[c].name = n
      /\ \A e \in Client \ {c} : client'[e] = client[e]
  <2>1. Goto(c, n, "opening", "public", FALSE)
    BY Zenon, <1>1 DEF Move
  <2>2. client' \in [Client -> ClientState]
    BY <1>0, <2>1, GotoTyped, Zenon DEF Doing, Place
  <2>. QED  BY Zenon, <1>0, <2>1, <2>2 DEF TypeOK, Goto, Task
<1>7. /\ disk' \in [Place -> [Name -> Contents]]
      /\ disk'["public"][n] = "whole" /\ disk'["import"][n] = "none"
      /\ \A p \in Place, m \in Name \ {n} : disk'[p][m] = disk[p][m]
  BY Zenon, <1>0, <1>5 DEF TypeOK, Place, Contents
<1>8. gone' \subseteq gone /\ n \notin gone'
  BY Zenon, <1>5, <1>7
<1>9. TypeOK'
  BY <1>0, <1>5, <1>6, <1>7, <1>8, Zenon DEF TypeOK, ClientState
<1>10. LockInv'
  BY <1>0, <1>2, <1>5, <1>6 DEF Inv, LockInv, Holds
<1>11. WorkInv'
  <2>1. Work(c)'
    BY ZenonT(40), <1>3, <1>5, <1>6, <1>7, <1>8 DEF Work
  <2>2. ASSUME NEW e \in Client, e # c PROVE Work(e)'
    <3>1. client[e].at = "importing" => client[e].place = "import" /\ client[e].name # n
      BY Zenon, <1>0, <1>1, <2>2 DEF Inv, AloneInv, Imports, LockInv
    <3>2. client'[e] = client[e] /\ ~Holds(e) /\ holder' # e
      BY Zenon, <1>0, <1>2, <1>5, <1>6, <2>2
    <3>3. client[e].name \in Name /\ client[e].place \in Place
      BY Zenon, <1>0, NameTyped
    <3>. QED  BY ZenonT(40), <1>7, <3>1, <3>2, <3>3 DEF Inv, WorkInv, Work, Holds
  <2>. QED  BY ZenonT(40), <2>1, <2>2 DEF WorkInv
<1>12. AloneInv'
  BY Zenon, <1>6 DEF Inv, AloneInv, Imports
<1>13. DiskInv'
  <2>1. \A m \in Name : (m = n => Owned(m)') /\ ~Owned(m)
    BY Zenon, <1>0, <1>2, <1>5, <1>6, ManagerAssumption DEF Owned
  <2>2. databases \subseteq Name
    BY Zenon, <1>0 DEF TypeOK
  <2>. QED  BY <1>3, <1>5, <1>7, <2>1, <2>2 DEF Inv, DiskInv, Place
<1>14. OneDirectory'
  BY Zenon, <1>7 DEF Inv, OneDirectory, Exists, Place
<1>15. OutcomesLast'
  <2>1. kept \subseteq Name /\ gone \subseteq Name
    BY Zenon, <1>0 DEF TypeOK
  <2>. QED  BY Zenon, <1>3, <1>5, <1>7, <1>8, <2>1 DEF Inv, OutcomesLast, Exists, Place
<1>16. HandlesLive'
  <2>1. ASSUME NEW e \in Client, client'[e].at = "using"
        PROVE  e # c /\ client'[e] = client[e] /\ client[e].name \in Name
    BY Zenon, <1>0, <1>6, <2>1, NameTyped
  <2>. QED  BY <1>3, <1>5, <1>7, <2>1 DEF Inv, HandlesLive, Is, Place
<1>17. PanicsOnlyAfterError' /\ StartsUnlessTorn'
  BY Zenon, <1>0, <1>5 DEF Inv, PanicsOnlyAfterError, StartsUnlessTorn
<1>. QED
  BY ZenonT(40), <1>9, <1>10, <1>11, <1>12, <1>13, <1>14, <1>15, <1>16, <1>17 DEF Inv

(* The renamed directory is opened and put in the map.                     *)
LEMMA OpenStep ==
    ASSUME Inv, NEW c \in Client, Open(c)
    PROVE  Inv'
<1>0. TypeOK /\ holder = c /\ client[c].at = "opening"
  BY Zenon DEF Inv, Open, Is
<1>1. PICK n \in Name : client[c].name = n
  BY Zenon, <1>0, NameTyped
<1>2. /\ disk' = [disk EXCEPT !["public"][n] = "whole"] /\ Insert(n)
      /\ holder' = Nobody /\ Return(c)
      /\ UNCHANGED <<server, poisoned, reserved, faults, crashes, raced>>
  BY Zenon, <1>1 DEF Open
<1>3. client[c].place = "public" /\ server = "up" /\ \A e \in Client \ {c} : ~Holds(e)
  BY ZenonT(40), <1>0, ManagerAssumption DEF Inv, LockInv
<1>4. disk["public"][n] = "whole"
  BY Zenon, <1>0, <1>1, <1>3 DEF Inv, WorkInv, Work
<1>5. disk["import"][n] = "none"
  BY Zenon, <1>4 DEF Inv, OneDirectory, Exists
<1>6. \A m \in Name : Owned(m) => m = n
  BY Zenon, <1>0, <1>1 DEF Owned
<1>. QED  BY <1>2, <1>3, <1>5, <1>6, InsertStep, Zenon

(* A directory is created, its log is written, it is complete.             *)
LEMMA BuildStep ==
    ASSUME Inv, NEW c \in Client, Build(c)
    PROVE  Inv'
<1>0. TypeOK /\ holder = c /\ client[c].at = "building"
  BY Zenon DEF Inv, Build, Is
<1>1. PICK n \in Name, place \in Place, next \in {"logged", "whole"} :
          /\ client[c].name = n /\ client[c].place = place
          /\ next = Filled(disk[place][n])
  BY Zenon, <1>0, NameTyped DEF Filled
<1>2. /\ disk' = [disk EXCEPT ![place][n] = next]
      /\ UNCHANGED <<server, poisoned, reserved, faults, crashes, raced>>
  BY Zenon, <1>1 DEF Build
<1>3. \/ next = "logged" /\ UNCHANGED <<databases, client, holder, kept, gone, torn>>
      \/ /\ next = "whole" /\ place = "public" /\ holder' = Nobody
         /\ Insert(n) /\ Return(c)
      \/ /\ next = "whole" /\ place = "import" /\ holder' = Nobody
         /\ Goto(c, n, "importing", "import", FALSE)
         /\ UNCHANGED <<databases, kept, gone, torn>>
  BY ZenonT(40), <1>1, Zenon DEF Build
<1>4. /\ disk[place][n] \in {"bare", "logged"} /\ n \notin databases
      /\ \A e \in Client \ {c} : ~Holds(e)
      /\ server = "up"
  BY Zenon, <1>0, <1>1 DEF Inv, WorkInv, Work, LockInv, Holds
<1>5. \A p \in Place, m \in Name : disk'[p][m] = IF p = place /\ m = n THEN next ELSE disk[p][m]
  BY ZenonT(40), <1>0, <1>2 DEF TypeOK
<1>6. /\ \A e \in Client \ {c} : client'[e] = client[e]
      /\ next = "whole" /\ place = "public" => client'[c].at = "idle"
      /\ next = "whole" /\ place = "import" =>
            client'[c].at = "importing" /\ client'[c].place = "import" /\ client'[c].name = n
  BY <1>0, <1>3 DEF TypeOK, Return, Goto, Idle, Task
<1>7. client' \in [Client -> ClientState] /\ disk' \in [Place -> [Name -> Contents]]
  <2>1. client' \in [Client -> ClientState]
    BY <1>0, <1>3, GotoTyped, ReturnTyped, Zenon DEF TypeOK, ClientState, Doing, Place
  <2>2. disk' \in [Place -> [Name -> Contents]]
    BY Zenon, <1>0, <1>2, DiskTyped DEF Contents
  <2>. QED  BY Zenon, <2>1, <2>2
<1>8. /\ databases' = (IF next = "whole" /\ place = "public" THEN databases \cup {n} ELSE databases)
      /\ kept' = (IF next = "whole" /\ place = "public" THEN kept \cup {n} ELSE kept)
      /\ gone' = (IF next = "whole" /\ place = "public" THEN gone \ {n} ELSE gone)
      /\ torn' = (IF next = "whole" /\ place = "public" THEN torn \ {n} ELSE torn)
      /\ next = "logged" => client' = client /\ holder' = holder
      /\ next = "whole" => holder' = Nobody
  BY <1>3, Zenon DEF Insert, Place
<1>9. TypeOK'
  BY ZenonT(40), <1>0, <1>2, <1>7, <1>8 DEF TypeOK, ClientState
<1>10. LockInv'
  BY <1>0, <1>1, <1>2, <1>4, <1>6, <1>8, ManagerAssumption DEF Inv, LockInv, Holds, Place
<1>11. WorkInv'
  <2>1. Work(c)'
    BY ZenonT(40), <1>0, <1>1, <1>5, <1>6, <1>8, ManagerAssumption DEF Inv, WorkInv, Work, Place
  <2>2. ASSUME NEW e \in Client, e # c PROVE Work(e)'
    <3>1. client[e].at = "importing" => ~(client[e].place = place /\ client[e].name = n)
      BY ZenonT(40), <1>0, <1>1, <2>2 DEF Inv, AloneInv, Imports, LockInv
    <3>2. client'[e] = client[e] /\ ~Holds(e) /\ holder' # e
      BY Zenon, <1>0, <1>4, <1>6, <1>8, <2>2, ManagerAssumption
    <3>3. client[e].name \in Name /\ client[e].place \in Place
      BY ZenonT(40), <1>0, NameTyped
    <3>. QED  BY ZenonT(40), <1>5, <3>1, <3>2, <3>3 DEF Inv, WorkInv, Work, Holds
  <2>. QED  BY ZenonT(40), <2>1, <2>2 DEF WorkInv
<1>12. AloneInv'
  BY SMTT(40), <1>0, <1>1, <1>4, <1>6, <1>8 DEF Inv, AloneInv, Imports, Holds, Place
<1>13. DiskInv'
  <2>1. \A m \in Name : m # n => ~Owned(m)
    BY Zenon, <1>0, <1>1 DEF Owned
  <2>2. next = "logged" /\ place = "public" => \A m \in Name : m = n => Owned(m)'
    BY Zenon, <1>0, <1>1, <1>8, ManagerAssumption DEF Owned
  <2>3. ~(place = "public") => \A m \in Name : ~Owned(m)
    BY Zenon, <1>0, <1>1 DEF Owned
  <2>4. databases \subseteq Name
    BY Zenon, <1>0 DEF TypeOK
  <2>. QED  BY <1>2, <1>4, <1>5, <1>8, <2>1, <2>2, <2>3, <2>4 DEF Inv, DiskInv, Place
<1>14. OneDirectory'
  BY Zenon, <1>4, <1>5 DEF Inv, OneDirectory, Exists, Place
<1>15. OutcomesLast'
  <2>1. place = "public" => n \notin kept \cup gone
    BY Zenon, <1>0, <1>1 DEF Inv, WorkInv, Work
  <2>2. kept \subseteq Name /\ gone \subseteq Name
    BY ZenonT(40), <1>0 DEF TypeOK
  <2>. QED  BY ZenonT(40), <1>2, <1>4, <1>5, <1>8, <2>1, <2>2 DEF Inv, OutcomesLast, Exists, Place
<1>16. HandlesLive'
  <2>1. ASSUME NEW e \in Client, client'[e].at = "using"
        PROVE  e # c /\ client'[e] = client[e]
    BY Zenon, <1>0, <1>6, <1>8, <2>1 DEF Place
  <2>. QED
    BY <1>0, <1>4, <1>5, <1>8, <2>1, NameTyped DEF Inv, HandlesLive, Is, Place
<1>17. PanicsOnlyAfterError' /\ StartsUnlessTorn'
  BY Zenon, <1>2, <1>4 DEF Inv, PanicsOnlyAfterError, StartsUnlessTorn
<1>. QED
  BY ZenonT(40), <1>9, <1>10, <1>11, <1>12, <1>13, <1>14, <1>15, <1>16, <1>17 DEF Inv

(* A directory is taken apart.                                             *)
LEMMA RemoveStep ==
    ASSUME Inv, NEW c \in Client, Remove(c)
    PROVE  Inv'
<1>0. TypeOK /\ holder = c /\ client[c].at = "removing"
  BY Zenon DEF Inv, Remove, Is
<1>1. PICK n \in Name, place \in Place, next \in {"none", "bare", "logged"} :
          /\ client[c].name = n /\ client[c].place = place
          /\ next = Emptied(disk[place][n])
  BY Zenon, <1>0, NameTyped DEF Emptied
<1>2. /\ disk' = [disk EXCEPT ![place][n] = next]
      /\ UNCHANGED <<server, databases, poisoned, reserved, faults, crashes, kept, torn, raced>>
  BY Zenon, <1>1 DEF Remove
<1>3. /\ next # "none" => UNCHANGED <<client, holder, gone>>
      /\ next = "none" =>
            /\ holder' = Nobody
            /\ gone' = IF place = "public" THEN gone \cup {n} ELSE gone
            /\ Goto(c, n, "putting", "public", FALSE) \/ Return(c)
  BY ZenonT(40), <1>1, Zenon DEF Remove
<1>4. /\ disk[place][n] # "none" /\ n \notin databases
      /\ \A e \in Client \ {c} : ~Holds(e)
      /\ server = "up"
  BY Zenon, <1>0, <1>1 DEF Inv, WorkInv, Work, LockInv, Holds
<1>5. \A p \in Place, m \in Name : disk'[p][m] = IF p = place /\ m = n THEN next ELSE disk[p][m]
  BY ZenonT(40), <1>0, <1>2 DEF TypeOK
<1>6. /\ \A e \in Client \ {c} : client'[e] = client[e]
      /\ next = "none" => client'[c].at \in {"putting", "idle"}
  BY <1>0, <1>3 DEF TypeOK, Return, Goto, Idle, Task
<1>7. client' \in [Client -> ClientState] /\ disk' \in [Place -> [Name -> Contents]]
  <2>1. client' \in [Client -> ClientState]
    BY <1>0, <1>3, GotoTyped, ReturnTyped, Zenon DEF TypeOK, ClientState, Doing, Place
  <2>2. disk' \in [Place -> [Name -> Contents]]
    BY Zenon, <1>0, <1>2, DiskTyped DEF Contents
  <2>. QED  BY Zenon, <2>1, <2>2
<1>8. /\ gone' = (IF next = "none" /\ place = "public" THEN gone \cup {n} ELSE gone)
      /\ next # "none" => client' = client /\ holder' = holder
      /\ next = "none" => holder' = Nobody
  BY <1>3, Zenon
<1>9. TypeOK'
  BY Zenon, <1>0, <1>2, <1>7, <1>8 DEF TypeOK, ClientState
<1>10. LockInv'
  BY Zenon, <1>0, <1>2, <1>4, <1>6, <1>8, ManagerAssumption DEF Inv, LockInv, Holds
<1>11. WorkInv'
  <2>1. Work(c)'
    BY SMTT(40), <1>0, <1>1, <1>2, <1>5, <1>6, <1>8, ManagerAssumption DEF Inv, WorkInv, Work
  <2>2. ASSUME NEW e \in Client, e # c PROVE Work(e)'
    <3>1. client[e].at = "importing" => ~(client[e].place = place /\ client[e].name = n)
      BY Zenon, <1>0, <1>1, <2>2 DEF Inv, AloneInv, Imports, LockInv
    <3>2. client'[e] = client[e] /\ ~Holds(e) /\ holder' # e
      BY Zenon, <1>0, <1>4, <1>6, <1>8, <2>2, ManagerAssumption
    <3>3. client[e].name \in Name /\ client[e].place \in Place
      BY ZenonT(40), <1>0, NameTyped
    <3>. QED  BY ZenonT(40), <1>5, <3>1, <3>2, <3>3 DEF Inv, WorkInv, Work, Holds
  <2>. QED  BY ZenonT(40), <2>1, <2>2 DEF WorkInv
<1>12. AloneInv'
  BY <1>0, <1>1, <1>4, <1>6, <1>8 DEF Inv, AloneInv, Imports, Holds
<1>13. DiskInv'
  <2>1. \A m \in Name : m # n => ~Owned(m)
    BY ZenonT(40), <1>0, <1>1 DEF Owned
  <2>2. next # "none" /\ place = "public" => \A m \in Name : m = n => Owned(m)'
    BY Zenon, <1>0, <1>1, <1>8, ManagerAssumption DEF Owned
  <2>3. ~(place = "public") => \A m \in Name : ~Owned(m)
    BY Zenon, <1>0, <1>1 DEF Owned
  <2>4. databases \subseteq Name
    BY Zenon, <1>0 DEF TypeOK
  <2>. QED  BY <1>2, <1>4, <1>5, <2>1, <2>2, <2>3, <2>4 DEF Inv, DiskInv, Place
<1>14. OneDirectory'
  BY Zenon, <1>4, <1>5 DEF Inv, OneDirectory, Exists, Place
<1>15. OutcomesLast'
  <2>1. place = "public" => n \notin kept
    BY ZenonT(40), <1>0, <1>1 DEF Inv, WorkInv, Work
  <2>2. place = "public" => n \notin gone
    BY Zenon, <1>0, <1>1 DEF Inv, WorkInv, Work
  <2>3. kept \subseteq Name /\ gone \subseteq Name
    BY Zenon, <1>0 DEF TypeOK
  <2>. QED  BY ZenonT(40), <1>2, <1>5, <1>8, <2>1, <2>2, <2>3 DEF Inv, OutcomesLast, Exists, Place
<1>16. HandlesLive'
  <2>1. ASSUME NEW e \in Client, client'[e].at = "using"
        PROVE  e # c /\ client'[e] = client[e]
    BY Zenon, <1>0, <1>6, <1>8, <2>1
  <2>. QED
    BY <1>0, <1>2, <1>4, <1>5, <2>1, NameTyped DEF Inv, HandlesLive, Is, Place
<1>17. PanicsOnlyAfterError' /\ StartsUnlessTorn'
  BY Zenon, <1>2, <1>4 DEF Inv, PanicsOnlyAfterError, StartsUnlessTorn
<1>. QED
  BY ZenonT(40), <1>9, <1>10, <1>11, <1>12, <1>13, <1>14, <1>15, <1>16, <1>17 DEF Inv

(* An I/O error, or a panic with the lock held.                            *)
LEMMA FaultStep ==
    ASSUME Inv, NEW c \in Client, Fault(c) \/ Panic(c)
    PROVE  Inv'
<1>0. TypeOK /\ holder = c /\ holder' = Nobody /\ Return(c)
  BY Zenon DEF Inv, Fault, Panic
<1>1. /\ UNCHANGED <<server, databases, disk, reserved, crashes, kept, gone, raced>>
      /\ faults' \in 0 .. MaxFaults /\ faults' > 0
      /\ poisoned' \in BOOLEAN
  <2>1. UNCHANGED <<server, databases, disk, reserved, crashes, kept, gone, raced>>
    BY Zenon DEF Fault, Panic
  <2>2. faults < MaxFaults /\ faults' = faults + 1
    BY Zenon DEF Fault, Panic
  <2>3. poisoned' = poisoned \/ poisoned' = TRUE
    BY Zenon DEF Fault, Panic
  <2>4. faults' \in 0 .. MaxFaults /\ faults' > 0
    BY <1>0, <2>2, ManagerAssumption DEF TypeOK
  <2>. QED  BY Zenon, <1>0, <2>1, <2>3, <2>4 DEF TypeOK
<1>2. PICK n \in Name : client[c].name = n
  BY Zenon, <1>0, NameTyped
<1>3. torn' = torn \cup (IF client[c].place = "public" THEN {n} ELSE {})
  BY ZenonT(40), <1>0, <1>2 DEF Fault, Panic, HalfDone
<1>4. server = "up" /\ \A e \in Client \ {c} : ~Holds(e)
  BY Zenon, <1>0, ManagerAssumption DEF Inv, LockInv
<1>5. client' \in [Client -> ClientState]
  BY ZenonT(40), <1>0, ReturnTyped
<1>6. client'[c].at = "idle" /\ \A e \in Client \ {c} : client'[e] = client[e]
  BY Zenon, <1>0 DEF Return, Idle, Task, TypeOK
<1>7. TypeOK'
  <2>1. torn' \subseteq Name
    BY Zenon, <1>0, <1>2, <1>3 DEF TypeOK
  <2>2. reserved' \subseteq databases' /\ holder' \in Client \cup {Nobody}
    BY Zenon, <1>0, <1>1 DEF TypeOK
  <2>3. client' \in [Client -> [at: Doing, name: Name, place: Place, reset: BOOLEAN]]
    BY Zenon, <1>5 DEF ClientState
  <2> QED BY Zenon, <1>0, <1>1, <2>1, <2>2, <2>3 DEF TypeOK
<1>8. LockInv'
  <2>1. \A e \in Client : ~Holds(e)' /\ (client'[e].at = "idle" \/ client'[e] = client[e])
    BY Zenon, <1>4, <1>6 DEF Holds
  <2>2. holder' = Nobody /\ Nobody \notin Client
    BY Zenon, <1>0, ManagerAssumption
  <2>3. \A e \in Client : /\ client'[e].at \in {"importing", "moving"} => client'[e].place = "import"
                          /\ client'[e].at = "opening" => client'[e].place = "public"
    BY Zenon, <2>1 DEF Inv, LockInv
  <2> QED BY ZenonT(40), <1>1, <1>4, <2>1, <2>2, <2>3 DEF LockInv
<1>9. WorkInv'
  <2>1. holder' = Nobody /\ Nobody \notin Client
    BY Zenon, <1>0, ManagerAssumption
  <2>2. ASSUME NEW e \in Client PROVE Work(e)'
    <3>1. holder' # e
      BY Zenon, <2>1
    <3>2. CASE client'[e].at = "idle"
      BY ZenonT(40), <3>1, <3>2 DEF Work
    <3>3. CASE client'[e] = client[e]
      BY ZenonT(40), <1>1, <3>1, <3>3 DEF Inv, WorkInv, Work
    <3>. QED  BY Zenon, <1>6, <3>2, <3>3
  <2>. QED  BY Zenon, <2>2 DEF WorkInv
<1>10. AloneInv'
  BY ZenonT(40), <1>6 DEF Inv, AloneInv, Imports
<1>11. DiskInv'
  <2>1. \A m \in Name : Owned(m) => m \in torn'
    BY Zenon, <1>0, <1>2, <1>3 DEF Owned
  <2>. QED  BY <1>1, <1>3, <2>1 DEF Inv, DiskInv
<1>12. OneDirectory' /\ OutcomesLast'
  BY ZenonT(40), <1>1 DEF Inv, OneDirectory, OutcomesLast, Exists
<1>13. HandlesLive'
  BY Zenon, <1>1, <1>6 DEF Inv, HandlesLive, Is
<1>14. PanicsOnlyAfterError' /\ StartsUnlessTorn'
  BY Zenon, <1>1, <1>4 DEF PanicsOnlyAfterError, StartsUnlessTorn
<1>. QED
  BY Zenon, <1>7, <1>8, <1>9, <1>10, <1>11, <1>12, <1>13, <1>14 DEF Inv

(* The process dies.                                                       *)
LEMMA CrashStep ==
    ASSUME Inv, Crash
    PROVE  Inv'
<1>0. TypeOK /\ server = "up"
  BY Zenon DEF Inv, Crash
<1>1. /\ server' = "down" /\ holder' = Nobody /\ poisoned' = FALSE
      /\ databases' = {} /\ reserved' = {} /\ raced' = {}
      /\ UNCHANGED <<disk, faults, kept, gone>>
      /\ torn' = torn \cup UNION {HalfDone(c) : c \in Client}
  BY Zenon DEF Crash
<1>2. crashes' \in 0 .. MaxCrashes
  BY <1>0, ManagerAssumption DEF Crash, TypeOK
<1>3. client' \in [Client -> ClientState] /\ \A e \in Client : client'[e].at = "idle"
  <2>1. client' = [c \in Client |-> Idle] /\ Idle.at = "idle"
    BY Zenon DEF Crash, Idle, Task
  <2>. QED  BY ZenonT(40), <2>1, IdleTyped
<1>4. \A m \in Name : m \in torn' <=> m \in torn \/ Owned(m)
  <2>1. ASSUME NEW m \in Name, NEW c \in Client, m \in HalfDone(c)
        PROVE  Owned(m)
    BY Zenon, <2>1, ManagerAssumption DEF HalfDone, Owned
  <2>2. ASSUME NEW m \in Name, Owned(m)
        PROVE  \E c \in Client : m \in HalfDone(c)
    BY Zenon, <1>0, <2>2 DEF HalfDone, Owned, TypeOK
  <2>. QED  BY Zenon, <1>1, <2>1, <2>2
<1>5. torn' \subseteq Name
  <2>1. \A c \in Client : HalfDone(c) \subseteq Name
    BY Zenon, <1>0, NameTyped DEF HalfDone
  <2>. QED  BY ZenonT(40), <1>0, <1>1, <2>1 DEF TypeOK
<1>6. TypeOK'
  BY ZenonT(40), <1>0, <1>1, <1>2, <1>3, <1>5, Zenon DEF TypeOK, ClientState
<1>7. LockInv' /\ WorkInv' /\ AloneInv' /\ HandlesLive'
  BY ZenonT(40), <1>1, <1>3, ManagerAssumption
  DEF LockInv, Holds, WorkInv, Work, AloneInv, HandlesLive, Is
<1>8. DiskInv'
  BY ZenonT(40), <1>1, <1>4 DEF Inv, DiskInv
<1>9. OneDirectory' /\ OutcomesLast'
  BY Zenon, <1>1 DEF Inv, OneDirectory, OutcomesLast, Exists
<1>10. PanicsOnlyAfterError' /\ StartsUnlessTorn'
  BY Zenon, <1>1 DEF PanicsOnlyAfterError, StartsUnlessTorn
<1>. QED  BY Zenon, <1>6, <1>7, <1>8, <1>9, <1>10 DEF Inv

(* The server loads what it finds, or fails to.                            *)
LEMMA RestartStep ==
    ASSUME Inv, Restart
    PROVE  Inv'
<1> DEFINE found == {n \in Name : Exists("public", n)}
<1>0. TypeOK /\ server = "down" /\ holder = Nobody /\ ~poisoned
  BY Zenon DEF Inv, Restart, LockInv
<1>1. databases = {} /\ \A c \in Client : client[c].at = "idle"
  BY Zenon, <1>0 DEF Inv, LockInv
<1>2. UNCHANGED <<client, holder, poisoned, reserved, faults, crashes, kept, gone, raced>>
  BY Zenon DEF Restart
<1>3. /\ client' = client /\ holder' = Nobody /\ poisoned' = FALSE
      /\ \A m \in Name : ~Owned(m)
  BY ZenonT(40), <1>0, <1>2 DEF TypeOK, Owned
<1>4. WorkInv' /\ AloneInv' /\ HandlesLive'
  BY Zenon, <1>1, <1>3, ManagerAssumption DEF WorkInv, Work, AloneInv, HandlesLive, Is
<1>5. CASE /\ \E n \in found : ~Loads(n)
           /\ server' = "failed"
           /\ UNCHANGED <<databases, disk, torn>>
  <2>0. server' = "failed" /\ UNCHANGED <<databases, disk, torn>>
    BY Zenon, <1>5
  <2>1. PICK n \in Name : disk["public"][n] # "none" /\ ~Loads(n)
    BY Zenon, <1>5 DEF Exists
  <2>2. disk["public"][n] = "bare"
    BY SMTT(40), <1>0, <2>1 DEF Loads, TypeOK, Place, Contents
  <2>3. torn # {}
    BY Zenon, <1>0, <2>2 DEF Inv, DiskInv, Owned
  <2>4. TypeOK'
    BY <1>0, <1>2, <2>0, SMTT(20) DEF TypeOK
  <2>5. LockInv'
    BY Zenon, <1>1, <1>3, <2>0, ManagerAssumption DEF LockInv, Holds
  <2>6. DiskInv'
    BY Zenon, <1>3, <2>0 DEF Inv, DiskInv
  <2>7. OneDirectory' /\ OutcomesLast'
    BY Zenon, <1>2, <2>0 DEF Inv, OneDirectory, OutcomesLast, Exists
  <2>8. PanicsOnlyAfterError' /\ StartsUnlessTorn'
    BY Zenon, <1>0, <1>2, <2>0, <2>3 DEF PanicsOnlyAfterError, StartsUnlessTorn
  <2>. QED  BY Zenon, <1>4, <2>4, <2>5, <2>6, <2>7, <2>8 DEF Inv
<1>6. CASE /\ server' = "up" /\ databases' = found
           /\ disk' = [p \in Place |-> [n \in Name |->
                         IF p = "public" /\ n \in found THEN "whole" ELSE "none"]]
           /\ torn' = torn \ found
  <2>1. disk' \in [Place -> [Name -> Contents]]
    BY Zenon, <1>6 DEF Contents
  <2>2. \A m \in Name : /\ disk'["public"][m] = IF m \in databases' THEN "whole" ELSE "none"
                        /\ disk'["import"][m] = "none"
    BY Zenon, <1>6 DEF Place
  <2>3. databases' \subseteq Name /\ \A m \in Name : m \in databases' <=> disk["public"][m] # "none"
    BY Zenon, <1>6 DEF Exists
  <2>4. reserved' \subseteq databases'
    BY Zenon, <1>0, <1>1, <1>2 DEF TypeOK
  <2>0. server' = "up" /\ torn' \subseteq torn
    BY Zenon, <1>6
  <2>5. TypeOK'
    BY Zenon, <1>0, <1>2, <2>0, <2>1, <2>3, <2>4 DEF TypeOK
  <2>6. LockInv'
    BY Zenon, <1>1, <1>3, <2>0, ManagerAssumption DEF LockInv, Holds
  <2>7. DiskInv' /\ OneDirectory'
    BY Zenon, <2>2, <2>3 DEF DiskInv, OneDirectory, Exists
  <2>8. OutcomesLast'
    <3>1. kept \subseteq Name /\ gone \subseteq Name
      BY Zenon, <1>0 DEF TypeOK
    <3>. QED  BY Zenon, <1>2, <2>2, <2>3, <3>1 DEF Inv, OutcomesLast, Exists
  <2>9. PanicsOnlyAfterError' /\ StartsUnlessTorn'
    BY Zenon, <1>0, <1>2, <2>0 DEF PanicsOnlyAfterError, StartsUnlessTorn
  <2>. QED  BY Zenon, <1>4, <2>5, <2>6, <2>7, <2>8, <2>9 DEF Inv
<1>. QED  BY Zenon, <1>5, <1>6 DEF Restart

(* Every step of a thread, every I/O error, every crash and every restart  *)
(* preserves the invariant.                                                *)
LEMMA NextStep ==
    ASSUME Inv, [Next]_vars
    PROVE  Inv'
<1>1. CASE UNCHANGED vars
  <2>1. TypeOK' /\ LockInv' /\ WorkInv' /\ AloneInv'
    BY ZenonT(40), <1>1 DEF vars, Inv, TypeOK, LockInv, WorkInv, Work, AloneInv, Imports, Holds
  <2>2. DiskInv' /\ OneDirectory' /\ OutcomesLast' /\ HandlesLive'
    BY Zenon, <1>1 DEF vars, Inv, DiskInv, Owned, OneDirectory, OutcomesLast, HandlesLive, Exists, Is
  <2>3. PanicsOnlyAfterError' /\ StartsUnlessTorn'
    BY Zenon, <1>1 DEF vars, Inv, PanicsOnlyAfterError, StartsUnlessTorn
  <2>. QED  BY ZenonT(40), <2>1, <2>2, <2>3 DEF Inv
<1>2. ASSUME NEW c \in Client, NEW n \in Name,
             Put(c, n) \/ Delete(c, n) \/ Reset(c, n) \/ Prepare(c, n) \/ Get(c, n)
      PROVE  Inv'
  BY Zenon, <1>2, PutStep, DeleteStep, ResetStep, PrepareStep, GetStep
<1>3. ASSUME NEW c \in Client,
             \/ Finalise(c) \/ Move(c) \/ Open(c) \/ Cancel(c) \/ Drop(c) \/ Denied(c)
             \/ Build(c) \/ Remove(c) \/ Fault(c) \/ Panic(c)
      PROVE  Inv'
  BY Zenon, <1>3, FinaliseStep, MoveStep, OpenStep, CancelStep, DropStep, BuildStep, RemoveStep, FaultStep
<1>. QED  BY Zenon, <1>1, <1>2, <1>3, CrashStep, RestartStep DEF Next

(* For any threads, names, I/O errors and crashes: what put, delete and    *)
(* finalise_imported_database reported lasts, a name has one directory,    *)
(* the assertions on map and directories fail only after an I/O error or a *)
(* panic while a database was being closed, and a start fails only over a  *)
(* directory an error, a panic or a crash left half done.                  *)
THEOREM Databases ==
    Spec => [](OutcomesLast /\ OneDirectory /\ PanicsOnlyAfterError /\ StartsUnlessTorn)
<1>1. Inv => OutcomesLast /\ OneDirectory /\ PanicsOnlyAfterError /\ StartsUnlessTorn
  BY Zenon DEF Inv
<1>. QED  BY Initial, NextStep, <1>1, PTL DEF Spec

(* No thread holds a database that is deleted or being deleted: the        *)
(* Arc::try_unwrap of delete_database sees every handle.                   *)
THEOREM Handles == Spec => []HandlesLive
<1>1. Inv => HandlesLive
  BY Zenon DEF Inv
<1>. QED  BY Initial, NextStep, <1>1, PTL DEF Spec

------------------------------------------------------------------------------
(* The schema reservation that a failed reset leaves on its database.      *)

(* A thread that is not about to delete does not change what is reserved.  *)
LEMMA ReservationsKept ==
    ASSUME TypeOK, ReleasedUnlessRaced, NEW c \in Client, ~Is(c, "deleting"),
           NEW s, client' = [client EXCEPT ![c] = s],
           reserved' \subseteq reserved, raced' = raced, poisoned => poisoned'
    PROVE  ReleasedUnlessRaced'
<1> SUFFICES ASSUME ~poisoned', NEW n \in reserved', n \notin raced'
             PROVE  \E d \in Client : client'[d].at = "deleting" /\ client'[d].name = n
  BY DEF ReleasedUnlessRaced, Is
<1>1. PICK d \in Client : client[d].at = "deleting" /\ client[d].name = n
  BY Zenon DEF ReleasedUnlessRaced, Is
<1>2. client'[d] = client[d]
  BY ZenonT(40), <1>1 DEF Is, TypeOK
<1>. QED  BY Zenon, <1>1, <1>2

(* delete_database takes the reservation away with the database, or finds  *)
(* it in use.                                                              *)
LEMMA DeleteReleases ==
    ASSUME TypeOK, ReleasedUnlessRaced, NEW c \in Client, NEW n \in Name, Delete(c, n)
    PROVE  ReleasedUnlessRaced'
<1>1. ~poisoned /\ (Is(c, "deleting") => client[c].name = n)
  BY ZenonT(40) DEF Delete, Locks, Is
<1>2. PICK s : client' = [client EXCEPT ![c] = s]
  BY Zenon DEF Delete, Leave, Return, Goto
<1>3. reserved' \subseteq reserved /\ raced \subseteq raced' \cup {n}
  BY ZenonT(40) DEF Delete, Leave, history
<1>4. n \in reserved' => n \in raced'
  BY Zenon DEF Delete, Leave, history, TypeOK
<1> SUFFICES ASSUME NEW m \in reserved', m \notin raced'
             PROVE  \E d \in Client : client'[d].at = "deleting" /\ client'[d].name = m
  BY Zenon DEF ReleasedUnlessRaced, Is
<1>5. m # n /\ m \notin raced /\ m \in reserved
  BY Zenon, <1>3, <1>4
<1>6. PICK d \in Client : client[d].at = "deleting" /\ client[d].name = m
  BY Zenon, <1>1, <1>5 DEF ReleasedUnlessRaced, Is
<1>7. client'[d] = client[d]
  BY Zenon, <1>1, <1>2, <1>5, <1>6 DEF Is, TypeOK
<1>. QED  BY ZenonT(40), <1>6, <1>7

(* reset_else_recreate_database goes on to delete what it has reserved.    *)
LEMMA ResetReleases ==
    ASSUME TypeOK, ReleasedUnlessRaced, NEW c \in Client, NEW n \in Name, Reset(c, n)
    PROVE  ReleasedUnlessRaced'
<1>1. /\ ~poisoned /\ Is(c, "idle") /\ raced' = raced
      /\ reserved' \subseteq reserved \cup (databases \cap {n})
      /\ client' = [client EXCEPT ![c] =
                      Task(IF n \in databases THEN "deleting" ELSE "putting", n, "public", FALSE)]
  BY Zenon DEF Reset, Locks, Goto, history
<1> SUFFICES ASSUME NEW m \in reserved', m \notin raced'
             PROVE  \E d \in Client : client'[d].at = "deleting" /\ client'[d].name = m
  BY Zenon DEF ReleasedUnlessRaced, Is
<1>2. CASE m \in reserved
  <2>1. PICK d \in Client : client[d].at = "deleting" /\ client[d].name = m
    BY Zenon, <1>1, <1>2 DEF ReleasedUnlessRaced, Is
  <2>2. client'[d] = client[d]
    BY Zenon, <1>1, <2>1 DEF Is, TypeOK
  <2>. QED  BY Zenon, <2>1, <2>2
<1>3. CASE m = n /\ n \in databases
  <2>1. client'[c] = Task("deleting", n, "public", FALSE)
    BY ZenonT(40), <1>1, <1>3 DEF TypeOK
  <2>. QED  BY <1>3, <2>1 DEF Task
<1>. QED  BY Zenon, <1>1, <1>2, <1>3

(* No step of any thread leaves a reservation behind.                      *)
LEMMA ReleasedStep ==
    ASSUME Inv, ReleasedUnlessRaced, [Next]_vars
    PROVE  ReleasedUnlessRaced'
<1>0. TypeOK
  BY ZenonT(40) DEF Inv
<1>1. CASE UNCHANGED <<client, reserved, raced, poisoned>>
  BY Zenon, <1>1 DEF ReleasedUnlessRaced, Is
<1>2. ASSUME NEW c \in Client, NEW n \in Name, Put(c, n) \/ Prepare(c, n) \/ Get(c, n)
      PROVE  ReleasedUnlessRaced'
  <2>1. ~Is(c, "deleting") /\ ~poisoned
    BY Zenon, <1>2 DEF Put, Prepare, Get, Locks, Is
  <2>2. /\ \E s : client' = [client EXCEPT ![c] = s]
        /\ reserved' = reserved /\ raced' = raced
    BY Zenon, <1>2 DEF Put, Confirm, Prepare, Get, Leave, BeginBuild, Return, Goto, history
  <2>. QED  BY Zenon, <1>0, <2>1, <2>2, ReservationsKept
<1>3. ASSUME NEW c \in Client, Finalise(c) \/ Move(c) \/ Open(c) \/ Cancel(c) \/ Fault(c) \/ Panic(c)
      PROVE  ReleasedUnlessRaced'
  <2>0. holder = c => ~Is(c, "deleting")
    BY Zenon DEF Inv, LockInv, Holds, Is
  <2>1. ~Is(c, "deleting") /\ (poisoned => poisoned')
    <3>1. CASE Finalise(c)
      BY Zenon, <3>1 DEF Finalise, Locks, Is
    <3>2. CASE Cancel(c)
      BY Zenon, <3>2 DEF Cancel, Locks, Is
    <3>3. CASE Move(c) \/ Open(c) \/ Fault(c) \/ Panic(c)
      <4>1. holder = c
        BY Zenon, <3>3 DEF Move, Open, Fault, Panic
      <4>2. CASE poisoned' = poisoned
        BY Zenon, <2>0, <4>1, <4>2
      <4>3. CASE Panic(c)
        BY Zenon, <2>0, <4>1, <4>3 DEF Panic
      <4>. QED  BY Zenon, <3>3, <4>2, <4>3 DEF Move, Open, Fault
    <3>. QED  BY Zenon, <1>3, <3>1, <3>2, <3>3
  <2>2. \E s : client' = [client EXCEPT ![c] = s]
    <3>1. CASE Finalise(c)
      BY Zenon, <3>1 DEF Finalise
    <3>2. CASE Cancel(c)
      BY Zenon, <3>2 DEF Cancel
    <3>3. CASE Move(c) \/ Open(c) \/ Fault(c) \/ Panic(c)
      BY ZenonT(40), <3>3 DEF Move, Open, Fault, Panic, Return, Goto
    <3>. QED  BY Zenon, <1>3, <3>1, <3>2, <3>3
  <2>3. reserved' = reserved /\ raced' = raced
    BY Zenon, <1>3 DEF Finalise, Move, Open, Cancel, Fault, Panic, history
  <2>. QED  BY Zenon, <1>0, <2>1, <2>2, <2>3, ReservationsKept
<1>4. ASSUME NEW c \in Client, Build(c) \/ Remove(c)
      PROVE  ReleasedUnlessRaced'
  <2>1. ~Is(c, "deleting") /\ poisoned' = poisoned /\ reserved' = reserved /\ raced' = raced
    BY Zenon, <1>4 DEF Build, Remove, Is
  <2>2. client' = client \/ \E s : client' = [client EXCEPT ![c] = s]
    BY Zenon, <1>4 DEF Build, Remove, Return, Goto
  <2>. QED  BY Zenon, <1>0, <1>1, <2>1, <2>2, ReservationsKept
<1>5. ASSUME NEW c \in Client, Drop(c)
      PROVE  ReleasedUnlessRaced'
  <2>1. ~Is(c, "deleting") /\ (poisoned => poisoned') /\ reserved' = reserved /\ raced' = raced
    BY Zenon, <1>5 DEF Drop, Leave, history, Is
  <2>2. \E s : client' = [client EXCEPT ![c] = s]
    BY Zenon, <1>5 DEF Drop, Leave, Return
  <2>. QED  BY Zenon, <1>0, <2>1, <2>2, ReservationsKept
<1>6. ASSUME NEW c \in Client, Denied(c)
      PROVE  ReleasedUnlessRaced'
  BY Zenon, <1>6 DEF Denied, Leave, ReleasedUnlessRaced
<1>7. CASE Crash
  BY Zenon, <1>7 DEF Crash, ReleasedUnlessRaced
<1>8. CASE Restart
  BY Zenon, <1>1, <1>8 DEF Restart
<1>9. CASE UNCHANGED vars
  BY Zenon, <1>1, <1>9 DEF vars
<1>. QED
  BY Zenon, <1>2, <1>3, <1>4, <1>5, <1>6, <1>7, <1>8, <1>9, <1>0, DeleteReleases, ResetReleases DEF Next

(* The schema reservation that the reset of a database left behind is gone *)
(* once reset_else_recreate_database has returned, unless another thread   *)
(* opened the database after the reset had released the lock.              *)
THEOREM Reservations == Spec => []ReleasedUnlessRaced
<1>1. Init => ReleasedUnlessRaced
  BY Zenon DEF Init, ReleasedUnlessRaced
<1>. QED  BY <1>1, Initial, NextStep, ReleasedStep, PTL DEF Spec
=============================================================================
