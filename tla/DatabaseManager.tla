-------------------------- MODULE DatabaseManager --------------------------
(***************************************************************************)
(* The map of open databases, the directories they live in, and the        *)
(* operations of database::database_manager on the two: put, delete,       *)
(* reset, and the preparation, finalisation and cancellation of an import. *)
(* Each operation runs under the write lock of the map; the changes it     *)
(* makes to the file system are steps of their own, so that an I/O error   *)
(* or a crash of the server may come between any two of them.              *)
(***************************************************************************)
EXTENDS Integers, FiniteSets

CONSTANTS
    Client,      \* threads that call the manager
    Nobody,      \* the holder of a free lock
    Name,        \* database names
    MaxFaults,   \* bound: I/O errors, and panics in the closing of a database
    MaxCrashes   \* bound: crashes of the server

ASSUME ManagerAssumption ==
    /\ Nobody \notin Client
    /\ Name # {}
    /\ MaxFaults \in Nat /\ MaxCrashes \in Nat

VARIABLES
    server,     \* "up", "down", or "failed": DatabaseManager::new returned an error
    databases,  \* the names in the map
    disk,       \* what the public and the import directory of a name hold
    client,     \* what each thread is doing
    holder,     \* the thread that holds the write lock while it changes the disk
    poisoned,   \* a thread panicked with the write lock
    reserved,   \* databases whose schema reservation a reset left behind
    faults, crashes,
    kept,       \* history: a put or a finalisation succeeded, no deletion began since
    gone,       \* history: a deletion succeeded, nothing made the name since
    torn,       \* history: names whose public directory an error or a crash left half done
    raced       \* history: reserved databases that were in use when their reset went on to delete

vars == <<server, databases, disk, client, holder, poisoned, reserved,
          faults, crashes, kept, gone, torn, raced>>
history == <<faults, crashes, kept, gone, torn, raced>>

Place == {"public", "import"}

(* "bare" is a directory without a log, which Database::load refuses;      *)
(* "logged" has a log but not all the rest, which load makes up for.       *)
Contents == {"none", "bare", "logged", "whole"}

Doing == {"idle", "using", "importing", "building", "removing", "moving", "opening", "deleting", "putting"}

Task(at, n, place, reset) == [at |-> at, name |-> n, place |-> place, reset |-> reset]
Idle == Task("idle", CHOOSE n \in Name : TRUE, "public", FALSE)

TypeOK ==
    /\ server \in {"up", "down", "failed"}
    /\ databases \subseteq Name
    /\ disk \in [Place -> [Name -> Contents]]
    /\ client \in [Client -> [at: Doing, name: Name, place: Place, reset: BOOLEAN]]
    /\ holder \in Client \cup {Nobody}
    /\ poisoned \in BOOLEAN
    /\ reserved \subseteq databases
    /\ faults \in 0 .. MaxFaults /\ crashes \in 0 .. MaxCrashes
    /\ kept \subseteq Name /\ gone \subseteq Name /\ torn \subseteq Name /\ raced \subseteq Name

Init ==
    /\ server = "up"
    /\ databases = {} /\ reserved = {}
    /\ disk = [p \in Place |-> [n \in Name |-> "none"]]
    /\ client = [c \in Client |-> Idle]
    /\ holder = Nobody /\ poisoned = FALSE
    /\ faults = 0 /\ crashes = 0
    /\ kept = {} /\ gone = {} /\ torn = {} /\ raced = {}

------------------------------------------------------------------------------
(* The lock, the assertions and the steps the operations share.            *)

\* self.databases.write(): granted, and not poisoned
Locks == server = "up" /\ holder = Nobody /\ ~poisoned

Is(c, at) == client[c].at = at
Goto(c, n, at, place, reset) ==
    client' = [client EXCEPT ![c] = Task(at, n, place, reset)]
Return(c) == client' = [client EXCEPT ![c] = Idle]

Exists(place, n) == disk[place][n] # "none"

\* the assertions of exists_public and exists_import
PublicAgrees(n) == Exists("public", n) <=> n \in databases
ImportAgrees(n) == Exists("import", n) => n \notin databases

\* the operation returns, with an error or without, and changes neither map nor disk;
\* a failed assertion unwinds through the guard and poisons the lock
Leave(c, assertion) ==
    /\ poisoned' = (poisoned \/ ~assertion)
    /\ Return(c)
    /\ UNCHANGED <<server, databases, disk, holder, reserved, history>>

\* Database::create begins with the directory, which the lock's holder goes on to fill
BeginBuild(c, n, place) ==
    /\ disk' = [disk EXCEPT ![place][n] = "bare"]
    /\ holder' = c
    /\ Goto(c, n, "building", place, FALSE)
    /\ gone' = IF place = "public" THEN gone \ {n} ELSE gone
    /\ UNCHANGED <<server, databases, poisoned, reserved, faults, crashes, kept, torn, raced>>

\* the database is in the map and the caller is told so
Insert(n) ==
    /\ databases' = databases \cup {n}
    /\ kept' = kept \cup {n}
    /\ gone' = gone \ {n}
    /\ torn' = torn \ {n}

\* the database is in the map already, and the caller is told the same
Confirm(c, n) ==
    /\ kept' = kept \cup {n}
    /\ Return(c)
    /\ UNCHANGED <<server, databases, disk, holder, poisoned, reserved,
                   faults, crashes, gone, torn, raced>>

Loads(n) == disk["public"][n] \in {"logged", "whole"}

------------------------------------------------------------------------------
(* The operations of the manager.                                          *)

\* put_database_unrestricted, for a caller and for the last part of a reset
Put(c, n) ==
    /\ Locks
    /\ Is(c, "idle") \/ (Is(c, "putting") /\ client[c].name = n)
    /\ \/ Exists("import", n) /\ Leave(c, ImportAgrees(n))
       \/ ~Exists("import", n) /\ n \in databases /\ Confirm(c, n)
       \/ /\ ~Exists("import", n) /\ n \notin databases
          /\ \/ ~Exists("public", n) /\ BeginBuild(c, n, "public")
             \/ Exists("public", n) /\ ~Loads(n) /\ Leave(c, TRUE)
             \/ /\ Loads(n)
                /\ disk' = [disk EXCEPT !["public"][n] = "whole"]
                /\ Insert(n)
                /\ Return(c)
                /\ UNCHANGED <<server, holder, poisoned, reserved, faults, crashes, raced>>

\* mutant: the reference count is not looked at
InUseNever(n) == FALSE

\* Arc::try_unwrap fails
InUse(n) == \E d \in Client : Is(d, "using") /\ client[d].name = n

\* delete_database, for a caller and for the second part of a reset
Delete(c, n) ==
    /\ Locks
    /\ Is(c, "idle") \/ (Is(c, "deleting") /\ client[c].name = n)
    /\ \/ n \notin databases /\ Leave(c, TRUE)
       \/ /\ n \in databases /\ InUse(n)
          /\ Return(c)
          /\ raced' = raced \cup (reserved \cap {n})
          /\ UNCHANGED <<server, databases, disk, holder, poisoned, reserved,
                         faults, crashes, kept, gone, torn>>
       \/ /\ n \in databases /\ ~InUse(n)
          /\ databases' = databases \ {n}
          /\ reserved' = reserved \ {n} /\ raced' = raced \ {n}
          /\ kept' = kept \ {n}
          /\ holder' = c
          /\ Goto(c, n, "removing", "public", Is(c, "deleting"))
          /\ UNCHANGED <<server, disk, poisoned, faults, crashes, gone, torn>>

\* mutant: the failed reset is returned to the caller
ResetGivingUp(c, n) ==
    /\ Locks
    /\ Is(c, "idle")
    /\ reserved' = IF n \in databases /\ ~InUse(n) THEN reserved \cup {n} ELSE reserved
    /\ UNCHANGED <<server, databases, disk, client, holder, poisoned, history>>

(* reset_else_recreate_database.  The reset of an unused database reserves *)
(* its schema lock and then fails, for the database's own threads share    *)
(* its storage; the deletion that follows takes the map's lock anew.       *)
Reset(c, n) ==
    /\ Locks
    /\ Is(c, "idle")
    /\ Goto(c, n, IF n \in databases THEN "deleting" ELSE "putting", "public", FALSE)
    /\ reserved' = IF n \in databases /\ ~InUse(n) THEN reserved \cup {n} ELSE reserved
    /\ UNCHANGED <<server, databases, disk, holder, poisoned, history>>

\* prepare_imported_database
Prepare(c, n) ==
    /\ Locks
    /\ Is(c, "idle")
    /\ \/ (n \in databases \/ Exists("public", n)) /\ Leave(c, PublicAgrees(n))
       \/ /\ n \notin databases /\ ~Exists("public", n)
          /\ \/ Exists("import", n) /\ Leave(c, ImportAgrees(n))
             \/ ~Exists("import", n) /\ BeginBuild(c, n, "import")

\* finalise_imported_database, to the drop of the imported database; when the name exists
\* in both places the import is removed (AlreadyExists)
Finalise(c) ==
    LET n == client[c].name
        asserted == Exists("import", n) /\ ImportAgrees(n) /\ PublicAgrees(n)
        next == IF Exists("public", n) THEN "removing" ELSE "moving" IN
    /\ Locks
    /\ Is(c, "importing")
    /\ poisoned' = ~asserted
    /\ holder' = IF asserted THEN c ELSE Nobody
    /\ client' = [client EXCEPT ![c] = IF asserted THEN Task(next, n, "import", FALSE) ELSE Idle]
    /\ UNCHANGED <<server, databases, disk, reserved, history>>

\* move_directory_to_data
Move(c) ==
    LET n == client[c].name IN
    /\ holder = c
    /\ Is(c, "moving")
    /\ disk' = [disk EXCEPT !["import"][n] = "none", !["public"][n] = disk["import"][n]]
    /\ gone' = gone \ {n}
    /\ Goto(c, n, "opening", "public", FALSE)
    /\ UNCHANGED <<server, databases, holder, poisoned, reserved, faults, crashes, kept, torn, raced>>

\* the opening of the renamed directory and its entry in the map
Open(c) ==
    LET n == client[c].name IN
    /\ holder = c
    /\ Is(c, "opening")
    /\ disk' = [disk EXCEPT !["public"][n] = "whole"]
    /\ Insert(n)
    /\ holder' = Nobody
    /\ Return(c)
    /\ UNCHANGED <<server, poisoned, reserved, faults, crashes, raced>>

\* cancel_database_import, called when an importer is dropped before it is done
Cancel(c) ==
    LET n == client[c].name
        found == Exists("import", n) /\ ImportAgrees(n) IN
    /\ Locks
    /\ Is(c, "importing")
    /\ poisoned' = ~ImportAgrees(n)
    /\ holder' = IF found THEN c ELSE Nobody
    /\ client' = [client EXCEPT ![c] = IF found THEN Task("removing", n, "import", FALSE) ELSE Idle]
    /\ UNCHANGED <<server, databases, disk, reserved, history>>

\* database(name): a transaction, a query or an export holds the database from here
Get(c, n) ==
    /\ Locks
    /\ Is(c, "idle") /\ n \in databases
    /\ Goto(c, n, "using", "public", FALSE)
    /\ UNCHANGED <<server, databases, disk, holder, poisoned, reserved, history>>

Drop(c) == server = "up" /\ Is(c, "using") /\ Leave(c, TRUE)

\* every operation that meets a poisoned lock returns an error or panics itself
Denied(c) ==
    /\ server = "up" /\ poisoned
    /\ client[c].at \in {"importing", "deleting", "putting"}
    /\ Leave(c, TRUE)

------------------------------------------------------------------------------
(* The steps on the disk, the faults and the restart.                      *)

Filled(d) == IF d = "bare" THEN "logged" ELSE "whole"
Emptied(d) == CASE d = "whole" -> "logged" [] d = "logged" -> "bare" [] OTHER -> "none"

\* Database::create after the directory: the log, then the keyspaces and the caches
Build(c) ==
    LET n == client[c].name
        place == client[c].place
        next == Filled(disk[place][n]) IN
    /\ holder = c
    /\ Is(c, "building")
    /\ disk' = [disk EXCEPT ![place][n] = next]
    /\ \/ next # "whole" /\ UNCHANGED <<databases, client, holder, kept, gone, torn>>
       \/ /\ next = "whole" /\ holder' = Nobody
          /\ \/ place = "public" /\ Insert(n) /\ Return(c)
             \/ /\ place = "import"
                /\ Goto(c, n, "importing", "import", FALSE)
                /\ UNCHANGED <<databases, kept, gone, torn>>
    /\ UNCHANGED <<server, poisoned, reserved, faults, crashes, raced>>

\* mutant: the deletion leaves the directory it has emptied
RemoveContents(c) ==
    LET n == client[c].name
        place == client[c].place
        next == Emptied(disk[place][n]) IN
    /\ holder = c
    /\ Is(c, "removing")
    /\ disk' = [disk EXCEPT ![place][n] = next]
    /\ \/ next # "bare" /\ UNCHANGED <<client, holder, gone>>
       \/ /\ next = "bare" /\ holder' = Nobody
          /\ gone' = IF place = "public" THEN gone \cup {n} ELSE gone
          /\ IF client[c].reset THEN Goto(c, n, "putting", "public", FALSE) ELSE Return(c)
    /\ UNCHANGED <<server, databases, poisoned, reserved, faults, crashes, kept, torn, raced>>

\* Database::delete: the keyspaces, the log, the directory; a reset goes on to put
Remove(c) ==
    LET n == client[c].name
        place == client[c].place
        next == Emptied(disk[place][n]) IN
    /\ holder = c
    /\ Is(c, "removing")
    /\ disk' = [disk EXCEPT ![place][n] = next]
    /\ \/ next # "none" /\ UNCHANGED <<client, holder, gone>>
       \/ /\ next = "none" /\ holder' = Nobody
          /\ gone' = IF place = "public" THEN gone \cup {n} ELSE gone
          /\ IF client[c].reset THEN Goto(c, n, "putting", "public", FALSE) ELSE Return(c)
    /\ UNCHANGED <<server, databases, poisoned, reserved, faults, crashes, kept, torn, raced>>

HalfDone(c) == IF holder = c /\ client[c].place = "public" THEN {client[c].name} ELSE {}

\* an I/O error: the operation returns with `?`, what it did to the disk stays
Fault(c) ==
    /\ holder = c /\ faults < MaxFaults
    /\ faults' = faults + 1
    /\ holder' = Nobody
    /\ torn' = torn \cup HalfDone(c)
    /\ Return(c)
    /\ UNCHANGED <<server, databases, disk, poisoned, reserved, crashes, kept, gone, raced>>

\* what a panic in the closing of a database unwinds through: its delete, or its drop
Closing(c) ==
    Is(c, "moving") \/ (Is(c, "removing") /\ disk[client[c].place][client[c].name] = "whole")

(* A panic with the write lock held.  Before anything is removed,          *)
(* Database::delete stops the database's threads (the drop of              *)
(* IntervalRunner expects each to answer) and expects to be the last owner *)
(* of what they shared; a finalisation drops the imported database.        *)
Panic(c) ==
    /\ holder = c /\ faults < MaxFaults
    /\ Closing(c)
    /\ faults' = faults + 1
    /\ poisoned' = TRUE
    /\ holder' = Nobody
    /\ torn' = torn \cup HalfDone(c)
    /\ Return(c)
    /\ UNCHANGED <<server, databases, disk, reserved, crashes, kept, gone, raced>>

\* the process dies: the disk stays
Crash ==
    /\ server = "up" /\ crashes < MaxCrashes
    /\ crashes' = crashes + 1
    /\ server' = "down"
    /\ torn' = torn \cup UNION {HalfDone(c) : c \in Client}
    /\ databases' = {} /\ reserved' = {} /\ raced' = {}
    /\ client' = [c \in Client |-> Idle]
    /\ holder' = Nobody /\ poisoned' = FALSE
    /\ UNCHANGED <<disk, faults, kept, gone>>

\* DatabaseManager::new: initialise_databases, then cleanup_import_directory
Restart ==
    LET found == {n \in Name : Exists("public", n)} IN
    /\ server = "down"
    /\ \/ /\ \E n \in found : ~Loads(n)
          /\ server' = "failed"
          /\ UNCHANGED <<databases, disk, torn>>
       \/ /\ \A n \in found : Loads(n)
          /\ server' = "up"
          /\ databases' = found
          /\ disk' = [p \in Place |-> [n \in Name |->
                        IF p = "public" /\ n \in found THEN "whole" ELSE "none"]]
          /\ torn' = torn \ found
    /\ UNCHANGED <<client, holder, poisoned, reserved, faults, crashes, kept, gone, raced>>

Next ==
    \/ \E c \in Client, n \in Name :
          Put(c, n) \/ Delete(c, n) \/ Reset(c, n) \/ Prepare(c, n) \/ Get(c, n)
    \/ \E c \in Client :
          \/ Finalise(c) \/ Move(c) \/ Open(c) \/ Cancel(c) \/ Drop(c) \/ Denied(c)
          \/ Build(c) \/ Remove(c) \/ Fault(c) \/ Panic(c)
    \/ Crash
    \/ Restart

Spec == Init /\ [][Next]_vars

------------------------------------------------------------------------------
(* What the manager promises.                                              *)

(* A put or a finalised import that succeeded is still there after any     *)
(* crash and listed whenever the server runs; a deletion that succeeded    *)
(* leaves nothing behind that a restart could bring back.                  *)
OutcomesLast ==
    /\ \A n \in kept : disk["public"][n] = "whole"
    /\ \A n \in gone : ~Exists("public", n)
    /\ server = "up" => kept \subseteq databases

(* No thread holds a database that is deleted or being deleted: delete     *)
(* goes ahead only when it has unwrapped the last reference.               *)
HandlesLive ==
    \A c \in Client : Is(c, "using") =>
        client[c].name \in databases /\ disk["public"][client[c].name] = "whole"

(* A name has at most one directory: put refuses a name that is being      *)
(* imported, an import refuses a name that exists, and the lock is not     *)
(* released between the test and the first directory.  The AlreadyExists   *)
(* branch of finalise_imported_database is therefore never taken.          *)
OneDirectory ==
    \A n \in Name : ~(Exists("public", n) /\ Exists("import", n))

(* The assertions on directories and map, which poison the lock for every  *)
(* database when they fail, fail only after an error or a panic left a     *)
(* directory without an entry.                                             *)
PanicsOnlyAfterError == poisoned => faults > 0

(* The server fails to start only over a directory whose creation or       *)
(* deletion a crash or an error cut short; an interrupted import never     *)
(* prevents the start.                                                     *)
StartsUnlessTorn == server = "failed" => torn # {}

(* The schema reservation a failed reset leaves on a database is gone once *)
(* the reset has returned, unless the database was opened in between.      *)
ReleasedUnlessRaced ==
    ~poisoned => reserved \subseteq raced \cup {client[c].name : c \in {d \in Client : Is(d, "deleting")}}
=============================================================================
