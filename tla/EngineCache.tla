---------------------------- MODULE EngineCache ----------------------------
(***************************************************************************)
(* The analyzer database that an external engine keeps between commands:   *)
(* `.systemlens/codeql/java-database` or `.systemlens/joern/cpg.bin`, with *)
(* a fingerprint file, the stamp, that says from what it was built.        *)
(*                                                                         *)
(* A command projects the sources, looks the cache up, builds a database   *)
(* in its temporary directory when the stamp does not match, replaces the  *)
(* cache in several file operations, and queries the database until it     *)
(* closes the session.  `systemlens index` does all this inside its SQLite *)
(* transaction; `systemlens analyze compare-engines` opens the store       *)
(* read-only and takes no lock.                                            *)
(*                                                                         *)
(* Data abstraction.  A projected source tree, its fingerprint and the     *)
(* answers of a database built from it are one value of Sources.           *)
(***************************************************************************)
EXTENDS Naturals

CONSTANTS
    Indexers,        \* processes that run `systemlens index`
    Comparers,       \* processes that run `analyze compare-engines`
    NoRun,           \* nobody holds the write lock
    Sources,         \* contents of the projected sources
    None,            \* no database, no stamp, no answer
    Broken,          \* the answer of a database that is not whole
    Engines,         \* the engines considered, of "codeql" and "joern"
    CrossDevices,    \* may the temporary directory be on another file system?
    CleanupFails,    \* may removing the moved temporary database fail?
    MaxEdits,        \* bound: changes of the sources
    MaxTroubles      \* bound: crashes, analyzer failures and I/O errors

ASSUME NamesAssumption == /\ NoRun \notin Indexers \cup Comparers
                          /\ None \notin Sources /\ Broken \notin Sources
                          /\ None # Broken
ASSUME OptionsAssumption == /\ Engines \subseteq {"codeql", "joern"}
                            /\ CrossDevices \subseteq BOOLEAN
                            /\ CleanupFails \in BOOLEAN
ASSUME BoundsAssumption == MaxEdits \in Nat /\ MaxTroubles \in Nat

VARIABLES
    engine,     \* whose cache this is
    crossDevice, \* is the temporary directory on another file system?
    sources,    \* what a projection of the repository contains now
    edits, troubles,
    lock,       \* the process that holds the store's write lock
    cached,     \* the database in the cache directory
    stamp,      \* the fingerprint file beside it
    run         \* the local state of each process

vars == <<engine, crossDevice, sources, edits, troubles, lock, cached, stamp, run>>

Runs == Indexers \cup Comparers

\* A database directory or file: what it was built from, and whether all of
\* it is there.  One without content does not exist.
Database == [of : Sources \cup {None}, whole : BOOLEAN]
NoDatabase == [of |-> None, whole |-> FALSE]
Whole(f) == [of |-> f, whole |-> TRUE]
Part(f)  == [of |-> f, whole |-> FALSE]

Phases == {"idle", "lookup", "create", "built", "unstamped", "removing",
           "clear", "copying", "copied", "moved", "open"}

RunState == [pc : Phases,
             fingerprint : Sources \cup {None},
             temporary : Database,               \* `database`, `built`
             at : {"cache", "temporary"},        \* the path that was yielded
             answer : Sources \cup {None, Broken}]

IdleRun == [pc |-> "idle", fingerprint |-> None, temporary |-> NoDatabase,
            at |-> "temporary", answer |-> None]

Init == /\ engine \in Engines /\ crossDevice \in CrossDevices
        /\ sources \in Sources
        /\ edits = 0 /\ troubles = 0
        /\ lock = NoRun
        /\ cached = NoDatabase /\ stamp = None
        /\ run = [r \in Runs |-> IdleRun]

Goto(r, s) == run' = [run EXCEPT ![r] = s]
At(r, pc) == run[r].pc = pc
Env == <<engine, crossDevice, sources, edits>>

-----------------------------------------------------------------------------
\* The command starts; an index run takes the write lock.  The sources are
\* copied and the copy is hashed.
Project(r) ==
    /\ At(r, "idle")
    /\ IF r \in Indexers THEN lock = NoRun /\ lock' = r ELSE UNCHANGED lock
    /\ Goto(r, [IdleRun EXCEPT !.pc = "lookup", !.fingerprint = sources])
    /\ UNCHANGED <<Env, troubles, cached, stamp>>

\* Mutant: a database in the cache is reused whatever its stamp says.
MatchesAnyStamp(s) == cached.of # None

\* The stamp is this projection's and the database is there.
Matches(s) == stamp = s.fingerprint /\ cached.of # None

Reuse(r) ==
    /\ At(r, "lookup") /\ Matches(run[r])
    /\ Goto(r, [run[r] EXCEPT !.pc = "open", !.at = "cache"])
    /\ UNCHANGED <<Env, troubles, lock, cached, stamp>>

\* No match.  A removal that has begun may have taken codeql-database.yml,
\* which CodeQL's lookup asks for; Joern's asks for the one file that is there.
Miss(r) ==
    /\ At(r, "lookup")
    /\ ~Matches(run[r]) \/ (engine = "codeql" /\ ~cached.whole)
    /\ Goto(r, [run[r] EXCEPT !.pc = "create"])
    /\ UNCHANGED <<Env, troubles, lock, cached, stamp>>

Create(r) ==
    /\ At(r, "create")
    /\ Goto(r, [run[r] EXCEPT !.pc = "built",
                              !.temporary = Whole(run[r].fingerprint)])
    /\ UNCHANGED <<Env, troubles, lock, cached, stamp>>

-----------------------------------------------------------------------------
(* Replacing the cache                                                     *)

\* Mutant: the old stamp stays until the new one is written.
StampKept(s) == stamp

StampWhileReplacing(s) == None

RemoveStamp(r) ==
    /\ At(r, "built")
    /\ stamp' = StampWhileReplacing(run[r])
    /\ Goto(r, [run[r] EXCEPT !.pc = "unstamped"])
    /\ UNCHANGED <<Env, troubles, lock, cached>>

\* What a removal that has begun leaves until it ends.
Remains(db) == [db EXCEPT !.whole = FALSE]

\* CodeQL: the old database is removed file by file.
StartRemoval(r) ==
    /\ engine = "codeql" /\ At(r, "unstamped")
    /\ cached' = IF cached.of = None THEN cached ELSE Remains(cached)
    /\ Goto(r, [run[r] EXCEPT
                  !.pc = IF cached.of = None THEN "clear" ELSE "removing"])
    /\ UNCHANGED <<Env, troubles, lock, stamp>>

EndRemoval(r) ==
    /\ At(r, "removing")
    /\ cached' = NoDatabase
    /\ Goto(r, [run[r] EXCEPT !.pc = "clear"])
    /\ UNCHANGED <<Env, troubles, lock, stamp>>

\* shutil.move puts the database inside a directory that is there again and
\* leaves that one's content alone.
Move(r) ==
    LET s     == run[r]
        there == cached.of # None
    IN
    /\ At(r, "clear")
    /\ cached' = IF there THEN cached
                 ELSE IF crossDevice THEN Part(s.fingerprint)
                 ELSE Whole(s.fingerprint)
    /\ Goto(r, IF crossDevice
               THEN [s EXCEPT !.pc = IF there THEN "copied" ELSE "copying"]
               ELSE [s EXCEPT !.pc = "moved", !.temporary = NoDatabase])
    /\ UNCHANGED <<Env, troubles, lock, stamp>>

\* Joern: the graph is copied over the old one.
StartCopy(r) ==
    /\ engine = "joern" /\ At(r, "unstamped")
    /\ cached' = Part(run[r].fingerprint)
    /\ Goto(r, [run[r] EXCEPT !.pc = "copying"])
    /\ UNCHANGED <<Env, troubles, lock, stamp>>

\* The copy ends; it is whole unless another process wrote there meanwhile.
EndCopy(r) ==
    LET s == run[r] IN
    /\ At(r, "copying")
    /\ cached' = IF cached = Part(s.fingerprint) THEN Whole(s.fingerprint)
                                                 ELSE cached
    /\ Goto(r, [s EXCEPT !.pc = IF engine = "codeql" THEN "copied" ELSE "moved"])
    /\ UNCHANGED <<Env, troubles, lock, stamp>>

\* A move across file systems removes the temporary database at its end.
Cleanup(r) ==
    /\ At(r, "copied")
    /\ Goto(r, [run[r] EXCEPT !.pc = "moved", !.temporary = NoDatabase])
    /\ UNCHANGED <<Env, troubles, lock, cached, stamp>>

WriteStamp(r) ==
    /\ At(r, "moved")
    /\ stamp' = run[r].fingerprint
    /\ Goto(r, [run[r] EXCEPT !.pc = "open", !.at = "cache"])
    /\ UNCHANGED <<Env, troubles, lock, cached>>

\* Mutant: a database that was moved away is still looked for in its place.
AlwaysTemporary(s) == "temporary"

\* Where the database is after an operation on the cache failed.
Location(s) == IF engine = "joern" \/ s.temporary.of # None THEN "temporary"
                                                            ELSE "cache"

\* An operation on the cache fails (OSError) and what is left of the database
\* is used where it is.
KeepWhereItIs(r) ==
    LET s    == run[r]
        left == IF At(r, "copied") THEN Remains(s.temporary) ELSE s.temporary
    IN
    /\ s.pc \in {"built", "unstamped", "removing", "clear", "copying", "copied",
                 "moved"}
    /\ At(r, "copied") => CleanupFails
    /\ troubles < MaxTroubles
    /\ troubles' = troubles + 1
    /\ Goto(r, [s EXCEPT !.pc = "open", !.at = Location(s), !.temporary = left])
    /\ UNCHANGED <<Env, lock, cached, stamp>>

-----------------------------------------------------------------------------
(* Using the database                                                      *)

Opened(s) == IF s.at = "cache" THEN cached ELSE s.temporary

\* One query of the session.  Part of a database answers something else.
\* CodeQL reads the database for each query; Joern exports it once.
Query(r) ==
    LET db == Opened(run[r]) IN
    /\ At(r, "open") /\ db.of # None
    /\ engine = "joern" => run[r].answer = None
    /\ Goto(r, [run[r] EXCEPT !.answer = IF db.whole THEN db.of ELSE Broken])
    /\ UNCHANGED <<Env, troubles, lock, cached, stamp>>

End(r) ==
    /\ Goto(r, IdleRun)
    /\ lock' = IF lock = r THEN NoRun ELSE lock

Close(r) ==
    /\ At(r, "open")
    /\ End(r)
    /\ UNCHANGED <<Env, troubles, cached, stamp>>

\* The process dies, or the analyzer fails or reaches its deadline.
Stop(r) ==
    /\ ~At(r, "idle") /\ troubles < MaxTroubles
    /\ End(r)
    /\ troubles' = troubles + 1
    /\ UNCHANGED <<Env, cached, stamp>>

Edit(v) ==
    /\ edits < MaxEdits /\ v # sources
    /\ sources' = v /\ edits' = edits + 1
    /\ UNCHANGED <<engine, crossDevice, troubles, lock, cached, stamp, run>>

Step(r) == \/ Project(r) \/ Reuse(r) \/ Miss(r) \/ Create(r)
           \/ RemoveStamp(r) \/ StartRemoval(r) \/ EndRemoval(r) \/ Move(r)
           \/ StartCopy(r) \/ EndCopy(r) \/ Cleanup(r) \/ WriteStamp(r)
           \/ KeepWhereItIs(r) \/ Query(r) \/ Close(r) \/ Stop(r)

Next == (\E r \in Runs : Step(r)) \/ (\E v \in Sources : Edit(v))

Spec == Init /\ [][Next]_vars

-----------------------------------------------------------------------------
(* Properties                                                              *)

\* Every variable keeps its type; a database without content is not whole.
TypeOK == /\ engine \in Engines /\ crossDevice \in CrossDevices
          /\ sources \in Sources
          /\ edits \in 0..MaxEdits /\ troubles \in 0..MaxTroubles
          /\ lock \in Runs \cup {NoRun}
          /\ cached \in Database /\ (cached.of = None => ~cached.whole)
          /\ stamp \in Sources \cup {None}
          /\ run \in [Runs -> RunState]

\* A stamp vouches for the database beside it, whatever was interrupted: it is
\* whole and built from the stamped sources, so that the next command with
\* this fingerprint may reuse it (_store_cached_database, JoernEngine._cpg).
StampVouches == stamp # None => cached = Whole(stamp)

\* A session only gets answers of a whole database of its own projection,
\* however its database was found, built, moved or kept.
AnswersAreOfProjection ==
    \A r \in Runs : run[r].answer \in {None, run[r].fingerprint}

\* A session always has a database to ask: none is looked for where it was
\* moved away from.
OpenedIsThere ==
    \A r \in Runs : At(r, "open") => Opened(run[r]).of # None

=============================================================================
