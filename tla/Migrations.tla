----------------------------- MODULE Migrations -----------------------------
(***************************************************************************)
(* Application migrations (internal/db/migrate.go, `maubase migrate`): the *)
(* numbered files of a directory, the rows of schema_migrations and the    *)
(* schema the executed files have built.                                   *)
(*                                                                         *)
(* up, down, redo and to are loops around one transaction per file, run by *)
(* a CLI process or by a booting server, so commands of several processes  *)
(* interleave between those transactions, each may stop at any of them,    *)
(* and files come and go while they run.  A file is its place in filename  *)
(* order; a migration's SQL either takes effect as a whole or fails.       *)
(***************************************************************************)
EXTENDS Naturals, FiniteSets

CONSTANTS Processes,  \* processes that may run a command at the same time
          Files,      \* migration files, by place in filename order
          NoDown,     \* files without a "-- +migrate Down" section
          MaxClock,   \* bound on the seconds that pass
          MaxRevert   \* bound on the n of down and redo

ASSUME MigrationsAssumption ==
    /\ Files \subseteq Nat /\ Files # {} /\ IsFiniteSet(Files)
    /\ NoDown \subseteq Files
    /\ MaxClock \in Nat /\ MaxRevert \in Nat

VARIABLES
    dir,       \* the files in the directory
    records,   \* schema_migrations: [file, at], at in whole seconds
    schema,    \* files whose Up is in effect
    ranBefore, \* <<f, g>>: both are in effect, and f's Up ran before g's
    clock,     \* CURRENT_TIMESTAMP
    cmd,       \* cmd[p]: the command p is running
    outcome,   \* the command the last step completed, alone and without error
    ordinary,  \* history: no two commands overlapped, no file was removed under
               \* a running one, none came out of order but for new's padding
    inOrder    \* history: the same without that exception

migVars == <<dir, records, schema, ranBefore, clock, cmd, outcome, ordinary, inOrder>>

Records == [file : Files, at : 0..MaxClock]

\* A worklist is a set of entries [file, at], worked off in the order of Older
\* or against it; a listing of the directory has no times, so that its order is
\* that of the filenames.  n: how many to revert; target: of "to"; names: what
\* is still to look at or process; done: records found or reverted; todo: files
\* found pending; before: the records when it started, kept while it is alone:
\* with no other command in flight and the files as they were.
Commands == [at : {"idle", "check", "apply", "list", "revert", "scan"},
             op : {"up", "down", "redo", "to"}, n : Nat, target : Files,
             names : SUBSET Records, done : SUBSET Records, todo : SUBSET Records,
             before : SUBSET Records, alone : BOOLEAN]

NoCommand == [at |-> "idle", op |-> "up", n |-> 0, target |-> CHOOSE f \in Files : TRUE,
              names |-> {}, done |-> {}, todo |-> {}, before |-> {}, alone |-> FALSE]

MigTypeOK ==
    /\ dir \subseteq Files
    /\ records \subseteq Records
    /\ schema \subseteq Files
    /\ ranBefore \subseteq schema \X schema
    /\ clock \in 0..MaxClock
    /\ cmd \in [Processes -> Commands]
    /\ outcome \subseteq Commands
    /\ ordinary \in BOOLEAN /\ inOrder \in BOOLEAN

MigInit ==
    /\ dir = {} /\ records = {} /\ schema = {} /\ ranBefore = {} /\ clock = 0
    /\ cmd = [p \in Processes |-> NoCommand]
    /\ outcome = {} /\ ordinary = TRUE /\ inOrder = TRUE

-----------------------------------------------------------------------------
FilesOf(S) == {r.file : r \in S}

Applied == FilesOf(records)

\* The files of the directory by name: sort.Strings.
Listing == {[file |-> f, at |-> 0] : f \in dir}

\* ORDER BY applied_at, version.
Older(r, x) == r.at < x.at \/ (r.at = x.at /\ r.file < x.file)

Oldest(r, S) == \A x \in S \ {r} : Older(r, x)
Newest(r, S) == \A x \in S \ {r} : Older(x, r)

\* N is what ORDER BY ... DESC LIMIT n takes of S.
TakesNewest(N, S, n) ==
    /\ N \subseteq S
    /\ \A r \in N, x \in S \ N : Older(x, r)
    /\ Cardinality(N) = n \/ (N = S /\ Cardinality(N) < n)

\* The commands in flight, none of them alone any more.
Disturbed == [p \in Processes |-> IF cmd[p] = NoCommand THEN NoCommand
                                  ELSE [cmd[p] EXCEPT !.alone = FALSE, !.before = {}]]

Nobody == \A p \in Processes : cmd[p] = NoCommand

Start(p, c) ==
    /\ cmd[p] = NoCommand
    /\ cmd' = [Disturbed EXCEPT ![p] =
                  [c EXCEPT !.before = IF Nobody THEN records ELSE {}, !.alone = Nobody]]
    /\ ordinary' = (ordinary /\ Nobody)
    /\ inOrder' = (inOrder /\ Nobody)
    /\ outcome' = {}
    /\ UNCHANGED <<dir, records, schema, ranBefore, clock>>

\* The command goes on as c, or is complete when c has nothing left.
Continue(p, c, over) ==
    /\ cmd' = [cmd EXCEPT ![p] = IF over THEN NoCommand ELSE c]
    /\ outcome' = IF over /\ c.alone THEN {c} ELSE {}

\* An error, or the process ends: what has been committed stays.
Stop(p) ==
    /\ cmd[p] # NoCommand
    /\ cmd' = [cmd EXCEPT ![p] = NoCommand]
    /\ outcome' = {}
    /\ UNCHANGED <<dir, records, schema, ranBefore, clock, ordinary, inOrder>>

-----------------------------------------------------------------------------
(* The directory and the clock.                                            *)

FilesChange ==
    /\ cmd' = Disturbed
    /\ outcome' = {}
    /\ UNCHANGED <<records, schema, ranBefore, clock>>

\* newMigrationFile: one past the highest number there is, in as many digits.
NewMigrationFile(f) ==
    /\ \A g \in dir : f > g
    /\ dir' = dir \cup {f}
    /\ FilesChange
    /\ ordinary' = (ordinary /\ \A g \in Applied : f > g)
    /\ inOrder' = (inOrder /\ \A g \in Applied : f > g)

\* newMigrationFile when the number outgrows the digits of the highest file:
\* 10_ sorts before 9_, and 10000_ before 9999_.
NewOutgrowsPadding(f) ==
    /\ f \notin dir /\ \E g \in dir : f < g
    /\ dir' = dir \cup {f}
    /\ FilesChange
    /\ inOrder' = FALSE
    /\ UNCHANGED ordinary

\* A file comes from elsewhere, say another branch, at any place.
MergeFile(f) ==
    /\ f \notin dir
    /\ dir' = dir \cup {f}
    /\ FilesChange
    /\ ordinary' = (ordinary /\ \A g \in dir \cup Applied : f > g)
    /\ inOrder' = (inOrder /\ \A g \in dir \cup Applied : f > g)

\* An applied file is deleted.  (Deleting a pending one is as if it had never
\* come, or an error like any other to a command that has listed it.)
RemoveFile(f) ==
    /\ f \in dir \cap Applied
    /\ dir' = dir \ {f}
    /\ FilesChange
    /\ ordinary' = (ordinary /\ Nobody)
    /\ inOrder' = (inOrder /\ Nobody)

Tick ==
    /\ clock < MaxClock
    /\ clock' = clock + 1
    /\ outcome' = {}
    /\ UNCHANGED <<dir, records, schema, ranBefore, cmd, ordinary, inOrder>>

-----------------------------------------------------------------------------
(* Applying.                                                               *)

\* MigrateDirApplied lists the directory once.
Up(p) ==
    Start(p, [NoCommand EXCEPT !.at = "check", !.op = "up", !.names = Listing])

\* applyMigrations' SELECT COUNT for the next file; a recorded one is skipped.
Check(p) ==
    /\ cmd[p].at = "check"
    /\ \E r \in cmd[p].names :
          /\ Oldest(r, cmd[p].names)
          /\ cmd' = IF r.file \in Applied THEN [cmd EXCEPT ![p].names = @ \ {r}]
                                         ELSE [cmd EXCEPT ![p].at = "apply"]
    /\ outcome' = {}
    /\ UNCHANGED <<dir, records, schema, ranBefore, clock, ordinary, inOrder>>

\* The end of applyMigrations' loop.
UpToDate(p) ==
    /\ cmd[p].at = "check" /\ cmd[p].names = {}
    /\ Continue(p, cmd[p], TRUE)
    /\ UNCHANGED <<dir, records, schema, ranBefore, clock, ordinary, inOrder>>

\* What follows the file of entry r: for up, the next SELECT COUNT.
AfterApply(c, r) ==
    [c EXCEPT !.names = @ \ {r}, !.at = IF c.op = "up" THEN "check" ELSE "apply"]

\* Fault: the Up section runs outside the transaction that records it.
ApplyUnrecorded(p) ==
    LET c == cmd[p] IN
    /\ c.at = "apply"
    /\ \E r \in c.names :
          /\ Oldest(r, c.names)
          /\ r.file \in dir \ Applied
          /\ schema' = schema \cup {r.file}
          /\ ranBefore' = ranBefore \cup (schema \X {r.file})
          /\ records' \in {records, records \cup {[file |-> r.file, at |-> clock]}}
          /\ Continue(p, AfterApply(c, r), c.op # "up" /\ c.names = {r})
    /\ UNCHANGED <<dir, clock, ordinary, inOrder>>

\* One transaction: the Up section and the record of it (applyMigrations and
\* applyOneMigration).  The primary key refuses a file that is recorded.
Apply(p) ==
    LET c == cmd[p] IN
    /\ c.at = "apply"
    /\ \E r \in c.names :
          /\ Oldest(r, c.names)
          /\ r.file \in dir \ Applied
          /\ schema' = schema \cup {r.file}
          /\ ranBefore' = ranBefore \cup (schema \X {r.file})
          /\ records' = records \cup {[file |-> r.file, at |-> clock]}
          /\ Continue(p, AfterApply(c, r), c.op # "up" /\ c.names = {r})
    /\ UNCHANGED <<dir, clock, ordinary, inOrder>>

-----------------------------------------------------------------------------
(* Reverting.                                                              *)

\* migrateDown and migrateRedo.
DownOrRedo(p, op, n) ==
    Start(p, [NoCommand EXCEPT !.at = "list", !.op = op, !.n = n])

\* Fault: the listing is in the order the files were applied.
ListOldest(p) ==
    LET c == cmd[p] IN
    /\ c.at = "list"
    /\ \E N \in SUBSET records :
          /\ \A r \in N, x \in records \ N : Older(r, x)
          /\ Cardinality(N) = c.n \/ (N = records /\ Cardinality(N) < c.n)
          /\ Continue(p, [c EXCEPT !.at = "revert", !.names = N], N = {})
    /\ UNCHANGED <<dir, records, schema, ranBefore, clock, ordinary, inOrder>>

\* MigrateDirDown's SELECT; nothing applied is a clean no-op.
ListNewest(p) ==
    LET c == cmd[p] IN
    /\ c.at = "list"
    /\ \E N \in SUBSET records :
          /\ TakesNewest(N, records, c.n)
          /\ Continue(p, [c EXCEPT !.at = "revert", !.names = N], N = {})
    /\ UNCHANGED <<dir, records, schema, ranBefore, clock, ordinary, inOrder>>

\* What follows the revert of entry r: the next one, or for redo the reverted
\* files again, oldest first.
AfterRevert(c, r) ==
    IF c.names = {r} /\ c.op = "redo"
    THEN [c EXCEPT !.at = "apply", !.names = c.done \cup {r}, !.done = {}]
    ELSE [c EXCEPT !.names = @ \ {r}, !.done = @ \cup {r}]

\* What is left without the file f.
Drop(f) ==
    /\ schema' = schema \ {f}
    /\ ranBefore' = {e \in ranBefore : e[1] # f /\ e[2] # f}
    /\ records' = {r \in records : r.file # f}

\* Fault: redo goes on to apply whatever is pending.
RedoThenUp(p) ==
    LET c == cmd[p] IN
    /\ c.at = "revert"
    /\ \E r \in c.names :
          /\ Newest(r, c.names)
          /\ r.file \in dir \ NoDown
          /\ Drop(r.file)
          /\ Continue(p, IF c.names = {r} /\ c.op = "redo"
                         THEN [c EXCEPT !.at = "check", !.names = Listing]
                         ELSE AfterRevert(c, r),
                      c.names = {r} /\ c.op # "redo")
    /\ UNCHANGED <<dir, clock, ordinary, inOrder>>

\* One transaction: the Down section and the DELETE of the record.  A file
\* another process has reverted meanwhile changes nothing, if its Down
\* section bears running twice.
Revert(p) ==
    LET c == cmd[p] IN
    /\ c.at = "revert"
    /\ \E r \in c.names :
          /\ Newest(r, c.names)
          /\ r.file \in dir \ NoDown
          /\ Drop(r.file)
          /\ Continue(p, AfterRevert(c, r), c.names = {r} /\ c.op # "redo")
    /\ UNCHANGED <<dir, clock, ordinary, inOrder>>

-----------------------------------------------------------------------------
(* to <version>.                                                           *)

\* resolveVersion finds the target in the directory; Status lists the rest.
To(p, t) ==
    /\ t \in dir
    /\ Start(p, [NoCommand EXCEPT !.at = "scan", !.op = "to", !.target = t, !.names = Listing])

\* Status: the file is read and its record selected, one file at a time.
Scan(p) ==
    LET c == cmd[p] IN
    /\ c.at = "scan"
    /\ \E r \in c.names :
          /\ Oldest(r, c.names)
          /\ r.file \in dir
          /\ LET found == {x \in records : x.file = r.file} IN
             cmd' = [cmd EXCEPT ![p].names = @ \ {r}, ![p].done = @ \cup found,
                                ![p].todo = IF found = {} THEN @ \cup {r} ELSE @]
    /\ outcome' = {}
    /\ UNCHANGED <<dir, records, schema, ranBefore, clock, ordinary, inOrder>>

\* Fault: the target is reverted as well.
BeyondOrAt(c) == {r \in c.done : r.file >= c.target}

\* The applied files after the target.
Beyond(c) == {r \in c.done : r.file > c.target}

Settle(c, at, n, names) == [c EXCEPT !.at = at, !.n = n, !.names = names, !.done = {}, !.todo = {}]

\* Fault: only the target itself is applied.
DecideTargetOnly(p) ==
    LET c == cmd[p] IN
    /\ c.at = "scan" /\ c.names = {}
    /\ IF c.target \in FilesOf(c.done)
       THEN Continue(p, Settle(c, "list", Cardinality(Beyond(c)), {}), Beyond(c) = {})
       ELSE Continue(p, Settle(c, "apply", 0, {r \in c.todo : r.file = c.target}), FALSE)
    /\ UNCHANGED <<dir, records, schema, ranBefore, clock, ordinary, inOrder>>

\* MigrateDirTo: down by as many as are applied after the target, or up to it.
Decide(p) ==
    LET c == cmd[p] IN
    /\ c.at = "scan" /\ c.names = {}
    /\ IF c.target \in FilesOf(c.done)
       THEN Continue(p, Settle(c, "list", Cardinality(Beyond(c)), {}), Beyond(c) = {})
       ELSE Continue(p, Settle(c, "apply", 0, {r \in c.todo : r.file <= c.target}), FALSE)
    /\ UNCHANGED <<dir, records, schema, ranBefore, clock, ordinary, inOrder>>

-----------------------------------------------------------------------------
MigNext ==
    \/ \E f \in Files :
        NewMigrationFile(f) \/ NewOutgrowsPadding(f) \/ MergeFile(f) \/ RemoveFile(f)
    \/ Tick
    \/ \E p \in Processes :
        \/ Up(p) \/ Check(p) \/ UpToDate(p) \/ Apply(p)
        \/ \E op \in {"down", "redo"}, n \in 1..MaxRevert : DownOrRedo(p, op, n)
        \/ ListNewest(p) \/ Revert(p)
        \/ \E t \in Files : To(p, t)
        \/ Scan(p) \/ Decide(p) \/ Stop(p)

MigSpec == MigInit /\ [][MigNext]_migVars

-----------------------------------------------------------------------------
(* Properties.                                                             *)

\* MIGCLI-01, 14 and 17: schema_migrations says what the schema is built of,
\* once each and with timestamps that follow the order it was built in,
\* whatever commands overlapped, failed or were cut off half-way.
RecordsMatchSchema ==
    /\ schema = Applied
    /\ \A r, x \in records : r.file = x.file => r = x
    /\ \A r, x \in records : <<r.file, x.file>> \in ranBefore => r.at <= x.at

\* MigrateDirTo's assumption, while every file that came sorted last: the
\* applied files are a prefix of the directory in filename order, also after
\* commands that failed or were cut off half-way.
AppliedIsAPrefix ==
    inOrder => \A f \in Applied : \A g \in dir : g < f => g \in Applied

\* MIGCLI-14 and 15: an undisturbed down n takes exactly what applied_at DESC,
\* version DESC puts first, n records or all there are.  That is newest first
\* to the second and by name within one: a file that an undisturbed down, redo
\* or to leaves standing, though it ran after one to be reverted, is of that
\* one's second and has a lower name.
DownTakesTheNewest ==
    /\ \A c \in outcome : c.op = "down" =>
        records \subseteq c.before /\ TakesNewest(c.before \ records, c.before, c.n)
    /\ \A p \in Processes : cmd[p].at = "revert" /\ cmd[p].alone =>
        \A r \in cmd[p].names, x \in records \ cmd[p].names :
            <<r.file, x.file>> \in ranBefore => x.at = r.at /\ x.file < r.file

\* MIGCLI-20 to 22: after an undisturbed redo exactly the files applied before
\* are applied, no pending one was swept up, and those of different seconds
\* are in effect in their original order.
RedoRestores ==
    \A c \in outcome : c.op = "redo" =>
        /\ Applied = FilesOf(c.before)
        /\ \A r, x \in c.before : r.at < x.at => <<r.file, x.file>> \in ranBefore

\* MIGCLI-29 to 31: while every file that came sorted last, an undisturbed
\* to <version> leaves exactly the files up to the target applied.
ToLandsOnTarget ==
    \A c \in outcome : c.op = "to" /\ inOrder =>
        Applied \cap dir = {f \in dir : f <= c.target}

\* MIGCLI-30 without asking where the files came from: going back to an applied
\* version keeps that version.  to counts by filename and reverts by age, so a
\* file merged below an applied one makes it revert the target instead.
ToKeepsItsTarget ==
    \A c \in outcome : c.op = "to" => c.target \in Applied

\* MigrateDirTo's comment: the prefix is "always true through ordinary use of
\* new/up/down/redo".  A number that outgrows its padding sorts first, below
\* the applied ones.
PrefixThroughOrdinaryUse ==
    ordinary => \A f \in Applied : \A g \in dir : g < f => g \in Applied

\* MIGCLI-15 without the whole seconds: nothing a down leaves ran after what it
\* is about to revert.  Of two files applied in one second, the later one out
\* of order, it takes the higher name, which ran first.
DownUndoesTheLast ==
    \A p \in Processes : cmd[p].at = "revert" /\ cmd[p].alone =>
        \A r \in cmd[p].names, x \in records \ cmd[p].names :
            <<r.file, x.file>> \notin ranBefore
=============================================================================
