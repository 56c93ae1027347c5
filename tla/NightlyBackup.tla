---------------------------- MODULE NightlyBackup ----------------------------
(***************************************************************************)
(* backup-db.sh, once a night: dump the live database, restore the dump    *)
(* into a scratch database of the backup container, check it, and let it   *)
(* take the place of yesterday's copy; delete dumps that have aged out.    *)
(* A step that fails ends the script through its trap; a power cut ends it *)
(* without.  The live database is as far as its migrations; deployments    *)
(* may add one at any time.                                                *)
(***************************************************************************)
EXTENDS Naturals, FiniteSets

CONSTANTS
    Nights,       \* bound: nights, by number
    KeepDays,     \* KEEP_DAYS
    MaxVersion,   \* bound: migrations
    None

VARIABLES
    night,        \* the night it is
    live,         \* migrations of the live database
    step,         \* STEP, or "off" when the script does not run
    counted,      \* LIVE_MIGRATIONS
    files,        \* BACKUP_DIR: the dump of each night, its name and content
    main,         \* the database of the backup container
    incoming,     \* its scratch database
    verified,     \* for the properties: nights whose dump was restored and checked
    cut           \* ... nights the script was cut off, 0 once a swap was cut short

vars == <<night, live, step, counted, files, main, incoming, verified, cut>>

Days == 1..Nights
Steps == {"off", "count", "dump", "named", "restore", "check", "swap", "rename", "cleanup", "done"}
\* A dump broken on the way restores, in part, or does not.
Content == [version : 0..MaxVersion, sound : BOOLEAN]
Copy == [of : Days, content : Content]

TypeOK ==
    /\ night \in Days /\ live \in 0..MaxVersion /\ step \in Steps
    /\ counted \in 0..MaxVersion
    /\ files \in [Days -> [name : {"part", "dump", "unverified"}, content : Content] \cup {None}]
    /\ main \in Copy \cup {None} /\ incoming \in Copy \cup {None}
    /\ verified \subseteq Days /\ cut \subseteq Days \cup {0}

Init ==
    /\ night = 1 /\ live = 0 /\ step = "count" /\ counted = 0
    /\ files = [d \in Days |-> None]
    /\ main = None /\ incoming = None
    /\ verified = {} /\ cut = {}

Dump == files[night]
Deploy ==
    /\ live < MaxVersion /\ live' = live + 1
    /\ UNCHANGED <<night, step, counted, files, main, incoming, verified, cut>>

\* cron; what a cut left half-written is overwritten or removed the next time.
NextNight ==
    /\ step \in {"off", "done"} /\ night < Nights
    /\ night' = night + 1 /\ step' = "count"
    /\ UNCHANGED <<live, counted, files, main, incoming, verified, cut>>

CountLive ==
    /\ step = "count" /\ counted' = live /\ step' = "dump"
    /\ UNCHANGED <<night, live, files, main, incoming, verified, cut>>

\* pg_dump > "$DUMP.part"
DumpLive(sound) ==
    /\ step = "dump" /\ step' = "named"
    /\ files' = [files EXCEPT ![night] = [name |-> "part", content |-> [version |-> live, sound |-> sound]]]
    /\ UNCHANGED <<night, live, counted, main, incoming, verified, cut>>

\* find -mtime +"$((KEEP_DAYS - 1))" -delete
Kept(f) == [d \in Days |-> IF d + KeepDays <= night THEN None ELSE f[d]]

NameDump ==
    /\ step = "named" /\ step' = "restore"
    /\ files' = [files EXCEPT ![night].name = "dump"]
    /\ UNCHANGED <<night, live, counted, main, incoming, verified, cut>>

\* dropdb, createdb, pg_restore into <db>_incoming.
Restore ==
    /\ step = "restore" /\ step' = "check"
    /\ incoming' = [of |-> night, content |-> Dump.content]
    /\ UNCHANGED <<night, live, counted, files, main, verified, cut>>

Counted == counted

Passes == incoming.content.sound /\ incoming.content.version >= Counted
Check ==
    /\ step = "check" /\ Passes /\ step' = "swap"
    /\ verified' = verified \cup {night}
    /\ UNCHANGED <<night, live, counted, files, main, incoming, cut>>

\* dropdb, and then the rename.
DropYesterdays ==
    /\ step = "swap" /\ step' = "rename"
    /\ main' = None
    /\ UNCHANGED <<night, live, counted, files, incoming, verified, cut>>
Rename ==
    /\ step = "rename" /\ step' = "cleanup"
    /\ main' = incoming /\ incoming' = None
    /\ UNCHANGED <<night, live, counted, files, verified, cut>>

Cleanup ==
    /\ step = "cleanup" /\ step' = "done"
    /\ files' = Kept(files)
    /\ UNCHANGED <<night, live, counted, main, incoming, verified, cut>>

\* A slip: the dump that failed keeps its name.
KeepsName(file) == file
SetAside(file) == IF file # None /\ step \in {"restore", "check"} THEN [file EXCEPT !.name = "unverified"] ELSE file

NoParts(f) == [d \in Days |-> IF f[d] # None /\ f[d].name = "part" THEN None ELSE f[d]]

\* The only copy that passed is still in the scratch database.
BeforeRename == step \in {"swap", "rename"} /\ main = None

\* on_exit, after a step that failed; Discord is told.  A restore that fails leaves what it had
\* restored by then; the check that fails is the one the copy does not pass, or
\* could not be made.
Trap ==
    /\ step \notin {"off", "done"} /\ step' = "off"
    /\ files' = NoParts([files EXCEPT ![night] = SetAside(@)])
    /\ incoming' \in {incoming} \cup IF step = "restore" THEN {None} ELSE {}
    /\ cut' = IF BeforeRename THEN cut \cup {0} ELSE cut
    /\ UNCHANGED <<night, live, counted, main, verified>>

PowerCut ==
    /\ step \notin {"off", "done"} /\ step' = "off"
    /\ cut' = cut \cup {night} \cup IF BeforeRename THEN {0} ELSE {}
    /\ UNCHANGED <<night, live, counted, files, main, incoming, verified>>

Over == night = Nights /\ step \in {"off", "done"} /\ UNCHANGED vars

Next ==
    \/ Deploy \/ NextNight \/ CountLive \/ (\E sound \in BOOLEAN : DumpLive(sound)) \/ NameDump
    \/ Restore \/ Check \/ DropYesterdays \/ Rename \/ Cleanup
    \/ Trap \/ PowerCut \/ Over

Spec == Init /\ [][Next]_vars
-----------------------------------------------------------------------------
(* What the backup guarantees. *)

\* Once a night's copy has passed the check, the backup container holds one that
\* did, whatever becomes of the later nights: as long as no run stopped in its swap,
\* with no copy but tonight's, before it was renamed.  The next run drops that one.
CopyIsKept ==
    verified # {} /\ 0 \notin cut =>
        \E copy \in {main, incoming} \ {None} : copy.of \in verified

\* "The backup database keeps yesterday's copy until tonight's has restored and
\* passed the check - a dump that turns out broken never wipes the last good copy":
\* while the scratch database holds a broken dump, the other one holds a good copy,
\* if there ever was one.
BrokenDumpWipesNothing ==
    incoming # None /\ ~incoming.content.sound /\ verified # {} =>
        main # None /\ main.of \in verified

\* A file that carries a good dump's name has been restored and checked, once the
\* script is over: but on the nights it was cut off.
DumpsAreVerified ==
    \A d \in Days \ (verified \cup cut) :
        files[d] # None /\ files[d].name = "dump" => d = night /\ step \notin {"off", "done"}

\* Dumps age out only on a night that has one of its own: nights that fail in a
\* row leave the last good one.
LastDumpIsKept ==
    verified # {} => \E d \in verified : files[d] # None /\ files[d].name = "dump"

\* A night whose dump was sound fails the check for want of an answer only: no
\* deployment between the dump and the check makes a backup look broken.
SoundDumpPasses == step = "check" /\ incoming.content.sound => Passes
=============================================================================
