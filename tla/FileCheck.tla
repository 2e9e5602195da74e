----------------------------- MODULE FileCheck ------------------------------
(***************************************************************************)
(* One evaluation of a file check (internal/checker/filecheck): list the    *)
(* matches of path_glob, stat them one by one, keep the one with the latest *)
(* mtime and judge it; or stat the one path.  Other programs write, rotate  *)
(* and remove files, and permissions change, between any two of these steps.*)
(*                                                                         *)
(* The matching names of one directory are 1..N in the order of the glob    *)
(* (it sorts them); path is the name 1.                                     *)
(***************************************************************************)
EXTENDS FileConfig

VARIABLES
  want,     \* the configuration
  pc,       \* where Evaluate is
  verdict,  \* what it returned
  ctxDone,  \* its context is cancelled
  todo,     \* matches that were listed and are still to be stat-ed
  best,     \* mtime and size of the newest one so far
  now,      \* wall clock
  disk,     \* what each name is
  dir,      \* what mitsume may do in the directory: "list" it, "search" it
  changes,  \* how often the directory was changed
  steady,   \* history: files that stand as they stood when Evaluate was entered
  access    \* history: values dir has had since then

evaluateVars == <<pc, verdict, todo, best>>
diskVars == <<now, disk, dir, changes, steady, access>>
vars == <<want, ctxDone, evaluateVars, diskVars>>

\* What a name may be; dangling is a link to nothing.
NoFile(kind) == [kind |-> kind, mtime |-> 0, size |-> 0]
Entries == [kind : {"file"}, mtime : Times, size : Sizes]
             \cup {NoFile("absent"), NoFile("dangling")}
Infos == [mtime : Times, size : Sizes]
IsFile(n) == disk[n].kind = "file"

(***************************************************************************)
(* What a stat and the glob return.                                         *)
(***************************************************************************)
Statable(n) == "search" \in dir /\ IsFile(n)
Info(n) == [mtime |-> disk[n].mtime, size |-> disk[n].size]

\* filepath.Glob ignores every error of the file system: a directory that cannot
\* be read has no matches.
Glob == IF "list" \in dir THEN {n \in Names : disk[n].kind # "absent"} ELSE {}

(***************************************************************************)
(* Evaluate.                                                                *)
(***************************************************************************)
Return(result) == pc' = "returned" /\ verdict' = result

\* handleResolveError: only a missing file is what exists: false waits for.
Unresolved(error) ==
  Return(IF want.exists = "no" /\ error \in {"no match", "missing"}
           THEN "ok" ELSE error)

EnterCancelled ==
  /\ pc = "enter" /\ ctxDone
  /\ Return("canceled")
  /\ UNCHANGED <<want, ctxDone, todo, best, diskVars>>

StatPath ==
  /\ pc = "enter" /\ ~ctxDone /\ want.look = "path"
  /\ IF Statable(1)
       THEN pc' = "judge" /\ best' = Info(1) /\ UNCHANGED verdict
       ELSE /\ Unresolved(IF "search" \in dir THEN "missing" ELSE "stat failed")
            /\ UNCHANGED best
  /\ UNCHANGED <<want, ctxDone, todo, diskVars>>

BadGlob ==
  /\ pc = "enter" /\ ~ctxDone /\ want.look = "bad glob"
  /\ Unresolved("glob failed")
  /\ UNCHANGED <<want, ctxDone, todo, best, diskVars>>

List ==
  /\ pc = "enter" /\ ~ctxDone /\ want.look = "glob"
  /\ IF Glob = {}
       THEN Unresolved("no match") /\ UNCHANGED todo
       ELSE pc' = "stat" /\ todo' = Glob /\ UNCHANGED verdict
  /\ UNCHANGED <<want, ctxDone, best, diskVars>>

\* Mutant: the first match that can be stat-ed is kept.
NewerFirst(info) == best = None

\* info.ModTime().After(newest.ModTime())
Newer(info) == best = None \/ info.mtime > best.mtime

NextMatch(n) == pc = "stat" /\ n \in todo /\ \A m \in todo : n <= m

StatMatch(n) ==
  /\ NextMatch(n) /\ Statable(n)
  /\ todo' = todo \ {n}
  /\ best' = IF Newer(Info(n)) THEN Info(n) ELSE best
  /\ UNCHANGED <<want, ctxDone, pc, verdict, diskVars>>

\* Mutant: one failed stat fails the check.
SkipMatchFails(n) ==
  /\ NextMatch(n) /\ ~Statable(n)
  /\ Unresolved("stat failed")
  /\ UNCHANGED <<want, ctxDone, todo, best, diskVars>>

SkipMatch(n) ==
  /\ NextMatch(n) /\ ~Statable(n)
  /\ todo' = todo \ {n}
  /\ UNCHANGED <<want, ctxDone, pc, verdict, best, diskVars>>

StatsDone ==
  /\ pc = "stat" /\ todo = {}
  /\ IF best = None THEN Unresolved("stat failed")
                    ELSE pc' = "judge" /\ UNCHANGED verdict
  /\ UNCHANGED <<want, ctxDone, todo, best, diskVars>>

\* evaluateAttributes: the clock is read once, after the last stat.
Attributes ==
  IF want.exists = "no" THEN "exists"
  ELSE IF want.within > 0 /\ now - best.mtime >= want.within THEN "stale"
  ELSE IF want.min # None /\ best.size < want.min THEN "too small"
  ELSE IF want.max # None /\ best.size > want.max THEN "too large"
  ELSE "ok"

Judge ==
  /\ pc = "judge"
  /\ Return(Attributes)
  /\ UNCHANGED <<want, ctxDone, todo, best, diskVars>>

(***************************************************************************)
(* The rest of the machine, until Evaluate returns.                         *)
(***************************************************************************)
Change == pc # "returned" /\ changes < MaxChanges /\ changes' = changes + 1

\* A name is removed, written, touched, replaced (with any mtime: mv and rsync
\* keep that of the source) or made a link to nothing.
Put(n, entry) ==
  /\ Change
  /\ disk' = [disk EXCEPT ![n] = entry] /\ steady' = steady \ {n}
  /\ UNCHANGED <<want, ctxDone, evaluateVars, now, dir, access>>

Chmod(permissions) ==
  /\ Change
  /\ dir' = permissions /\ access' = access \cup {permissions}
  /\ UNCHANGED <<want, ctxDone, evaluateVars, now, disk, steady>>

Tick ==
  /\ pc # "returned" /\ now < MaxTime
  /\ now' = now + 1
  /\ UNCHANGED <<want, ctxDone, evaluateVars, disk, dir, changes, steady, access>>

CancelContext ==
  /\ ~ctxDone /\ ctxDone' = TRUE
  /\ UNCHANGED <<want, evaluateVars, diskVars>>

(***************************************************************************)
(* The specification.                                                       *)
(***************************************************************************)
Permissions == SUBSET {"list", "search"}

Init ==
  /\ want \in FileWants
  /\ pc = "enter" /\ verdict = None /\ ctxDone = FALSE
  /\ todo = {} /\ best = None
  /\ now \in Times /\ disk \in [Names -> Entries] /\ dir \in Permissions
  /\ changes = 0
  /\ steady = {n \in Names : IsFile(n)} /\ access = {dir}

Evaluate ==
  \/ EnterCancelled \/ StatPath \/ BadGlob \/ List
  \/ \E n \in Names : StatMatch(n) \/ SkipMatch(n)
  \/ StatsDone \/ Judge

World ==
  \/ \E n \in Names, entry \in Entries : Put(n, entry)
  \/ \E permissions \in Permissions : Chmod(permissions)
  \/ Tick \/ CancelContext

Returned == pc = "returned" /\ UNCHANGED vars

Next == Evaluate \/ World \/ Returned

Spec == Init /\ [][Next]_vars

(***************************************************************************)
(* Properties.                                                              *)
(***************************************************************************)
Verdicts == {None, "canceled", "glob failed", "no match", "missing", "stat failed",
             "exists", "stale", "too small", "too large", "ok"}

TypeOK ==
  /\ want \in FileWants
  /\ pc \in {"enter", "stat", "judge", "returned"}
  /\ verdict \in Verdicts
  /\ ctxDone \in BOOLEAN
  /\ todo \subseteq Names /\ (best = None \/ best \in Infos)
  /\ now \in Times /\ disk \in [Names -> Entries] /\ dir \in Permissions
  /\ changes \in 0..MaxChanges
  /\ steady \subseteq Names /\ access \subseteq Permissions /\ dir \in access

Watched == IF want.look = "path" THEN {1} ELSE Names
Readable == access = {{"list", "search"}}

\* A check that misses its file, or finds it too old, is right about every file
\* that stood there untouched from entry to return: none of them matched, or each
\* was as old as that.  Whatever else is rotated away, removed or added while the
\* matches are stat-ed cannot hide it.
FailureIsReal ==
  (Readable /\ want.look # "bad glob") =>
    /\ verdict \in {"no match", "missing", "stat failed"} =>
         steady \cap Watched = {}
    /\ verdict = "stale" =>
         \A n \in steady \cap Watched : now - disk[n].mtime >= want.within

\* A check that passes did so on a file at least as new as every file that stood
\* there untouched, and exists: false passes only where none did.
PassIsReal ==
  (Readable /\ verdict = "ok") =>
    IF want.exists = "no" THEN steady \cap Watched = {}
    ELSE best # None /\ \A n \in steady \cap Watched : best.mtime >= disk[n].mtime
=============================================================================
